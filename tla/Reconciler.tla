----------------------------- MODULE Reconciler -----------------------------
(***************************************************************************)
(* The storage controller and one tenant shard under the policy            *)
(* Attached(SecondaryCount).  The controller keeps an intent, what it has  *)
(* observed on the pageservers and a generation number; reconciler tasks   *)
(* take a snapshot of these and call the pageservers, the database and the *)
(* compute hook until the snapshot's intent holds, one task after the      *)
(* other.  Calls fail, or fail after they were carried out, nodes go       *)
(* offline and return, pageservers restart and re-attach, the controller   *)
(* restarts.                                                               *)
(***************************************************************************)
EXTENDS Integers, Sequences, FiniteSets, FiniteSetsExt, SequencesExt

CONSTANTS Nodes, NoNode,
          SecondaryCount, \* PlacementPolicy::Attached(_)
          MaxGen,         \* bound on the generations issued
          MaxFaults,      \* bound on calls that fail
          MaxMigrations, MaxOfflines, MaxCrashes, MaxRestarts

\* What the constants must be.
ReconcilerAssumption ==
  /\ NoNode \notin Nodes /\ IsFiniteSet(Nodes) /\ SecondaryCount \in 0..1 /\ SecondaryCount < Cardinality(Nodes)
  /\ {MaxGen, MaxFaults, MaxMigrations, MaxOfflines, MaxCrashes, MaxRestarts} \subseteq Nat

VARIABLES db,           \* row of tenant_shards: [gen, node], node is generation_pageserver
          loc,          \* LocationConf of the shard on every pageserver
          slot,         \* an upsert_location or detach still in progress there
          wire,         \* requests to configure a location that their caller no longer waits for
          late,         \* one of them has changed a location after that
          up,           \* the pageservers that are running
          issued,       \* per node: generation taken in the database by a re_attach that has not answered
          answer,       \* per node: the ReAttachResponse it has received
          m,            \* the controller's TenantShard, and the availability of nodes
          reconcilers,  \* reconciler tasks: the first one runs, each of the others awaits the one before it
          results,      \* result_tx
          hook,         \* ComputeHook: the last notification acknowledged
          told,         \* node the compute uses
          bg,           \* node of a notify_attach_background in progress
          bgerr,        \* its failure, not yet seen by process_results
          faults, migrations, offlines, crashes, restarts

pageservers == <<loc, slot, wire, late, up, issued, answer>>
compute == <<hook, told, bg, bgerr>>
bounds == <<migrations, offlines, crashes, restarts>>
vars == <<db, pageservers, m, reconcilers, results, compute, faults, bounds>>

----------------------------------------------------------------------------
(* LocationConfig.  heatmap stands for the part of TenantConfig that       *)
(* ha_aware_config sets.  Unknown is an observed location whose conf is    *)
(* None, Absent one that is not in the map.                                *)

Conf(mode, gen, heatmap) == [mode |-> mode, gen |-> gen, heatmap |-> heatmap]
Absent == Conf("Detached", 0, FALSE)
Unknown == Conf("Unknown", 0, FALSE)
AttachedModes == {"AttachedSingle", "AttachedMulti", "AttachedStale"}
IsAttached(c) == c.mode \in AttachedModes

attached_location_conf(gen, secondary) == Conf("AttachedSingle", gen, SecondaryCount > 0 \/ secondary # {})
secondary_location_conf == Conf("Secondary", 0, TRUE)

Idle == Conf("Idle", 0, FALSE)

----------------------------------------------------------------------------
(* TenantShard                                                             *)

IsActive(s, n) == s.avail[n] = "active"

dirty(s) ==
  \E n \in Nodes :
    /\ IsActive(s, n)
    /\ \/ n = s.att /\ s.obs[n] # attached_location_conf(s.gen, s.sec)
       \/ n \in s.sec /\ s.obs[n] # secondary_location_conf
       \/ n \notin {s.att} \cup s.sec /\ s.obs[n] # Absent

get_reconcile_needed(s) ==
  /\ \/ dirty(s)
     \/ \E n \in Nodes : IsActive(s, n) /\ s.obs[n] = Unknown
     \/ s.pending
  /\ ~(s.handle # 0 /\ s.handle = s.seq)

ensure_sequence_ahead(s) ==
  LET max_seen == Max({s.handle, s.done}) IN IF s.seq <= max_seen THEN max_seen + 1 ELSE s.seq

\* What a Reconciler is given: snapshots of intent, observed state, generation and nodes.
NewTask(s) ==
  [seq |-> ensure_sequence_ahead(s), att |-> s.att, sec |-> s.sec,
   det |-> {n \in Nodes : s.obs[n] # Absent} \ ({s.att} \cup s.sec),
   live |-> {n \in Nodes : IsActive(s, n)},
   gen |-> s.gen, obs |-> s.obs, orig |-> s.obs, must |-> s.pending, failed |-> FALSE,
   cancel |-> FALSE, entered |-> reconcilers = <<>>, pc |-> "start", origin |-> NoNode, todo |-> {}, err |-> FALSE]

\* maybe_reconcile_shard, with the nodes' tokens of the tasks in ts
MaybeReconcile(s, ts) ==
  IF get_reconcile_needed(s)
  THEN /\ reconcilers' = Append(ts, NewTask(s))
       /\ m' = [s EXCEPT !.seq = ensure_sequence_ahead(s), !.handle = ensure_sequence_ahead(s)]
  ELSE /\ reconcilers' = ts
       /\ m' = s

Init ==
  /\ \E a \in Nodes, s \in SUBSET (Nodes) :
       /\ a \notin s /\ Cardinality(s) = SecondaryCount
       /\ loc = [n \in Nodes |-> IF n = a THEN attached_location_conf(1, s)
                                 ELSE IF n \in s THEN secondary_location_conf ELSE Absent]
       /\ m = [avail |-> [n \in Nodes |-> "active"], att |-> a, sec |-> s, obs |-> loc, gen |-> 1,
               seq |-> 0, done |-> 0, handle |-> 0, pending |-> FALSE]
       /\ db = [gen |-> 1, node |-> a]
       /\ told = a /\ hook = a
  /\ slot = [n \in Nodes |-> Idle] /\ wire = {} /\ late = FALSE /\ up = [n \in Nodes |-> TRUE]
  /\ issued = [n \in Nodes |-> -1] /\ answer = [n \in Nodes |-> Idle]
  /\ reconcilers = <<>> /\ results = <<>> /\ bg = NoNode /\ bgerr = FALSE
  /\ faults = 0 /\ migrations = 0 /\ offlines = 0 /\ crashes = 0 /\ restarts = 0

----------------------------------------------------------------------------
(* Pageservers                                                             *)

\* upsert_location: not while the slot is in progress, and not back to an older generation
Accepts(n, c) ==
  /\ up[n] /\ slot[n] = Idle
  /\ ~(IsAttached(c) /\ IsAttached(loc[n]) /\ c.gen < loc[n].gen)

\* An upsert whose caller no longer waits comes to its end.
SlotDone(n) ==
  /\ slot[n] # Idle
  /\ loc' = [loc EXCEPT ![n] = slot[n]] /\ slot' = [slot EXCEPT ![n] = Idle]
  /\ UNCHANGED <<db, wire, late, up, issued, answer, m, reconcilers, results, compute, faults, bounds>>

\* A request reaches its pageserver after its caller has given it up, and perhaps after newer ones.
LateRequest(r) ==
  /\ r \in wire /\ wire' = wire \ {r}
  /\ IF Accepts(r.node, r.conf) /\ loc[r.node] # r.conf
     THEN loc' = [loc EXCEPT ![r.node] = r.conf] /\ late' = TRUE
     ELSE UNCHANGED <<loc, late>>
  /\ UNCHANGED <<db, slot, up, issued, answer, m, reconcilers, results, compute, faults, bounds>>

\* get_location_config_handler
Reported(n) == IF slot[n] = Idle THEN loc[n] ELSE Unknown

\* The config of an upsert in progress has been written, or not.
Crash(n) ==
  /\ up[n] /\ crashes < MaxCrashes /\ crashes' = crashes + 1
  /\ up' = [up EXCEPT ![n] = FALSE]
  /\ \E c \in {loc[n], IF slot[n] = Idle THEN loc[n] ELSE slot[n]} : loc' = [loc EXCEPT ![n] = c]
  /\ slot' = [slot EXCEPT ![n] = Idle] /\ wire' = {r \in wire : r.node # n}
  /\ UNCHANGED <<db, late, issued, answer, m, reconcilers, results, compute, faults, migrations,
                 offlines, restarts>>

\* Persistence::re_attach
ReAttachDb(n) ==
  /\ ~up[n] /\ issued[n] = -1 /\ answer[n] = Idle
  /\ IF db.node = n
     THEN db.gen < MaxGen /\ db' = [db EXCEPT !.gen = @ + 1] /\ issued' = [issued EXCEPT ![n] = db.gen + 1]
     ELSE issued' = [issued EXCEPT ![n] = 0] /\ UNCHANGED db
  /\ UNCHANGED <<loc, slot, wire, late, up, answer, m, reconcilers, results, compute, faults, bounds>>

\* The node's cancellation token fires: copies of the node in running tasks are no longer available.
Fired(ts, n) == [i \in DOMAIN ts |-> [ts[i] EXCEPT !.live = @ \ {n}]]

\* The rest of Service::re_attach
ReAttach(n) ==
  LET new == issued[n]
      seen == IF new = 0 THEN m.obs[n]
              ELSE IF m.obs[n] \in {Absent, Unknown} THEN Unknown ELSE [m.obs[n] EXCEPT !.gen = new]
  IN /\ ~up[n] /\ new # -1
     /\ answer' = [answer EXCEPT ![n] = IF new # 0 THEN Conf("AttachedSingle", new, FALSE)
                                        ELSE IF n \in m.sec THEN secondary_location_conf ELSE Absent]
     /\ m' = [m EXCEPT !.gen = Max({m.gen, new}), !.obs[n] = seen, !.avail[n] = "warming"]
     /\ reconcilers' = IF IsActive(m, n) THEN Fired(reconcilers, n) ELSE reconcilers
     /\ issued' = [issued EXCEPT ![n] = -1]
     /\ UNCHANGED <<db, loc, slot, wire, late, up, results, compute, faults, bounds>>

\* The answer is lost: the pageserver asks again.
ReAttachLost(n) ==
  /\ answer[n] # Idle /\ faults < MaxFaults /\ faults' = faults + 1
  /\ answer' = [answer EXCEPT ![n] = Idle]
  /\ UNCHANGED <<db, loc, slot, wire, late, up, issued, m, reconcilers, results, compute, bounds>>

\* init_tenant_mgr: the answer decides about the locations found on disk.
InitTenantMgr(n) ==
  LET a == answer[n]
      demoted == Conf("Secondary", 0, loc[n].heatmap)
  IN /\ a # Idle
     /\ loc' = [loc EXCEPT ![n] =
                  CASE @ = Absent \/ a = Absent -> Absent
                    [] @ # Absent /\ IsAttached(a) ->
                         IF IsAttached(@) /\ @.gen > a.gen THEN demoted ELSE Conf("AttachedSingle", a.gen, @.heatmap)
                    [] OTHER -> demoted]
     /\ up' = [up EXCEPT ![n] = TRUE] /\ answer' = [answer EXCEPT ![n] = Idle]
     /\ UNCHANGED <<db, slot, wire, late, issued, m, reconcilers, results, compute, faults, bounds>>

----------------------------------------------------------------------------
(* Steps of the reconciler that runs                                       *)

Fault == faults < MaxFaults /\ faults' = faults + 1
NoFault == UNCHANGED faults

Running == reconcilers # <<>> /\ reconcilers[1].entered
Becomes(t) == reconcilers' = <<t>> \o Tail(reconcilers) /\ UNCHANGED results

\* observed_deltas: Idle for a location that did not change, Absent for Delete
observed_deltas(t) == [n \in Nodes |-> IF t.obs[n] = t.orig[n] THEN Idle ELSE t.obs[n]]

\* The end of TenantShard::reconcile
Ends(t, ok) ==
  /\ results' = Append(results, [seq |-> t.seq, ok |-> ok, gen |-> t.gen, deltas |-> observed_deltas(t),
                                 pending |-> t.failed])
  /\ reconcilers' = Tail(reconcilers)
Fails(t) == Ends([t EXCEPT !.failed = @ \/ t.must], FALSE)
GoesTo(pc, t) == Becomes([t EXCEPT !.pc = pc])

\* What location_config leaves on record until the request has succeeded, and then
Uncertain(t, n) == [t EXCEPT !.obs[n] = Unknown]
Configured(t, n, c) == [t EXCEPT !.obs[n] = c]

\* Reconciler::location_config.  A request may be refused, carried out without an answer, in progress or still
\* under way when its timeout or the node's token ends the call.  ok and err are what the caller does next.
location_config(t, n, c, ok, err) ==
  \/ /\ t.cancel /\ NoFault
     /\ err /\ UNCHANGED <<loc, slot, wire>>
  \/ /\ ~t.cancel /\ n \in t.live /\ Accepts(n, c) /\ NoFault
     /\ loc' = [loc EXCEPT ![n] = c] /\ UNCHANGED <<slot, wire>>
     /\ ok
  \/ /\ ~t.cancel /\ up[n] /\ ~Accepts(n, c) /\ NoFault
     /\ err /\ UNCHANGED <<loc, slot, wire>>
  \/ /\ ~t.cancel /\ IF n \in t.live /\ up[n] THEN Fault ELSE NoFault
     /\ \/ UNCHANGED <<loc, slot, wire>>
        \/ up[n] /\ wire' = wire \cup {[node |-> n, conf |-> c]} /\ UNCHANGED <<loc, slot>>
        \/ Accepts(n, c) /\ c # loc[n] /\ loc' = [loc EXCEPT ![n] = c] /\ UNCHANGED <<slot, wire>>
        \/ Accepts(n, c) /\ c # loc[n] /\ slot' = [slot EXCEPT ![n] = c] /\ UNCHANGED <<loc, wire>>
     /\ err

\* Slip: the row keeps the pageserver of the generation before.
NextRow_Slip(t) == [db EXCEPT !.gen = @ + 1]

\* Persistence::increment_generation; the answer of the database may be lost.
NextRow(t) == [gen |-> db.gen + 1, node |-> t.att]

increment_generation(t, pc) ==
  \/ /\ db.gen < MaxGen /\ NoFault
     /\ db' = NextRow(t)
     /\ GoesTo(pc, [t EXCEPT !.gen = NextRow(t).gen])
  \/ /\ Fault
     /\ \/ UNCHANGED db
        \/ db.gen < MaxGen /\ db' = NextRow(t)
     /\ Fails(t)

\* The notification has failed and is left to be made later.
Unnotified(t) == [t EXCEPT !.failed = TRUE]

\* compute_notify: the hook sends only what differs from the last notification acknowledged.
compute_notify(t, ok, err) ==
  /\ UNCHANGED <<bg, bgerr>>
  /\ \/ bg = NoNode /\ hook = t.att /\ NoFault /\ ok /\ UNCHANGED <<hook, told>>
     \/ bg = NoNode /\ hook # t.att /\ ~t.cancel /\ NoFault /\ told' = t.att /\ hook' = t.att /\ ok
     \/ bg = NoNode /\ hook # t.att /\ t.cancel /\ NoFault /\ hook' = NoNode /\ err /\ UNCHANGED told
     \/ bg # NoNode /\ t.cancel /\ NoFault /\ err /\ UNCHANGED <<hook, told>>
     \/ /\ bg = NoNode /\ hook # t.att /\ ~t.cancel /\ Fault
        /\ told' \in {told, t.att} /\ hook' = NoNode
        /\ err

\* The task of a newer sequence is polled for the first time.
Enter(i) ==
  /\ i \in 2..Len(reconcilers) /\ ~reconcilers[i].entered
  /\ reconcilers' = [reconcilers EXCEPT ![i].entered = TRUE, ![i - 1].cancel = TRUE]
  /\ UNCHANGED <<db, pageservers, m, results, compute, faults, bounds>>

\* A task that has nothing to wait for, because the one before it has ended
EnterFirst ==
  /\ reconcilers # <<>> /\ ~reconcilers[1].entered
  /\ reconcilers' = [reconcilers EXCEPT ![1].entered = TRUE]
  /\ UNCHANGED <<db, pageservers, m, results, compute, faults, bounds>>

\* The general case of reconcile() for the attached location, up to its first call
AttachNext(t) ==
  LET wanted == attached_location_conf(t.gen, t.sec)
      seen == t.obs[t.att]
  IN IF seen = wanted THEN "notify"
     ELSE IF seen.gen # wanted.gen \/ seen.mode # wanted.mode THEN "increment" ELSE "attach"

\* maybe_live_migrate
Origins(t) ==
  IF t.obs[t.att].mode \in {"Secondary", "Detached"}
  THEN {n \in ({t.att} \cup t.sec \cup t.det) \cap t.live : t.obs[n].mode = "AttachedSingle"}
  ELSE {}
MaybeLiveMigrate(t) ==
  IF Origins(t) = {} THEN GoesTo(AttachNext(t), t)
  ELSE \E n \in Origins(t) : GoesTo("stale", [t EXCEPT !.origin = n])

\* The early check for cancellation, and maybe_refresh_observed
Start ==
  LET t == reconcilers[1]
  IN /\ Running /\ t.pc = "start"
     /\ \/ t.cancel /\ reconcilers' = Tail(reconcilers) /\ UNCHANGED results /\ NoFault
        \/ ~t.cancel /\ t.obs[t.att] # Unknown /\ MaybeLiveMigrate(t) /\ NoFault
        \/ /\ ~t.cancel /\ t.obs[t.att] = Unknown /\ t.att \in t.live /\ up[t.att] /\ NoFault
           /\ MaybeLiveMigrate([t EXCEPT !.obs[t.att] = Reported(t.att)])
        \/ /\ ~t.cancel /\ t.obs[t.att] = Unknown
           /\ IF t.att \in t.live /\ up[t.att] THEN Fault ELSE NoFault
           /\ Fails(t)
     /\ UNCHANGED <<db, pageservers, m, compute, bounds>>

\* live_migrate, step by step.  The origin's LSNs are read after it is stale; a secondary is warmed up.
MigrateStale ==
  LET t == reconcilers[1]
      conf == Conf("AttachedStale", t.gen, FALSE)
  IN /\ Running /\ t.pc = "stale"
     /\ location_config(t, t.origin, conf, GoesTo("newgen", Configured(t, t.origin, conf)),
                        Fails(Uncertain(t, t.origin)))
     /\ UNCHANGED <<db, late, up, issued, answer, m, compute, bounds>>

MigrateGeneration ==
  LET t == reconcilers[1]
  IN /\ Running /\ t.pc = "newgen"
     /\ \/ up[t.origin] /\ IsAttached(loc[t.origin]) /\ increment_generation(t, "multi")
        \/ ~(up[t.origin] /\ IsAttached(loc[t.origin])) /\ Fails(t) /\ NoFault /\ UNCHANGED db
        \/ t.cancel /\ t.obs[t.att].mode = "Secondary" /\ Fails(t) /\ NoFault /\ UNCHANGED db
     /\ UNCHANGED <<pageservers, m, compute, bounds>>

MigrateMulti ==
  LET t == reconcilers[1]
      conf == Conf("AttachedMulti", t.gen, FALSE)
  IN /\ Running /\ t.pc = "multi"
     /\ location_config(t, t.att, conf, GoesTo("await", Configured(t, t.att, conf)),
                        Fails(Uncertain(t, t.att)))
     /\ UNCHANGED <<db, late, up, issued, answer, m, compute, bounds>>

\* await_lsn goes on for ever when the destination does not answer.
MigrateAwaitLsn ==
  LET t == reconcilers[1]
  IN /\ Running /\ t.pc = "await"
     /\ \/ up[t.att] /\ IsAttached(loc[t.att]) /\ GoesTo("blocking", t)
        \/ t.cancel /\ Fails(t)
     /\ UNCHANGED <<db, pageservers, m, compute, faults, bounds>>

\* Slip: the origin is demoted whether the compute has heard of the migration or not.
MigrateNotify_Slip ==
  LET t == reconcilers[1]
  IN /\ Running /\ t.pc = "blocking"
     /\ compute_notify(t, GoesTo("demote", t), GoesTo("demote", Unnotified(t)))
     /\ UNCHANGED <<db, pageservers, m, bounds>>

\* compute_notify_blocking: after an error that is not fatal, go on only if the origin cannot be used any more.
MigrateNotify ==
  LET t == reconcilers[1]
      err == \/ Fails(Unnotified(t))
             \/ /\ ~t.cancel
                /\ IF t.origin \in t.live /\ (up[t.origin] => IsAttached(loc[t.origin]))
                   THEN GoesTo("blocking", Unnotified(t)) ELSE GoesTo("demote", Unnotified(t))
  IN /\ Running /\ t.pc = "blocking"
     /\ compute_notify(t, GoesTo("demote", t), err)
     /\ UNCHANGED <<db, pageservers, m, bounds>>

MigrateDemote ==
  LET t == reconcilers[1]
      conf == Conf("Secondary", 0, FALSE)
  IN /\ Running /\ t.pc = "demote"
     /\ location_config(t, t.origin, conf, GoesTo("single", Configured(t, t.origin, conf)),
                        Fails(Uncertain(t, t.origin)))
     /\ UNCHANGED <<db, late, up, issued, answer, m, compute, bounds>>

MigrateSingle ==
  LET t == reconcilers[1]
      conf == Conf("AttachedSingle", t.gen, FALSE)
      single == Configured(t, t.att, conf)
  IN /\ Running /\ t.pc = "single"
     /\ location_config(t, t.att, conf, GoesTo(AttachNext(single), single),
                        Fails(Uncertain(t, t.att)))
     /\ UNCHANGED <<db, late, up, issued, answer, m, compute, bounds>>

\* The general case
Increment ==
  LET t == reconcilers[1]
  IN /\ Running /\ t.pc = "increment"
     /\ increment_generation(t, "attach")
     /\ UNCHANGED <<pageservers, m, compute, bounds>>

\* The list of changes; a secondary on a node that is not available is left for later.
ToConfigure(t) == {n \in t.sec : t.obs[n] # secondary_location_conf}
Skipped(t) == ToConfigure(t) \ t.live
AfterAttach(t) ==
  GoesTo("changes", [t EXCEPT !.todo = (ToConfigure(t) \cap t.live) \cup t.det,
                              !.obs = [n \in Nodes |-> IF n \in Skipped(t) THEN Unknown ELSE t.obs[n]]])

Attach ==
  LET t == reconcilers[1]
      conf == attached_location_conf(t.gen, t.sec)
  IN /\ Running /\ t.pc = "attach"
     /\ location_config(t, t.att, conf, GoesTo("notify", Configured(t, t.att, conf)),
                        Fails(Uncertain(t, t.att)))
     /\ UNCHANGED <<db, late, up, issued, answer, m, compute, bounds>>

Notify ==
  LET t == reconcilers[1]
  IN /\ Running /\ t.pc = "notify"
     /\ compute_notify(t, AfterAttach(t), Fails(Unnotified(t)))
     /\ UNCHANGED <<db, pageservers, m, bounds>>

\* Configure a secondary, or detach, in the order of `changes`; the first error is kept.
Change ==
  LET t == reconcilers[1]
      next == IF t.todo \cap t.sec # {} THEN t.todo \cap t.sec ELSE t.todo
  IN /\ Running /\ t.pc = "changes" /\ t.todo # {}
     /\ \/ t.cancel /\ Fails(t) /\ NoFault /\ UNCHANGED <<loc, slot, wire>>
        \/ /\ ~t.cancel
           /\ \E n \in next :
                LET rest == [t EXCEPT !.todo = @ \ {n}]
                    conf == IF n \in t.sec THEN secondary_location_conf ELSE Absent
                IN IF n \in t.live
                   THEN location_config(rest, n, conf, Becomes(Configured(rest, n, conf)),
                                        Becomes([Uncertain(rest, n) EXCEPT !.err = TRUE]))
                   ELSE Becomes(Uncertain(rest, n)) /\ NoFault /\ UNCHANGED <<loc, slot, wire>>
     /\ UNCHANGED <<db, late, up, issued, answer, m, compute, bounds>>

\* TenantShard::reconcile sends a pending notification whatever the reconciler has done.
Finish ==
  LET t == reconcilers[1]
  IN /\ Running /\ t.pc = "changes" /\ t.todo = {}
     /\ IF t.err THEN Fails(t) /\ UNCHANGED <<compute, faults>>
        ELSE IF t.must THEN compute_notify(t, Ends(t, TRUE), Ends(Unnotified(t), TRUE))
        ELSE Ends(t, TRUE) /\ UNCHANGED <<compute, faults>>
     /\ UNCHANGED <<db, pageservers, m, bounds>>

----------------------------------------------------------------------------
(* Service                                                                 *)

\* apply_observed_deltas
Upsert(old, new) ==
  IF new = Idle THEN old
  ELSE IF new # Absent /\ old.gen > 0 /\ new.gen > 0 /\ old.gen > new.gen THEN Unknown ELSE new

\* Slip: the handle of the reconciler that ended is kept when it has failed.
process_result_Slip ==
  LET r == Head(results)
      delta(n) == IF r.deltas[n] = Idle THEN Idle
                  ELSE IF ~IsActive(m, n) \/ (~r.ok /\ r.deltas[n] = Absent) THEN Unknown ELSE r.deltas[n]
      last == results = <<r>> /\ reconcilers = <<>> /\ r.ok
  IN /\ results # <<>>
     /\ m' = [m EXCEPT !.gen = Max({m.gen, r.gen}), !.pending = r.pending,
                       !.obs = [n \in Nodes |-> Upsert(m.obs[n], delta(n))],
                       !.handle = IF @ <= r.seq /\ r.ok THEN 0 ELSE @,
                       !.done = IF last THEN 0 ELSE Max({@, r.seq}),
                       !.seq = IF last THEN 0 ELSE @]
     /\ results' = Tail(results)
     /\ UNCHANGED <<db, pageservers, reconcilers, compute, faults, bounds>>

\* process_result: of a node that is not available, or where a failed reconcile detached, nothing is certain.
process_result ==
  LET r == Head(results)
      delta(n) == IF r.deltas[n] = Idle THEN Idle
                  ELSE IF ~IsActive(m, n) \/ (~r.ok /\ r.deltas[n] = Absent) THEN Unknown ELSE r.deltas[n]
      last == results = <<r>> /\ reconcilers = <<>>
  IN /\ results # <<>>
     /\ m' = [m EXCEPT !.gen = Max({m.gen, r.gen}), !.pending = r.pending,
                       !.obs = [n \in Nodes |-> Upsert(m.obs[n], delta(n))],
                       !.handle = IF @ <= r.seq THEN 0 ELSE @,
                       !.done = IF last THEN 0 ELSE Max({@, r.seq}),
                       !.seq = IF last THEN 0 ELSE @]
     /\ results' = Tail(results)
     /\ UNCHANGED <<db, pageservers, reconcilers, compute, faults, bounds>>

\* background_reconcile
Background ==
  /\ get_reconcile_needed(m)
  /\ MaybeReconcile(m, reconcilers)
  /\ UNCHANGED <<db, pageservers, results, compute, faults, bounds>>

\* tenant_shard_migrate_immediate
Migrate(n) ==
  /\ IsActive(m, n) /\ n # m.att
  /\ migrations < MaxMigrations /\ migrations' = migrations + 1
  /\ MaybeReconcile([m EXCEPT !.att = n, !.seq = @ + 1,
                              !.sec = IF SecondaryCount = 0 THEN @ \ {n} ELSE {m.att}], reconcilers)
  /\ UNCHANGED <<db, pageservers, results, compute, faults, offlines, crashes, restarts>>

\* TenantShard::schedule, with no attached node: a usable secondary is promoted, or a fresh node is taken.
ScheduleAttached(s) ==
  LET usable == {n \in Nodes : IsActive(s, n)}
      from == IF usable \cap s.sec # {} THEN usable \cap s.sec ELSE usable
  IN {[s EXCEPT !.att = n, !.sec = @ \ {n}] : n \in from}

\* Heartbeats fail: node_state_configure, then handle_node_availability_transition
NodeOffline(n) ==
  LET s == [m EXCEPT !.avail[n] = "offline", !.obs[n] = IF @ = Absent THEN @ ELSE Unknown]
      usable == {k \in Nodes : IsActive(s, k)}
  IN /\ m.avail[n] # "offline" /\ offlines < MaxOfflines /\ offlines' = offlines + 1
     /\ IF m.att # n \/ usable = {}
        THEN m' = s /\ reconcilers' = Fired(reconcilers, n)
        ELSE \E s2 \in ScheduleAttached([s EXCEPT !.sec = @ \cup {n}, !.seq = @ + 2]) :
               MaybeReconcile(s2, Fired(reconcilers, n))
     /\ UNCHANGED <<db, pageservers, results, compute, faults, migrations, crashes, restarts>>

\* Heartbeats succeed: node_activate_reconcile, node_state_configure, handle_node_availability_transition
NodeActive(n) ==
  LET seen == IF Reported(n) = Absent \/ Reported(n) = m.obs[n] THEN m.obs[n] ELSE Unknown
      s == [m EXCEPT !.avail[n] = "active", !.obs[n] = seen]
  IN /\ m.avail[n] # "active" /\ up[n]
     /\ IF m.handle = 0 /\ seen = Unknown THEN MaybeReconcile(s, reconcilers) ELSE m' = s /\ UNCHANGED reconcilers
     /\ UNCHANGED <<db, pageservers, results, compute, faults, bounds>>

\* A new controller: startup_reconcile, from the locations that `scanned` nodes report
Restart(scanned, online) ==
  LET obs == [n \in Nodes |-> IF n \in scanned THEN Reported(n) ELSE Absent]
      attached == {n \in Nodes : IsAttached(obs[n])}
      latest == {n \in attached : \A k \in attached : obs[k].gen <= obs[n].gen}
      others(a) == {n \in Nodes : obs[n] # Absent} \ {a}
      s(a) == [avail |-> [n \in Nodes |-> IF n \in online THEN "active" ELSE "offline"], att |-> a, sec |-> others(a),
               obs |-> obs, gen |-> db.gen, seq |-> 0, done |-> 0, handle |-> 0, pending |-> FALSE]
      secondary(t) == IF Cardinality(t.sec) >= SecondaryCount \/ online \subseteq {t.att} THEN {t}
                      ELSE {[t EXCEPT !.sec = {n}] : n \in online \ {t.att}}
      modified(t) == [t EXCEPT !.seq = IF attached = {} \/ t.sec # others(t.att) THEN 1 ELSE 0]
  IN /\ restarts < MaxRestarts /\ restarts' = restarts + 1
     /\ online # {} /\ scanned \cup online \subseteq {n \in Nodes : up[n]}
     /\ results' = <<>> /\ bgerr' = FALSE /\ hook' = NoNode /\ issued' = [n \in Nodes |-> -1]
     /\ \E s1 \in IF latest # {} THEN {s(a) : a \in latest} ELSE ScheduleAttached(s(NoNode)) :
        \E s2 \in secondary(s1) :
          /\ bg' = IF IsAttached(obs[s2.att]) THEN s2.att ELSE NoNode
          /\ LET s3 == modified(s2) IN
             IF get_reconcile_needed(s3)
             THEN /\ reconcilers' = <<[NewTask(s3) EXCEPT !.entered = TRUE]>>
                  /\ m' = [s3 EXCEPT !.seq = ensure_sequence_ahead(s3), !.handle = ensure_sequence_ahead(s3)]
             ELSE reconcilers' = <<>> /\ m' = s3
     /\ UNCHANGED <<db, loc, slot, wire, late, up, answer, told, faults, migrations, offlines, crashes>>

\* notify_attach_background
BackgroundNotify ==
  /\ bg # NoNode /\ bg' = NoNode
  /\ \/ told' = bg /\ hook' = bg /\ NoFault /\ UNCHANGED bgerr
     \/ told' \in {told, bg} /\ hook' = NoNode /\ Fault /\ bgerr' = TRUE
  /\ UNCHANGED <<db, pageservers, m, reconcilers, results, bounds>>

\* process_results, of a background notification
BackgroundNotifyFailed ==
  /\ bgerr /\ bgerr' = FALSE /\ m' = [m EXCEPT !.pending = TRUE]
  /\ UNCHANGED <<db, pageservers, reconcilers, results, hook, told, bg, faults, bounds>>

TaskStep ==
  \/ EnterFirst \/ Start \/ MigrateStale \/ MigrateGeneration \/ MigrateMulti \/ MigrateAwaitLsn \/ MigrateNotify
  \/ MigrateDemote \/ MigrateSingle \/ Increment \/ Attach \/ Notify \/ Change \/ Finish

EnterNext == \E i \in 2..Len(reconcilers) : Enter(i)

Next ==
  \/ TaskStep \/ process_result \/ Background \/ BackgroundNotify \/ BackgroundNotifyFailed
  \/ EnterNext
  \/ \E n \in Nodes : \/ Migrate(n) \/ NodeOffline(n) \/ NodeActive(n)
                      \/ Crash(n) \/ ReAttachDb(n) \/ ReAttach(n) \/ ReAttachLost(n) \/ InitTenantMgr(n) \/ SlotDone(n)
  \/ \E r \in wire : LateRequest(r)
  \/ \E scanned, online \in SUBSET Nodes : Restart(scanned, online)

Spec == Init /\ [][Next]_vars

Fairness ==
  /\ WF_vars(TaskStep) /\ WF_vars(EnterNext)
  /\ WF_vars(process_result) /\ WF_vars(Background) /\ WF_vars(BackgroundNotify) /\ WF_vars(BackgroundNotifyFailed)
  /\ \A n \in Nodes : /\ WF_vars(NodeActive(n)) /\ WF_vars(SlotDone(n))
                      /\ WF_vars(ReAttachDb(n)) /\ WF_vars(ReAttach(n)) /\ WF_vars(InitTenantMgr(n))
FairSpec == Spec /\ Fairness

----------------------------------------------------------------------------

(* Properties                                                              *)

\* The generations in memory are ones that the database has issued (the ordering comment in re_attach), and
\* exactly the attached locations carry one.
TypeOK ==
  /\ db.gen \in 1..MaxGen /\ db.node \in Nodes /\ m.gen \in 1..db.gen
  /\ \A n \in Nodes : loc[n].mode # "Unknown" /\ (IsAttached(loc[n]) <=> loc[n].gen > 0)

\* Nothing runs, nothing is to be done, every node is up and known to be.
Quiet ==
  /\ reconcilers = <<>> /\ results = <<>> /\ bg = NoNode /\ ~bgerr /\ ~get_reconcile_needed(m)
  /\ \A n \in Nodes : up[n] /\ slot[n] = Idle /\ IsActive(m, n)

\* A location in mode AttachedStale does not upload or delete.
Writes(n) == loc[n].mode \in {"AttachedSingle", "AttachedMulti"}

\* Two pageservers never write objects of one generation, whatever calls fail, arrive late or are made again: the
\* suffix of remote objects depends on it.
OneWriterPerGeneration ==
  \A n, k \in Nodes : n # k /\ Writes(n) /\ Writes(k) => loc[n].gen # loc[k].gen

\* Only the pageserver named in the row writes with the row's generation: a re_attach, which goes by the row,
\* never leaves a writer of the latest generation out.
LatestWriterIsTheRow ==
  \A n \in Nodes : Writes(n) /\ loc[n].gen = db.gen => n = db.node

\* Once the controller sees nothing more to do, the compute uses the intended pageserver and the shard is
\* attached there for writing (get_reconcile_needed, pending_compute_notification): unless a request was carried
\* out after its caller had given it up, or calls have failed, a pageserver has re-attached and a node went offline
\* or the controller restarted, all three; what was observed may then be wrong for good.
QuietIsRight ==
  ~late /\ (faults = 0 \/ crashes = 0 \/ (offlines = 0 /\ restarts = 0)) /\ Quiet => told = m.att /\ Writes(m.att)

\* As long as no node was taken for offline, no pageserver has restarted and no request came late, migrations,
\* cancelled and failed ones too, and restarts of the controller never demote the pageserver the compute uses
\* (live_migrate).
ToldIsAttached == ~late /\ offlines = 0 /\ crashes = 0 => IsAttached(loc[told])

\* When faults, migrations and restarts have stopped the shard ends up attached as intended, with the compute
\* told, unless a request has come late or the generations of the model are used up.
Settles ==
  \/ <>[](Quiet /\ told = m.att /\ loc[m.att] = attached_location_conf(m.gen, m.sec))
  \/ <>late \/ <>(db.gen = MaxGen)
=============================================================================
