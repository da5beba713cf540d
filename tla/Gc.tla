--------------------------------- MODULE Gc ---------------------------------
(***************************************************************************)
(* Garbage collection of one timeline of a pageserver, against what needs  *)
(* its history: page requests, child branches and LSN leases.  An          *)
(* iteration plans its cutoffs under the tenant's gc_cs lock, then works   *)
(* without it on a copy of the branch points and leases; the cutoff it     *)
(* applies is an RCU cell (simple_rcu.rs), and it waits for those who hold *)
(* an older one before it looks for layers to remove.                      *)
(*                                                                         *)
(* A layer is an image of one key range at an LSN, or a delta with all     *)
(* records of an LSN range.  Every LSN has a record for every key, and     *)
(* what is above disk is in memory.                                        *)
(***************************************************************************)
EXTENDS Integers, FiniteSets, FiniteSetsExt

CONSTANTS Keys, MaxLsn, Branches, Readers,
          MaxStandbyLag,      \* MAX_ALLOWED_STANDBY_LAG
          MaxRestarts,
          MaxStandby,         \* feedback from hot standbys
          MaxLeases, MaxBatch   \* leases at a time, and requests in a batch

\* What the constants must be.
BoundsAssumption ==
  /\ MaxLsn \in Nat /\ MaxStandbyLag \in Nat /\ MaxRestarts \in Nat /\ MaxStandby \in Nat
  /\ MaxLeases \in Nat /\ MaxBatch \in Nat

VARIABLES lastRecord,  \* last_record_lsn
          diskLsn,     \* disk_consistent_lsn
          images,      \* image layers, <<key, lsn>>
          deltas,      \* delta layers, <<start, end>>, end excluded
          applied,     \* applied_gc_cutoff_lsn
          planned,     \* GcInfo.cutoffs: [space, time], 0 for a time not computed
          leases,      \* GcInfo.leases
          expired,     \* those of them that have run out
          hasty,       \* those of them granted below the planned cutoffs in an iteration
          grace,       \* before lsn_lease_deadline
          gcCs,        \* who holds gc_cs: "" or a branch
          child,       \* child[b]: [pc, lsn, guard, old]: old if only a hasty lease let it through
          reader,      \* reader[r]: the batch of requests it serves, [lsns, hold, guard, old]: hold is
                       \* HoldAppliedGcCutoffGuard, old the LSNs nothing protects
          gc,          \* the iteration
          standby,     \* standby_horizon, 0 for INVALID
          indexPart,   \* index_part.json in remote storage: [images, deltas, disk, cutoff]
          restarts, reports

data == <<lastRecord, diskLsn, images, deltas>>
info == <<planned, leases, expired, hasty>>
bounds == <<restarts, reports>>
vars == <<data, applied, info, grace, gcCs, child, reader, gc, standby, indexPart, bounds>>

Lsns == 1..MaxLsn

None == 0
NoChild == [pc |-> "none", lsn |-> None, guard |-> None, old |-> FALSE]
NoReader == [lsns |-> {}, hold |-> FALSE, guard |-> None, old |-> {}]
Idle == [pc |-> "idle", space |-> 0, time |-> 0, retain |-> None, lease |-> None, new |-> 0,
         images |-> {}, deltas |-> {}]

MaxOf(S) == Max(S \cup {None})
MinCutoff(c) == Min({c.space, c.time})

TypeOK ==
  /\ lastRecord \in Lsns /\ diskLsn \in Lsns /\ diskLsn <= lastRecord
  /\ images \subseteq Keys \X Lsns /\ deltas \subseteq Lsns \X (1..MaxLsn + 1)
  /\ applied \in Lsns /\ planned \in [space : 0..MaxLsn, time : 0..MaxLsn]
  /\ expired \subseteq leases /\ hasty \subseteq leases /\ leases \subseteq Lsns
  /\ grace \in BOOLEAN /\ gcCs \in Branches \cup {""}
  /\ child \in [Branches -> [pc : {"none", "checked", "inserted", "created"}, lsn : 0..MaxLsn, guard : 0..MaxLsn,
                         old : BOOLEAN]]
  /\ \A r \in Readers : reader[r].lsns \subseteq Lsns /\ reader[r].guard \in 0..MaxLsn
  /\ gc.pc \in {"idle", "found", "refreshed", "snapshot", "waiting", "scan", "persist", "remove"}
  /\ standby \in 0..MaxLsn

Index == [images |-> images, deltas |-> deltas, disk |-> diskLsn, cutoff |-> applied]

Init ==
  /\ lastRecord = 1 /\ diskLsn = 1 /\ images = Keys \X {1} /\ deltas = {}
  /\ applied = 1 /\ planned = [space |-> 0, time |-> 0]
  /\ leases = {} /\ expired = {} /\ hasty = {} /\ grace = TRUE /\ gcCs = ""
  /\ child = [b \in Branches |-> NoChild] /\ reader = [r \in Readers |-> NoReader]
  /\ gc = Idle /\ standby = None
  /\ indexPart = Index
  /\ restarts = 0 /\ reports = 0

\* A read of k at l: an image to start from and every record after it.
Readable(k, l, imgs, dels, inMemory) ==
  \E i \in 1..l : /\ <<k, i>> \in imgs
                  /\ \A x \in (i + 1)..l : x > inMemory \/ \E d \in dels : d[1] <= x /\ x < d[2]

Served(l) == \A k \in Keys : Readable(k, l, images, deltas, diskLsn)

----------------------------------------------------------------------------
(* Ingestion, flush and image creation; their index uploads are complete.  *)

Ingest ==
  /\ lastRecord < MaxLsn /\ lastRecord' = lastRecord + 1
  /\ UNCHANGED <<diskLsn, images, deltas, applied, info, grace, gcCs, child, reader, gc, standby,
                 indexPart, bounds>>

\* The cutoff of the RCU cell goes into every index that is uploaded.
Flush ==
  /\ diskLsn < lastRecord /\ diskLsn' = lastRecord
  /\ deltas' = deltas \cup {<<diskLsn + 1, lastRecord + 1>>}
  /\ indexPart' = [indexPart EXCEPT !.deltas = @ \cup {<<diskLsn + 1, lastRecord + 1>>}, !.disk = lastRecord, !.cutoff = applied]
  /\ UNCHANGED <<lastRecord, images, applied, info, grace, gcCs, child, reader, gc, standby,
                 bounds>>

CreateImage(k) ==
  /\ <<k, diskLsn>> \notin images
  /\ images' = images \cup {<<k, diskLsn>>}
  /\ indexPart' = [indexPart EXCEPT !.images = @ \cup {<<k, diskLsn>>}]
  /\ UNCHANGED <<lastRecord, diskLsn, deltas, applied, info, grace, gcCs, child, reader, gc,
                 standby, bounds>>

----------------------------------------------------------------------------
(* Page requests                                                           *)

\* effective_request_lsn: below the cutoff an LSN with a lease, and before lsn_lease_deadline
\* any LSN.
InScope(l) == l <= lastRecord /\ (l >= applied \/ grace \/ l \in leases)

\* A request that joins a batch: the older guard is kept.
JoinedGuard(r) ==
  IF reader[r].lsns = {} THEN applied ELSE Min({reader[r].guard, applied})

\* A request is read from the network, checked, and waits to be executed.  Whether the guard is
\* kept until then is a feature flag, asked for every connection, and off unless it is set.
Request(r, l) ==
  /\ InScope(l) /\ l \notin reader[r].lsns /\ Cardinality(reader[r].lsns) < MaxBatch
  /\ \E hold \in IF reader[r].lsns = {} THEN BOOLEAN ELSE {reader[r].hold} :
       reader' = [reader EXCEPT ![r] =
         [lsns |-> @.lsns \cup {l}, hold |-> hold, guard |-> IF hold THEN JoinedGuard(r) ELSE None,
          old |-> IF l >= applied \/ l \in leases \ hasty THEN @.old ELSE @.old \cup {l}]]
  /\ UNCHANGED <<data, applied, info, grace, gcCs, child, gc, standby, indexPart, bounds>>

\* The batch is executed: its layers are found, and the guard is dropped with it.
Execute(r) ==
  /\ reader[r].lsns # {}
  /\ reader' = [reader EXCEPT ![r] = NoReader]
  /\ UNCHANGED <<data, applied, info, grace, gcCs, child, gc, standby, indexPart, bounds>>

----------------------------------------------------------------------------
(* Leases                                                                  *)

\* make_lsn_lease, for a lease that exists or may be created
LeaseAllowed(l, init) ==
  \/ l \in leases
  \/ l >= applied /\ (~(init \/ ~grace) \/ l >= MinCutoff(planned))

MakeLsnLease(l, init) ==
  /\ l <= lastRecord /\ LeaseAllowed(l, init)
  /\ leases' = leases \cup {l} /\ expired' = expired \ {l}
  /\ hasty' = IF l \notin leases /\ gc.pc # "idle" /\ l < MinCutoff(planned) THEN hasty \cup {l} ELSE hasty
  /\ Cardinality(leases') <= MaxLeases
  /\ UNCHANGED <<data, applied, planned, grace, gcCs, child, reader, gc, standby, indexPart,
                 bounds>>

Expire(l) ==
  /\ l \in leases \ expired
  /\ expired' = expired \cup {l}
  /\ UNCHANGED <<data, applied, planned, leases, hasty, grace, gcCs, child, reader, gc, standby,
                 indexPart, bounds>>

DeadlinePasses ==
  /\ grace /\ grace' = FALSE
  /\ UNCHANGED <<data, applied, info, gcCs, child, reader, gc, standby, indexPart, bounds>>

\* set_new_location_config: the deadline is set anew, also in the middle of an iteration.
Reconfigure ==
  /\ ~grace
  /\ grace' = TRUE
  /\ UNCHANGED <<data, applied, info, gcCs, child, reader, gc, standby, indexPart, bounds>>

----------------------------------------------------------------------------
(* Branches                                                                *)

BranchAllowed(l, given) == l \in given \/ (l >= applied /\ l >= MinCutoff(planned))

\* branch_timeline_impl takes gc_cs, reads the cutoff and keeps its guard, and checks the LSN.
BranchCheck(b, l) ==
  /\ child[b].pc = "none" /\ gcCs = ""
  /\ l <= lastRecord /\ BranchAllowed(l, leases)
  /\ gcCs' = b
  /\ child' = [child EXCEPT ![b] = [pc |-> "checked", lsn |-> l, guard |-> applied,
                                        old |-> ~BranchAllowed(l, leases \ hasty)]]
  /\ UNCHANGED <<data, applied, info, grace, reader, gc, standby, indexPart, bounds>>

\* Timeline::new inserts the child into the parent's retain_lsns; gc_cs is released.
BranchInsert(b) ==
  /\ child[b].pc = "checked"
  /\ child' = [child EXCEPT ![b].pc = "inserted", ![b].guard = None]
  /\ gcCs' = ""
  /\ UNCHANGED <<data, applied, info, grace, reader, gc, standby, indexPart, bounds>>

\* The metadata of the branch is in remote storage, and its creation is acknowledged.
BranchUploaded(b) ==
  /\ child[b].pc = "inserted"
  /\ child' = [child EXCEPT ![b].pc = "created"]
  /\ UNCHANGED <<data, applied, info, grace, gcCs, reader, gc, standby, indexPart, bounds>>

\* remove_child_not_offloaded
BranchDeleted(b) ==
  /\ child[b].pc = "created"
  /\ child' = [child EXCEPT ![b] = NoChild]
  /\ UNCHANGED <<data, applied, info, grace, gcCs, reader, gc, standby, indexPart, bounds>>

RetainLsns == {child[b].lsn : b \in {c \in Branches : child[c].pc \in {"inserted", "created"}}}

----------------------------------------------------------------------------
(* The iteration                                                           *)

Step(pc) == gc' = [gc EXCEPT !.pc = pc]

StandbyFeedback(l) ==
  /\ reports < MaxStandby /\ l <= lastRecord
  /\ standby' = l /\ reports' = reports + 1
  /\ UNCHANGED <<data, applied, info, grace, gcCs, child, reader, gc, indexPart, restarts>>

\* find_gc_cutoffs: the LSN of the PITR interval if it is found, or else what the horizon
\* allows and the applied cutoff, or without a PITR interval the last record.
FindGcCutoffs ==
  /\ gc.pc = "idle" /\ ~grace
  /\ \E s \in 0..lastRecord : \E t \in {s, applied, lastRecord} :
       gc' = [Idle EXCEPT !.pc = "found", !.space = s, !.time = t]
  /\ UNCHANGED <<data, applied, info, grace, gcCs, child, reader, standby, indexPart, bounds>>

\* refresh_gc_info_internal, with gc_cs
RefreshGcInfo ==
  /\ gc.pc = "found" /\ gcCs = ""
  /\ leases' = leases \ expired /\ expired' = {} /\ hasty' = hasty \ expired
  /\ planned' = [space |-> Max({planned.space, gc.space}), time |-> Max({planned.time, gc.time})]
  /\ Step("refreshed")
  /\ UNCHANGED <<data, applied, grace, gcCs, child, reader, standby, indexPart, bounds>>

\* Slip: the leases are forgotten.
Snapshot_Slip ==
  /\ gc.pc = "refreshed"
  /\ gc' = [gc EXCEPT !.pc = "snapshot", !.space = Min({planned.space, diskLsn}), !.time = planned.time,
                      !.retain = MaxOf(RetainLsns)]
  /\ UNCHANGED <<data, applied, info, grace, gcCs, child, reader, standby, indexPart, bounds>>

\* gc: the copy of GcInfo it works on.
Snapshot ==
  /\ gc.pc = "refreshed"
  /\ gc' = [gc EXCEPT !.pc = "snapshot", !.space = Min({planned.space, diskLsn}), !.time = planned.time,
                      !.retain = MaxOf(RetainLsns), !.lease = MaxOf(leases)]
  /\ UNCHANGED <<data, applied, info, grace, gcCs, child, reader, standby, indexPart, bounds>>

\* gc: the standby horizon, which counts once; gc_timeline: the new cutoff is stored.
StoreCutoff ==
  LET cutoff == MinCutoff(gc)
      new == IF standby # None /\ standby <= cutoff /\ cutoff - standby < MaxStandbyLag
               THEN standby ELSE cutoff
  IN /\ gc.pc = "snapshot"
     /\ standby' = None
     /\ IF applied >= new \/ gc.time = None
          THEN gc' = Idle /\ UNCHANGED applied
          ELSE gc' = [gc EXCEPT !.pc = "waiting", !.new = new] /\ applied' = new
     /\ UNCHANGED <<data, info, grace, gcCs, child, reader, indexPart, bounds>>

\* RcuWaitList::wait: nobody holds an older cell.
GuardsDropped ==
  /\ \A r \in Readers : reader[r].guard \in {None, applied}
  /\ \A b \in Branches : child[b].guard \in {None, applied}

Wait ==
  /\ gc.pc = "waiting" /\ GuardsDropped
  /\ Step("scan")
  /\ UNCHANGED <<data, applied, info, grace, gcCs, child, reader, standby, indexPart, bounds>>

\* Rule 5, image_layer_exists: image layers that make one that ends at end superfluous.
ImageLayerExists(keys, end) == \A k \in keys : \E i \in end..(gc.new - 1) : <<k, i>> \in images

\* gc_timeline: the five rules
Removable(keys, start, end) ==
  /\ end <= gc.space
  /\ end <= gc.time
  /\ start > gc.retain
  /\ start > gc.lease
  /\ ImageLayerExists(keys, end)

Scan ==
  /\ gc.pc = "scan"
  /\ LET imgs == {i \in images : Removable({i[1]}, i[2], i[2] + 1)}
         dels == {d \in deltas : Removable(Keys, d[1], d[2])}
     IN gc' = IF imgs = {} /\ dels = {} THEN Idle
              ELSE [gc EXCEPT !.pc = "persist", !.images = imgs, !.deltas = dels]
  /\ UNCHANGED <<data, applied, info, grace, gcCs, child, reader, standby, indexPart, bounds>>

\* schedule_uploads: the index with the new cutoff
PersistCutoff ==
  /\ gc.pc = "persist" /\ Step("remove")
  /\ indexPart' = [indexPart EXCEPT !.cutoff = applied]
  /\ UNCHANGED <<data, applied, info, grace, gcCs, child, reader, standby, bounds>>

\* schedule_gc_update, finish_gc_timeline
Remove ==
  /\ gc.pc = "remove"
  /\ images' = images \ gc.images /\ deltas' = deltas \ gc.deltas
  /\ indexPart' = [indexPart EXCEPT !.images = @ \ gc.images, !.deltas = @ \ gc.deltas]
  /\ gc' = Idle
  /\ UNCHANGED <<lastRecord, diskLsn, applied, info, grace, gcCs, child, reader, standby, bounds>>

----------------------------------------------------------------------------

\* The pageserver stops and attaches the tenant again from its index.
Restart ==
  /\ restarts < MaxRestarts /\ restarts' = restarts + 1
  /\ lastRecord' = indexPart.disk /\ diskLsn' = indexPart.disk
  /\ images' = indexPart.images /\ deltas' = indexPart.deltas /\ applied' = indexPart.cutoff
  /\ planned' = [space |-> 0, time |-> 0] /\ leases' = {} /\ expired' = {} /\ hasty' = {}
  /\ grace' = TRUE /\ gcCs' = "" /\ standby' = None /\ gc' = Idle
  /\ reader' = [r \in Readers |-> NoReader]
  /\ child' = [b \in Branches |-> IF child[b].pc = "created" THEN child[b] ELSE NoChild]
  /\ UNCHANGED <<indexPart, reports>>

GcStep == FindGcCutoffs \/ RefreshGcInfo \/ Snapshot \/ StoreCutoff \/ Wait \/ Scan \/ PersistCutoff \/ Remove

Next ==
  \/ Ingest \/ Flush \/ \E k \in Keys : CreateImage(k)
  \/ \E r \in Readers : Execute(r) \/ \E l \in Lsns : Request(r, l)
  \/ \E l \in Lsns : \/ \E init \in BOOLEAN : MakeLsnLease(l, init)
                     \/ Expire(l) \/ StandbyFeedback(l)
  \/ \E b \in Branches : \/ \E l \in Lsns : BranchCheck(b, l)
                         \/ BranchInsert(b) \/ BranchUploaded(b) \/ BranchDeleted(b)
  \/ DeadlinePasses \/ Reconfigure \/ Restart
  \/ GcStep

\* Batches are executed, branch creations go on, and so does an iteration.
Fairness ==
  /\ \A r \in Readers : WF_vars(Execute(r))
  /\ \A b \in Branches : WF_vars(BranchInsert(b))
  /\ SF_vars(RefreshGcInfo)
  /\ WF_vars(Snapshot \/ StoreCutoff \/ Wait \/ Scan \/ PersistCutoff \/ Remove)

Spec == Init /\ [][Next]_vars /\ Fairness

----------------------------------------------------------------------------
(* Properties                                                              *)

\* A request finds its layers when it is executed if its LSN is not below the cutoff by then; and
\* whatever GC and leases did while it waited if the guard is kept, unless it was let through below
\* the cutoff by lsn_lease_deadline alone or by a lease granted in the middle of an iteration.
RequestsServed ==
  \A r \in Readers : \A l \in reader[r].lsns :
    l >= applied \/ (reader[r].hold /\ l \notin reader[r].old) => Served(l)

\* A branch can read its parent at the branch point, from the moment its LSN was checked, unless
\* it was let through by a lease granted in the middle of an iteration alone.
BranchesServed ==
  \A b \in Branches : child[b].pc # "none" /\ ~child[b].old /\ child[b].lsn <= lastRecord
                      => Served(child[b].lsn)

\* An LSN with a lease that has not run out can be read, unless the lease was granted below the
\* planned cutoffs in the middle of an iteration: the deadline was set anew, so the cutoffs were
\* not looked at, and the iteration works on its copy of the leases.
LeasesServed == \A l \in leases \ (expired \cup hasty) : l <= lastRecord => Served(l)

\* After a restart at any moment everything from the cutoff on can be read.
IndexServed ==
  \A k \in Keys : \A l \in indexPart.cutoff..indexPart.disk :
    Readable(k, l, indexPart.images, indexPart.deltas, indexPart.disk)

============================================================================
