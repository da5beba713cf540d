--------------------------- MODULE DeletionQueue ---------------------------
(***************************************************************************)
(* How pageservers delete layers of one tenant shard from remote storage.  *)
(* The storage controller numbers attachments by generations; pageservers  *)
(* that are cut off keep running in old ones.  Layers and index files are  *)
(* named by the generation that wrote them, so nothing is overwritten by   *)
(* another node, but a deletion is only safe while the generation that     *)
(* decided it is the latest.  The deletion queue makes sure of that:       *)
(*   ListWriter  collects layers into lists and stores them on local disk, *)
(*   Validator   asks the controller, trims stale lists, stores a header,  *)
(*   Deleter     executes what was validated.                              *)
(* remote_consistent_lsn, which lets safekeepers delete WAL, goes through  *)
(* the validator too.                                                      *)
(*                                                                         *)
(* A layer is a number, unique as its name and generation are; an index    *)
(* with n layers written so far has disk_consistent_lsn n.                 *)
(***************************************************************************)
EXTENDS Integers, Sequences, FiniteSets, SequencesExt, FiniteSetsExt

CONSTANTS Nodes, FirstNode,
          MaxGen,        \* generations the controller issues
          MaxLayers,     \* layers ever written
          ProcessLsnUpdates,  \* process_remote_consistent_lsn_updates: attached as single
          MaxErrors      \* local saves that fail with an error that is not fatal

\* What the constants must be.
QueueAssumption ==
  FirstNode \in Nodes /\ MaxGen \in Nat \ {0} /\ MaxLayers \in Nat \ {0}

VARIABLES ctl,       \* controller: [gen, node] in its database, mem: generation in memory
          grants,    \* location_config requests and re-attach responses, late ones too
          objects,   \* layers in remote storage
          indexes,   \* indexes[g]: the index file of generation g
          tenant,    \* tenant[n]: the attached shard of node n
          local,     \* local[n]: deletion lists and header
          queue,     \* queue[n]: ListWriter and Validator in memory
          produced,  \* layers written so far
          errors

vars == <<ctl, grants, objects, indexes, tenant, local, queue, produced, errors>>

Gens == 1..MaxGen
Layers == 1..MaxLayers

NoIndex == [layers |-> {}, lsn |-> 0]
Detached == [gen |-> 0, layers |-> {}, lsn |-> 0, op |-> "none", unlinked |-> {},
             visible |-> 0]

List(seq, gen, objs) == [seq |-> seq, gen |-> gen, objs |-> objs]
NoLsn == [gen |-> 0, lsn |-> 0]

\* Validator between two flushes.
Resting == [step |-> "idle", gen |-> 0, valid |-> FALSE, update |-> NoLsn, lists |-> <<>>]

EmptyQueue(seq) ==
  [pending |-> List(seq, 0, {}),     \* ListWriter.pending
   sent |-> <<>>,                    \* the channel to the validator
   validated |-> <<>>,               \* Validator.validated_lists
   lsns |-> NoLsn,                   \* lsn_table
   writeFailed |-> FALSE,            \* list_write_failed
   flush |-> Resting]

Init ==
  /\ ctl = [gen |-> 1, node |-> FirstNode, mem |-> 1]
  /\ grants = {}
  /\ objects = {1} /\ produced = 1
  /\ indexes = [g \in Gens |-> IF g = 1 THEN [layers |-> {1}, lsn |-> 1] ELSE NoIndex]
  /\ tenant = [n \in Nodes |->
       IF n = FirstNode
       THEN [Detached EXCEPT !.gen = 1, !.layers = {1}, !.lsn = 1]
       ELSE Detached]
  /\ local = [n \in Nodes |-> [lists |-> {}, header |-> 0]]
  /\ queue = [n \in Nodes |-> EmptyQueue(1)]
  /\ errors = MaxErrors

-----------------------------------------------------------------------------
(* Storage controller *)

\* Persistence::increment_generation: the shard is to move to node n.
IncrementGeneration(n) ==
  /\ ctl.gen < MaxGen
  /\ ctl' = [ctl EXCEPT !.gen = @ + 1, !.node = n]
  /\ grants' = grants \cup {<<n, ctl.gen + 1>>}
  /\ UNCHANGED <<objects, indexes, tenant, local, queue, produced, errors>>

\* The new generation reaches the memory of the controller process that answers
\* validate requests; it need not be the process that issued it.
ApplyGeneration ==
  /\ ctl.mem < ctl.gen
  /\ ctl' = [ctl EXCEPT !.mem = ctl.gen]
  /\ UNCHANGED <<grants, objects, indexes, tenant, local, queue, produced, errors>>

\* Slip: only the controller's memory is asked.
ValidGeneration_MemoryOnly(g) == g = ctl.mem

\* Service::validate: memory and database agree with the request.
ValidGeneration(g) == g = ctl.mem /\ g = ctl.gen

-----------------------------------------------------------------------------
(* Attachments *)

\* download_generation_object: the latest index that is not newer than g.
IndexFor(g) == Max({h \in Gens : h <= g /\ indexes[h] # NoIndex})

Loaded(g) ==
  [Detached EXCEPT !.gen = g, !.layers = indexes[IndexFor(g)].layers,
                   !.lsn = indexes[IndexFor(g)].lsn]

\* upsert_location: generations never go backward while the shard is attached.
Attach(n, g) ==
  /\ <<n, g>> \in grants /\ g > tenant[n].gen
  /\ tenant' = [tenant EXCEPT ![n] = Loaded(g)]
  /\ UNCHANGED <<ctl, grants, objects, indexes, local, queue, produced, errors>>

Detach(n) ==
  /\ tenant[n].gen # 0
  /\ tenant' = [tenant EXCEPT ![n] = Detached]
  /\ UNCHANGED <<ctl, grants, objects, indexes, local, queue, produced, errors>>

\* recover: a list of the generation before that of this attachment counts as its own,
\* since no other node can have had one in between.
Regenerated(list, g) == [list EXCEPT !.gen = IF g # 0 /\ g - 1 = @ THEN g ELSE @]

NextSequence(d) == Max({d.header} \cup {l.seq : l \in d.lists}) + 1

\* The lists of a set by their sequence numbers, which differ.
InOrder(lists) ==
  [i \in 1..Cardinality(lists) |->
     CHOOSE l \in lists : Cardinality({x \in lists : x.seq <= l.seq}) = i]

\* ListWriter::recover, with the validator receiving what it sends.
Recovered(d, g) ==
  LET old == InOrder({l \in d.lists : l.seq <= d.header})
      new == InOrder({l \in d.lists : l.seq > d.header})
  IN  [EmptyQueue(NextSequence(d)) EXCEPT
         !.validated = old,
         !.sent = [i \in DOMAIN new |-> Regenerated(new[i], g)]]

(***************************************************************************)
(* The process of node n is killed and starts again.  re_attach issues a   *)
(* new generation when the shard belongs to this node.                     *)
(***************************************************************************)
Restart(n) ==
  LET mine == ctl.node = n
      g == IF mine THEN ctl.gen + 1 ELSE 0
  IN  /\ mine => ctl.gen < MaxGen
      /\ ctl' = IF mine THEN [ctl EXCEPT !.gen = g] ELSE ctl
      /\ tenant' = [tenant EXCEPT ![n] = IF mine THEN Loaded(g) ELSE Detached]
      /\ queue' = [queue EXCEPT ![n] = Recovered(local[n], g)]
      /\ UNCHANGED <<grants, objects, indexes, local, produced, errors>>

-----------------------------------------------------------------------------
(* The shard's own work; its upload queue runs these in order. *)

\* A new layer is uploaded and replaces the layers D.  Compaction reads its inputs.
Compact(n, D) ==
  /\ tenant[n].gen # 0 /\ tenant[n].op = "none" /\ D \subseteq tenant[n].layers
  /\ produced < MaxLayers /\ tenant[n].layers \subseteq objects
  /\ produced' = produced + 1
  /\ objects' = objects \cup {produced + 1}
  /\ tenant' = [tenant EXCEPT ![n].layers = (@ \ D) \cup {produced + 1}, ![n].lsn = produced + 1,
                              ![n].op = "index", ![n].unlinked = D]
  /\ UNCHANGED <<ctl, grants, indexes, local, queue, errors>>

\* UploadMetadata, and update_remote_consistent_lsn: updates of other generations go.
UploadIndex(n) ==
  /\ tenant[n].op = "index"
  /\ indexes' = [indexes EXCEPT ![tenant[n].gen] =
                 [layers |-> tenant[n].layers, lsn |-> tenant[n].lsn]]
  /\ tenant' = [tenant EXCEPT ![n].op = IF tenant[n].unlinked = {} THEN "none" ELSE "delete"]
  /\ queue' = [queue EXCEPT ![n].lsns =
       IF ProcessLsnUpdates THEN [gen |-> tenant[n].gen, lsn |-> tenant[n].lsn] ELSE @]
  /\ UNCHANGED <<ctl, grants, objects, local, produced, errors>>

-----------------------------------------------------------------------------
(* ListWriter *)

\* ListWriter::flush: the list is stored and goes to the validator.
Flushed(q) ==
  IF q.pending.objs = {} THEN q
  ELSE [q EXCEPT !.pending = List(@.seq + 1, 0, {}), !.sent = Append(@, q.pending)]

Stored(d, list) == [d EXCEPT !.lists = {l \in @ : l.seq # list.seq} \cup {list}]

\* push_layers.  A list holds one generation of a shard: with another one the list is
\* flushed first, and if that fails the layers are leaked.
PushLayers(n) ==
  LET t == tenant[n]
      q == queue[n]
      other == q.pending.objs # {} /\ q.pending.gen # t.gen
      base == IF other THEN Flushed(q) ELSE q
  IN  /\ t.op = "delete"
      /\ tenant' = [tenant EXCEPT ![n].op = "none", ![n].unlinked = {}]
      /\ \/ /\ queue' = [queue EXCEPT ![n] =
                 [base EXCEPT !.pending = List(@.seq, t.gen, @.objs \cup t.unlinked)]]
            /\ local' = IF other THEN [local EXCEPT ![n] = Stored(@, q.pending)] ELSE local
            /\ UNCHANGED errors
         \/ /\ other /\ errors > 0
            /\ errors' = errors - 1
            /\ UNCHANGED <<queue, local>>
      /\ UNCHANGED <<ctl, grants, objects, indexes, produced>>

FlushLists(n) ==
  /\ queue[n].pending.objs # {}
  /\ local' = [local EXCEPT ![n] = Stored(@, queue[n].pending)]
  /\ queue' = [queue EXCEPT ![n] = Flushed(@)]
  /\ UNCHANGED <<ctl, grants, objects, indexes, tenant, produced, errors>>

-----------------------------------------------------------------------------
(* Validator *)

\* flush() with the first k lists received: take the LSN updates, send the latest
\* generation of the shard.  Lists stored from now on wait in the channel.
ValidateRequest(n, k) ==
  LET q == queue[n]
      lists == SubSeq(q.sent, 1, k)
      g == Max({q.lsns.gen, IF k = 0 THEN 0 ELSE Last(lists).gen})
  IN  /\ q.flush = Resting
      /\ g # 0
      /\ queue' = [queue EXCEPT ![n].lsns = NoLsn, ![n].sent = SubSeq(@, k + 1, Len(@)),
                     ![n].flush = [Resting EXCEPT !.step = "asked", !.gen = g,
                                                  !.update = q.lsns, !.lists = lists]]
      /\ UNCHANGED <<ctl, grants, objects, indexes, tenant, local, produced, errors>>

\* The controller answers; the answer may arrive much later.
ValidateResponse(n) ==
  /\ queue[n].flush.step = "asked"
  /\ queue' = [queue EXCEPT ![n].flush.step = "answered",
                            ![n].flush.valid = ValidGeneration(queue[n].flush.gen)]
  /\ UNCHANGED <<ctl, grants, objects, indexes, tenant, local, produced, errors>>

\* The slot of the LSN belongs to the attachment that sent the update.
PublishLsn(n) ==
  LET f == queue[n].flush
  IN  tenant' = [tenant EXCEPT ![n].visible =
        IF f.update # NoLsn /\ f.valid /\ f.update.gen = f.gen /\ tenant[n].gen = f.update.gen
        THEN f.update.lsn ELSE @]

Trimmed(f, list) ==
  IF f.valid /\ list.gen = f.gen THEN list ELSE [list EXCEPT !.objs = {}]

\* validate(): drop stale deletions.  A list that changes is stored again; when that
\* fails it is emptied in memory, and the header stays behind it for good.
ApplyValidation(n) ==
  LET q == queue[n]
      trimmed == [i \in DOMAIN q.flush.lists |-> Trimmed(q.flush, q.flush.lists[i])]
      stale == {i \in DOMAIN q.flush.lists : trimmed[i] # q.flush.lists[i]}
  IN  /\ q.flush.step = "answered"
      /\ PublishLsn(n)
      /\ \E failed \in SUBSET stale :
           /\ Cardinality(failed) <= errors
           /\ errors' = errors - Cardinality(failed)
           /\ local' = [local EXCEPT ![n].lists =
                {l \in @ : \A i \in stale \ failed : l.seq # trimmed[i].seq}
                  \cup {trimmed[i] : i \in stale \ failed}]
           /\ queue' = [queue EXCEPT
                ![n].flush.lists = trimmed,
                ![n].writeFailed = @ \/ failed # {},
                ![n].flush.step = IF q.flush.lists = <<>> THEN "validated" ELSE "header"]
      /\ UNCHANGED <<ctl, grants, objects, indexes, produced>>

HeaderWritten(q) == ~q.writeFailed

\* The header; saving it may fail, which nobody minds.
SaveHeader(n) ==
  LET q == queue[n]
      save == [local EXCEPT ![n].header = Last(q.flush.lists).seq]
  IN  /\ q.flush.step = "header"
      /\ \/ /\ HeaderWritten(q) /\ errors > 0
            /\ errors' = errors - 1 /\ UNCHANGED local
         \/ /\ local' = IF HeaderWritten(q) THEN save ELSE local
            /\ UNCHANGED errors
      /\ queue' = [queue EXCEPT ![n].flush.lists = <<>>, ![n].validated = @ \o q.flush.lists,
                                ![n].flush.step = "validated"]
      /\ UNCHANGED <<ctl, grants, objects, indexes, tenant, produced>>

\* With only validated lists (after a restart) nothing is asked.
NothingToValidate(n) ==
  LET q == queue[n]
  IN  /\ q.flush = Resting
      /\ q.sent = <<>> /\ q.lsns = NoLsn /\ q.validated # <<>>
      /\ queue' = [queue EXCEPT ![n].flush.step = "validated"]
      /\ UNCHANGED <<ctl, grants, objects, indexes, tenant, local, produced, errors>>

ToExecute(n) == UNION {l.objs : l \in Range(queue[n].validated)}

\* Deleter: one object after the other, in any order.
DeleteObject(n, o) ==
  /\ queue[n].flush.step = "validated"
  /\ o \in ToExecute(n) \cap objects
  /\ objects' = objects \ {o}
  /\ UNCHANGED <<ctl, grants, indexes, tenant, local, queue, produced, errors>>

\* Slip: lists are removed without waiting for the deleter.
Executed_NoWait(n) == queue[n].flush.step = "validated"

\* flush_executor returned.
Executed(n) == queue[n].flush.step = "validated" /\ ToExecute(n) \cap objects = {}

\* cleanup_lists, one file at a time.
CleanupList(n) ==
  LET q == queue[n]
  IN  /\ Executed(n)
      /\ IF q.validated = <<>>
         THEN /\ queue' = [queue EXCEPT ![n].flush = Resting]
              /\ UNCHANGED local
         ELSE /\ local' = [local EXCEPT ![n].lists = {l \in @ : l.seq # Head(q.validated).seq}]
              /\ queue' = [queue EXCEPT ![n].validated = Tail(@)]
      /\ UNCHANGED <<ctl, grants, objects, indexes, tenant, produced, errors>>

Worker(n) ==
  \/ FlushLists(n)
  \/ \E k \in 0..Len(queue[n].sent) : ValidateRequest(n, k)
  \/ ValidateResponse(n) \/ ApplyValidation(n) \/ SaveHeader(n)
  \/ NothingToValidate(n) \/ \E o \in Layers : DeleteObject(n, o)
  \/ CleanupList(n)

Next ==
  \/ ApplyGeneration
  \/ \E n \in Nodes :
       \/ IncrementGeneration(n) \/ Restart(n) \/ Detach(n)
       \/ \E g \in Gens : Attach(n, g)
       \/ \E D \in SUBSET Layers : Compact(n, D)
       \/ UploadIndex(n) \/ PushLayers(n)
       \/ Worker(n)

\* Workers are tasks of their own; S3 and the controller answer in the end.
Fairness == \A n \in Nodes : WF_vars(Worker(n))

Spec == Init /\ [][Next]_vars /\ Fairness

-----------------------------------------------------------------------------

Latest == indexes[IndexFor(MaxGen)]

\* What generation numbers are for: whatever nodes of older generations still do, the
\* index a new attachment would load, and the shard attached in the latest generation,
\* refer to layers that exist.
IndexedLayersExist ==
  /\ Latest.layers \subseteq objects
  /\ \A n \in Nodes : tenant[n].gen = ctl.gen => tenant[n].layers \subseteq objects

\* Safekeepers drop WAL below the advertised remote_consistent_lsn: a node never
\* advertises more than the index a new attachment loads has.
VisibleLsnIsLoadable == \A n \in Nodes : tenant[n].visible <= Latest.lsn

\* Lists at or below the header are executed after a restart without being asked for
\* again: they never name a layer that an index of the latest generation refers to.
HeaderCoversValidLists ==
  \A n \in Nodes : \A l \in local[n].lists :
    l.seq <= local[n].header => l.objs \cap Latest.layers = {}

\* The list being filled has a number that no list on disk has and that the header does
\* not cover: storing it neither overwrites a list nor makes it pass as validated.
SequenceIsFresh ==
  \A n \in Nodes : /\ local[n].header < queue[n].pending.seq
                   /\ \A l \in local[n].lists : l.seq < queue[n].pending.seq

\* A stored list is the only trace of its deletions: its file goes only when the objects
\* are gone, crashes of the process included, or when they were dropped as stale but
\* the list could not be rewritten.
ListsGoWhenExecuted ==
  \A n \in Nodes : \A l \in local[n].lists :
    (\A m \in local'[n].lists : m.seq # l.seq) =>
      l.objs \cap objects = {} \/ queue[n].writeFailed

=============================================================================
