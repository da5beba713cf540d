----------------------------- MODULE LayerFlush -----------------------------
(***************************************************************************)
(* The write path of one timeline of a pageserver (timeline.rs): WAL is    *)
(* committed into an open in-memory layer, which is rolled by the writer,  *)
(* frozen in the background when it gets old, or frozen on request; the    *)
(* flush loop writes the frozen layers to disk one by one and moves        *)
(* disk_consistent_lsn, from which the timeline starts after a crash.      *)
(*                                                                         *)
(* LSNs of records are even (aligned), the ends of layers are odd.  What   *)
(* time and size decide (should_roll) is left open.                        *)
(***************************************************************************)
EXTENDS Integers, Sequences, SequencesExt, FiniteSets, FiniteSetsExt

CONSTANTS MaxRecords,           \* records of the WAL
          Sharded,              \* shard_identity.count > 1
          Empties,              \* how many records may have no data for this shard
          Deletions,            \* records may delete key ranges
          MaxBatch,             \* ingest_batch_size
          MaxPending,           \* bound on requests not yet answered, met after a shutdown only
          MaxErrors,            \* bound on errors of flushes
          MaxRestarts,
          CompactionThreshold, StallThreshold,  \* numbers of L0 layers, 0: no stalls
          CompactionBreaks,     \* compaction may start to fail, for good
          Shutdowns             \* the timeline may be shut down

\* What the constants must be.
BoundsAssumption ==
  /\ {MaxRecords, MaxPending, MaxErrors, MaxRestarts, Empties, StallThreshold} \subseteq Nat
  /\ {MaxBatch, CompactionThreshold} \subseteq Nat \ {0}
  /\ {Sharded, Deletions, CompactionBreaks, Shutdowns} \subseteq BOOLEAN

VARIABLES data,        \* LSNs of the records with data for this shard
          dels,        \* those of them that delete key ranges
          last,        \* last_record_lsn
          open,        \* open_layer
          next,        \* next_open_layer_at
          frozen,      \* frozen_layers
          lastFreeze,  \* last_freeze_at
          wstate,      \* TimelineWriterState, behind write_lock
          hold,        \* who holds write_lock, and how far it is
          client,      \* a caller of freeze_and_flush
          start,       \* layer_flush_start: [counter, lsn]
          done,        \* layer_flush_done: [counter, ok]
          loop,        \* flush_loop
          disk,        \* disk_consistent_lsn
          stored,      \* LSNs in layers on disk
          index,       \* what the upload queue was given: [disk, stored]
          l0,          \* level0_deltas: their number
          compaction,  \* [failed, broken]: compaction_failed, and whether it has come to fail
          cancelled,
          panic,       \* the assertion that failed, or ""
          bounds       \* [errors, restarts, early]: early if this process has flushed a layer
                       \* beyond every LSN requested, its own request being on its way

mem == <<open, next, frozen, lastFreeze, wstate>>
wal == <<data, dels>>
vars == <<wal, last, mem, hold, client, start, done, loop, disk, stored, index, l0, compaction,
          cancelled, panic, bounds>>

First == 2
Lsns == {First + 2 * i : i \in 1..MaxRecords}
EndLsn == 1000   \* no end yet

Absent == [start |-> 0, end |-> 0, lsns |-> {}]
NoState == [some |-> FALSE, empty |-> TRUE, prev |-> 0, max |-> 0, freeze |-> 0]
Free == [who |-> "", pc |-> "", upto |-> 0, at |-> 0, req |-> 0, then |-> ""]
IdleClient == [pc |-> "idle", at |-> 0, req |-> 0]
IdleLoop == [pc |-> "idle", seen |-> 0, counter |-> 0, to |-> 0, flushed |-> 0, layer |-> Absent]

Init ==
  /\ data \in {D \in SUBSET Lsns : Cardinality(Lsns \ D) <= Empties}
  /\ dels \in IF Deletions THEN SUBSET data ELSE {{}}
  /\ last = First /\ disk = First
  /\ open = Absent /\ next = First + 1 /\ frozen = <<>> /\ lastFreeze = First /\ wstate = NoState
  /\ hold = Free /\ client = IdleClient
  /\ start = [counter |-> 0, lsn |-> 0] /\ done = [counter |-> 0, ok |-> TRUE]
  /\ loop = IdleLoop
  /\ stored = {} /\ index = [disk |-> First, stored |-> {}]
  /\ l0 = 0 /\ compaction = [failed |-> FALSE, broken |-> FALSE]
  /\ cancelled = FALSE /\ panic = ""
  /\ bounds = [errors |-> 0, restarts |-> 0, early |-> FALSE]

----------------------------------------------------------------------------
(* Freezing: freeze_inmem_layer_at, by whoever holds write_lock            *)

\* try_freeze_in_memory_layer, with the assertions of InMemoryLayer::freeze
Freeze ==
  LET end == hold.at + 1 IN
  /\ hold.pc = "freeze" /\ panic = ""
  /\ IF open # Absent
     THEN /\ frozen' = Append(frozen, [open EXCEPT !.end = end])
          /\ open' = Absent /\ next' = end
     ELSE UNCHANGED <<frozen, open, next>>
  /\ panic' = IF open # Absent /\ open.start >= end THEN "empty range"
              ELSE IF \E l \in open.lsns : l >= end THEN "record beyond the end"
              ELSE IF (open # Absent) # wstate.some THEN "writer state" ELSE ""
  /\ lastFreeze' = end /\ wstate' = NoState
  /\ hold' = [hold EXCEPT !.pc = "request"]
  /\ UNCHANGED <<wal, last, client, start, done, loop, disk, stored, index, l0, compaction,
                 cancelled, bounds>>

\* What the holder does once the flush loop is told.
AfterRequest(req) ==
  \/ /\ hold.who = "writer"
     \* roll_layer waits if it has seen more L0 layers than the delay or the stall threshold.
     /\ \E pc \in {"wait", "open"} : hold' = [hold EXCEPT !.pc = pc, !.req = req]
     /\ UNCHANGED client
  \/ /\ hold.who = "client"
     /\ client' = [client EXCEPT !.pc = "wait", !.req = req]
     /\ hold' = Free
  \/ /\ hold.who = "background"
     /\ hold' = IF hold.then = "wait" THEN [hold EXCEPT !.pc = "wait", !.req = req] ELSE Free
     /\ UNCHANGED client

\* FlushLayerError::NotRunning: the writer's commit fails, the client gets an error.
AfterRefusal ==
  /\ hold' = Free
  /\ client' = IF hold.who = "client" THEN IdleClient ELSE client

\* The rest of freeze_inmem_layer_at
Request ==
  /\ hold.pc = "request" /\ panic = ""
  /\ IF loop.pc = "exited"
     THEN AfterRefusal /\ UNCHANGED start
     ELSE /\ start' = [counter |-> start.counter + 1, lsn |-> Max({hold.at, start.lsn})]
          /\ AfterRequest(start.counter + 1)
  /\ UNCHANGED <<wal, last, mem, done, loop, disk, stored, index, l0, compaction, cancelled, panic,
                 bounds>>

\* Slip: the answer to the request before will do.
Answered_Slip(req) == done.counter >= req - 1

\* wait_flush_completion: an answer for this request or a later one
Answered(req) == done.counter >= req

\* A holder of the lock that waited: the writer's commit fails if the flush did.
HolderWaited ==
  /\ hold.pc = "wait" /\ panic = ""
  /\ Answered(hold.req) \/ cancelled
  /\ hold' = IF hold.who = "writer" /\ (IF Answered(hold.req) THEN done.ok ELSE TRUE)
             THEN [hold EXCEPT !.pc = "open"] ELSE Free
  /\ UNCHANGED <<wal, last, mem, client, start, done, loop, disk, stored, index, l0, compaction,
                 cancelled, panic, bounds>>

----------------------------------------------------------------------------
(* DatadirModification::commit                                             *)

Batch == {l \in data : last < l /\ l <= hold.upto}
DelBatch == {l \in dels : last < l /\ l <= hold.upto}

\* get_open_layer_action
OpenLayerAction(lsn) ==
  IF ~wstate.some THEN {"Open"}
  ELSE IF wstate.prev = lsn \/ wstate.empty \/ lsn <= wstate.freeze THEN {"None"}
  ELSE {"None", "Roll"}

\* handle_open_layer_action, as far as the step it leads to; then says what follows.
\* A roll freezes at the largest LSN put so far.
HandleAction(lsn, then) ==
  \E a \in OpenLayerAction(lsn) :
    hold' = CASE a = "Roll" -> [hold EXCEPT !.pc = "freeze", !.at = wstate.max, !.then = then]
              [] a = "Open" -> [hold EXCEPT !.pc = "open", !.then = then]
              [] a = "None" -> [hold EXCEPT !.pc = then]

\* The walreceiver has records up to an LSN to commit.
BeginCommit ==
  /\ hold = Free /\ ~cancelled /\ panic = ""
  /\ \E n \in 1..MaxBatch :
       /\ last + 2 * n \in Lsns
       /\ hold' = [Free EXCEPT !.who = "writer", !.pc = "batch", !.upto = last + 2 * n]
  /\ UNCHANGED <<wal, last, mem, client, start, done, loop, disk, stored, index, l0, compaction,
                 cancelled, panic, bounds>>

\* put_batch up to the layer it writes to
PutBatch ==
  /\ hold.pc = "batch" /\ panic = ""
  /\ IF Batch = {} THEN hold' = [hold EXCEPT !.pc = "deletions"]
     ELSE HandleAction(Max(Batch), "put")
  /\ UNCHANGED <<wal, last, mem, client, start, done, loop, disk, stored, index, l0, compaction,
                 cancelled, panic, bounds>>

\* open_layer
OpenLayer ==
  /\ hold.pc = "open" /\ panic = ""
  /\ open' = IF open # Absent THEN open ELSE [start |-> next, end |-> EndLsn, lsns |-> {}]
  /\ next' = 0
  /\ wstate' = [some |-> TRUE, empty |-> open'.lsns = {}, prev |-> 0, max |-> 0,
                freeze |-> lastFreeze]
  /\ hold' = [hold EXCEPT !.pc = hold.then]
  /\ UNCHANGED <<wal, last, frozen, lastFreeze, client, start, done, loop, disk, stored, index, l0,
                 compaction, cancelled, panic, bounds>>

\* The rest of put_batch
Put ==
  /\ hold.pc = "put" /\ panic = ""
  /\ open' = [open EXCEPT !.lsns = @ \cup Batch]
  /\ wstate' = [wstate EXCEPT !.empty = FALSE, !.prev = Max(Batch),
                              !.max = Max({@, Max(Batch)})]
  /\ hold' = [hold EXCEPT !.pc = "deletions"]
  /\ UNCHANGED <<wal, last, next, frozen, lastFreeze, client, start, done, loop, disk, stored,
                 index, l0, compaction, cancelled, panic, bounds>>

\* delete_batch: put_tombstones has no effect yet, but a layer is opened or rolled for it.
DeleteBatch ==
  /\ hold.pc = "deletions" /\ panic = ""
  /\ IF DelBatch = {} THEN hold' = [hold EXCEPT !.pc = "finish"]
     ELSE HandleAction(Min(DelBatch), "finish")
  /\ UNCHANGED <<wal, last, mem, client, start, done, loop, disk, stored, index, l0, compaction,
                 cancelled, panic, bounds>>

\* finish_write for the LSNs of the batch
FinishWrite ==
  /\ hold.pc = "finish" /\ panic = ""
  /\ last' = hold.upto /\ hold' = Free
  /\ UNCHANGED <<wal, mem, client, start, done, loop, disk, stored, index, l0, compaction,
                 cancelled, panic, bounds>>

----------------------------------------------------------------------------
(* Freezing by others                                                      *)

\* freeze0
FreezeAndFlush ==
  /\ hold = Free /\ client.pc = "idle" /\ panic = "" /\ start.counter < MaxPending
  /\ hold' = [Free EXCEPT !.who = "client", !.pc = "freeze", !.at = last]
  /\ client' = [client EXCEPT !.pc = "freeze", !.at = last]
  /\ UNCHANGED <<wal, last, mem, start, done, loop, disk, stored, index, l0, compaction, cancelled,
                 panic, bounds>>

\* wait_flush_completion returns to the client.
ClientWaited ==
  /\ client.pc = "wait" /\ panic = ""
  /\ Answered(client.req) \/ cancelled
  /\ client' = IdleClient
  /\ UNCHANGED <<wal, last, mem, hold, start, done, loop, disk, stored, index, l0, compaction,
                 cancelled, panic, bounds>>

\* Slip: returns early when there is no open layer.
BackgroundFreeze_Slip ==
  /\ hold = Free /\ panic = "" /\ start.counter < MaxPending
  /\ open # Absent /\ last > lastFreeze
  /\ hold' = [Free EXCEPT !.who = "background", !.pc = "freeze", !.at = last,
                          !.then = IF open = Absent THEN "wait" ELSE ""]
  /\ UNCHANGED <<wal, last, mem, client, start, done, loop, disk, stored, index, l0, compaction,
                 cancelled, panic, bounds>>

\* maybe_freeze_ephemeral_layer: of an old layer, or across WAL without data for this
\* shard (then it waits with the lock held).
BackgroundFreeze ==
  /\ hold = Free /\ panic = "" /\ start.counter < MaxPending
  /\ \/ open = Absent /\ last > disk
     \/ open # Absent /\ last > lastFreeze
  /\ hold' = [Free EXCEPT !.who = "background", !.pc = "freeze", !.at = last,
                          !.then = IF open = Absent THEN "wait" ELSE ""]
  /\ UNCHANGED <<wal, last, mem, client, start, done, loop, disk, stored, index, l0, compaction,
                 cancelled, panic, bounds>>

----------------------------------------------------------------------------
(* flush_loop                                                              *)

\* layer_flush_start_rx.changed(): marks the present version as seen.
Wake ==
  /\ loop.pc = "idle" /\ panic = "" /\ ~cancelled
  /\ start.counter > loop.seen
  /\ loop' = [loop EXCEPT !.pc = "read", !.seen = start.counter]
  /\ UNCHANGED <<wal, last, mem, hold, client, start, done, disk, stored, index, l0, compaction,
                 cancelled, panic, bounds>>

\* borrow(): possibly a later version
ReadRequest ==
  /\ loop.pc = "read" /\ panic = ""
  /\ loop' = [loop EXCEPT !.pc = "next", !.counter = start.counter, !.to = start.lsn, !.flushed = 0]
  /\ UNCHANGED <<wal, last, mem, hold, client, start, done, disk, stored, index, l0, compaction,
                 cancelled, panic, bounds>>

\* The end of get_l0_flush_stall_threshold: clamped to the compaction threshold
StallAt == Max({StallThreshold, CompactionThreshold})

\* get_l0_flush_stall_threshold: some threshold, and it is reached
MustStall == StallThreshold > 0 /\ ~compaction.failed /\ l0 >= StallAt

\* The next layer to flush, or none: then the loop answers.  Stalls until there are fewer
\* L0 layers; only their number and a shutdown end the stall.
NextLayer ==
  /\ loop.pc = "next" /\ panic = "" /\ ~cancelled
  /\ IF loop.flushed >= loop.to \/ frozen = <<>>
     THEN loop' = [loop EXCEPT !.pc = "finish"]
     ELSE loop' = IF MustStall THEN [loop EXCEPT !.pc = "stalled", !.layer = Absent]
                  ELSE [loop EXCEPT !.pc = "flush", !.layer = Head(frozen)]
  /\ UNCHANGED <<wal, last, mem, hold, client, start, done, disk, stored, index, l0, compaction,
                 cancelled, panic, bounds>>

\* The threshold awaited is the one the loop has computed, not affected by a failure since.
EndStall ==
  /\ loop.pc = "stalled" /\ panic = ""
  /\ l0 < StallAt
  /\ loop' = [loop EXCEPT !.pc = "next"]
  /\ UNCHANGED <<wal, last, mem, hold, client, start, done, disk, stored, index, l0, compaction,
                 cancelled, panic, bounds>>

\* Slip: disk_consistent_lsn goes straight to the LSN of the request.
FlushFrozenLayer_Slip ==
  LET lsn == loop.to IN
  /\ loop.pc = "flush" /\ panic = "" /\ ~cancelled
  /\ panic' = IF loop.layer.lsns = {} THEN "empty layer"
              ELSE IF \E l \in loop.layer.lsns : l < loop.layer.start THEN "record before the start"
              ELSE IF Head(frozen) # loop.layer THEN "another layer"
              ELSE IF lsn < disk THEN "disk_consistent_lsn" ELSE ""
  /\ frozen' = Tail(frozen)
  /\ stored' = stored \cup loop.layer.lsns /\ l0' = l0 + 1
  /\ disk' = Max({disk, lsn})
  /\ index' = IF lsn # disk THEN [disk |-> lsn, stored |-> stored'] ELSE index
  /\ loop' = [loop EXCEPT !.pc = "next", !.flushed = Max({@, lsn}), !.layer = Absent]
  /\ bounds' = [bounds EXCEPT !.early = @ \/ loop.layer.end - 1 > start.lsn]
  /\ UNCHANGED <<wal, last, open, next, lastFreeze, wstate, hold, client, start, done, compaction,
                 cancelled>>

\* flush_frozen_layer; set_disk_consistent_lsn and schedule_uploads under the layers lock
FlushFrozenLayer ==
  LET lsn == loop.layer.end - 1 IN
  /\ loop.pc = "flush" /\ panic = "" /\ ~cancelled
  /\ panic' = IF loop.layer.lsns = {} THEN "empty layer"
              ELSE IF \E l \in loop.layer.lsns : l < loop.layer.start THEN "record before the start"
              ELSE IF Head(frozen) # loop.layer THEN "another layer"
              ELSE IF lsn < disk THEN "disk_consistent_lsn" ELSE ""
  /\ frozen' = Tail(frozen)
  /\ stored' = stored \cup loop.layer.lsns /\ l0' = l0 + 1
  /\ disk' = Max({disk, lsn})
  /\ index' = IF lsn # disk THEN [disk |-> lsn, stored |-> stored'] ELSE index
  /\ loop' = [loop EXCEPT !.pc = "next", !.flushed = Max({@, lsn}), !.layer = Absent]
  /\ bounds' = [bounds EXCEPT !.early = @ \/ loop.layer.end - 1 > start.lsn]
  /\ UNCHANGED <<wal, last, open, next, lastFreeze, wstate, hold, client, start, done, compaction,
                 cancelled>>

\* The flush fails: the layer stays, and the answer is the error.
FlushFails ==
  /\ loop.pc = "flush" /\ panic = "" /\ ~cancelled /\ bounds.errors < MaxErrors
  /\ bounds' = [bounds EXCEPT !.errors = @ + 1]
  /\ loop' = [loop EXCEPT !.pc = "failed", !.layer = Absent]
  /\ UNCHANGED <<wal, last, mem, hold, client, start, done, disk, stored, index, l0, compaction,
                 cancelled, panic>>

\* layer_flush_done_tx.send_replace.  When this answers every request there is, the
\* requests are counted from 1 again.
SendAnswer(ok) ==
  IF loop.counter = start.counter
  THEN /\ start' = [start EXCEPT !.counter = 1]
       /\ done' = [counter |-> 1, ok |-> ok]
       /\ loop' = [IdleLoop EXCEPT !.seen = IF loop.seen = loop.counter THEN 1 ELSE 0]
       /\ hold' = [hold EXCEPT !.req = Min({@, 1})]
       /\ client' = [client EXCEPT !.req = Min({@, 1})]
  ELSE /\ done' = [counter |-> loop.counter, ok |-> ok]
       /\ loop' = [IdleLoop EXCEPT !.seen = loop.seen]
       /\ UNCHANGED <<start, hold, client>>

\* The end of an iteration: across a gap that only a sharded tenant should have,
\* disk_consistent_lsn moves without a layer.  The assertion about a single shard holds
\* whatever the result is.
Answer ==
  LET gap == loop.flushed < loop.to /\ Sharded /\ loop.pc = "finish" IN
  /\ loop.pc \in {"finish", "failed"} /\ panic = ""
  /\ panic' = IF Sharded \/ loop.flushed >= loop.to \/ loop.flushed = 0
              THEN IF gap /\ loop.to < disk THEN "disk_consistent_lsn" ELSE ""
              ELSE "gap of a single shard"
  /\ disk' = IF gap THEN Max({disk, loop.to}) ELSE disk
  /\ index' = IF disk' # disk THEN [index EXCEPT !.disk = disk'] ELSE index
  /\ SendAnswer(loop.pc = "finish")
  /\ UNCHANGED <<wal, last, mem, stored, l0, compaction, cancelled, bounds>>

\* flush_loop returns: its scope guard answers whatever was requested.
Exit ==
  /\ cancelled /\ panic = ""
  /\ loop.pc \in {"idle", "next", "flush", "stalled"}
  /\ loop' = [loop EXCEPT !.pc = "exiting"]
  /\ done' = [counter |-> start.counter, ok |-> FALSE]
  /\ UNCHANGED <<wal, last, mem, hold, client, start, disk, stored, index, l0, compaction,
                 cancelled, panic, bounds>>

\* FlushLoopState::Exited
Exited ==
  /\ loop.pc = "exiting" /\ panic = ""
  /\ loop' = [loop EXCEPT !.pc = "exited"]
  /\ UNCHANGED <<wal, last, mem, hold, client, start, done, disk, stored, index, l0, compaction,
                 cancelled, panic, bounds>>

----------------------------------------------------------------------------
(* Compaction, shutdown and crashes                                        *)

\* compact_with_options: an L0 compaction succeeds or fails
Compact ==
  /\ l0 >= CompactionThreshold /\ panic = "" /\ ~cancelled
  /\ IF compaction.broken
     THEN compaction' = [compaction EXCEPT !.failed = TRUE] /\ UNCHANGED l0
     ELSE compaction' = [compaction EXCEPT !.failed = FALSE] /\ l0' = 0
  /\ UNCHANGED <<wal, last, mem, hold, client, start, done, loop, disk, stored, index, cancelled,
                 panic, bounds>>

\* Something that compaction needs is gone for good.
Break ==
  /\ CompactionBreaks /\ ~compaction.broken /\ panic = ""
  /\ compaction' = [compaction EXCEPT !.broken = TRUE]
  /\ UNCHANGED <<wal, last, mem, hold, client, start, done, loop, disk, stored, index, l0,
                 cancelled, panic, bounds>>

Cancel ==
  /\ Shutdowns /\ ~cancelled /\ panic = ""
  /\ cancelled' = TRUE
  /\ UNCHANGED <<wal, last, mem, hold, client, start, done, loop, disk, stored, index, l0,
                 compaction, panic, bounds>>

\* The process dies, and the timeline is loaded from the index.
Restart ==
  /\ bounds.restarts < MaxRestarts /\ panic = ""
  /\ bounds' = [bounds EXCEPT !.restarts = @ + 1, !.early = FALSE]
  /\ last' = index.disk /\ disk' = index.disk /\ stored' = index.stored
  /\ open' = Absent /\ next' = index.disk + 1 /\ frozen' = <<>>
  /\ lastFreeze' = index.disk /\ wstate' = NoState
  /\ hold' = Free /\ client' = IdleClient
  /\ start' = [counter |-> 0, lsn |-> 0] /\ done' = [counter |-> 0, ok |-> TRUE]
  /\ loop' = IdleLoop /\ cancelled' = FALSE
  /\ compaction' = [compaction EXCEPT !.failed = FALSE]
  /\ UNCHANGED <<wal, index, l0, panic>>

\* Whoever holds write_lock and has a layer to freeze or a flush to wait for
LockHolderStep == Freeze \/ Request \/ HolderWaited

\* the writer, with a batch
WriterStep == PutBatch \/ OpenLayer \/ Put \/ DeleteBatch \/ FinishWrite

\* flush_loop
FlushLoopStep ==
  Wake \/ ReadRequest \/ NextLayer \/ EndStall \/ FlushFrozenLayer \/ Answer \/ Exit \/ Exited

Next ==
  \/ LockHolderStep \/ BeginCommit \/ WriterStep
  \/ FreezeAndFlush \/ ClientWaited \/ BackgroundFreeze
  \/ FlushLoopStep \/ FlushFails
  \/ Compact \/ Break \/ Cancel \/ Restart

\* The tasks of the runtime run: the flush loop, the compaction loop, the background
\* freeze, and whoever holds the lock or waits.  WAL keeps coming to its end.
Fairness ==
  /\ WF_vars(LockHolderStep) /\ WF_vars(WriterStep) /\ WF_vars(ClientWaited)
  /\ SF_vars(BeginCommit)   \* tokio's mutex is first come, first served
  /\ WF_vars(BackgroundFreeze) /\ WF_vars(FlushLoopStep) /\ WF_vars(Compact)

Spec == Init /\ [][Next]_vars
FairSpec == Spec /\ Fairness
----------------------------------------------------------------------------

Layer == [start : Nat, end : Nat, lsns : SUBSET Lsns]

\* Types of what the layer map, the flush loop and the watch channels hold.
TypeOK ==
  /\ data \subseteq Lsns /\ dels \subseteq data /\ stored \subseteq Lsns
  /\ {last, disk, index.disk} \subseteq Lsns \cup {First}
  /\ open \in Layer /\ frozen \in Seq(Layer) /\ loop.layer \in Layer
  /\ done.counter <= start.counter \/ cancelled

\* The assertions of the write path (a freeze with an empty range or with records beyond it,
\* writer state without a layer, a flush of an empty layer or of another one than the oldest,
\* disk_consistent_lsn going back, a gap in the WAL of a single shard) fail in three cases only:
\* disk_consistent_lsn goes back when the flush loop has taken a layer before the request of its
\* freeze came; a single shard has a gap when a flush has failed or records had no data for it;
\* layers or their ranges are empty, or records before them, when delete_batch has rolled the
\* layer in the middle of a commit or opened one for nothing.
PanicsAreKnown ==
  \/ panic = ""
  \/ panic = "disk_consistent_lsn" /\ bounds.early
  \/ panic = "gap of a single shard" /\ ~Sharded /\ (bounds.errors > 0 \/ data # Lsns)
  \/ panic \in {"empty range", "empty layer", "record before the start"} /\ dels # {}

\* Whatever data is at or below disk_consistent_lsn is in layers on disk, and what the
\* upload queue was given is complete in the same way: WAL that safekeepers may discard
\* and a restart does not ask for again.
DiskIsComplete ==
  /\ \A l \in data : l <= disk => l \in stored
  /\ \A l \in data : l <= index.disk => l \in index.stored

InMemory == IF open = Absent THEN frozen ELSE Append(frozen, open)

\* Every record up to last_record_lsn is in a layer on disk or in an in-memory one.
NothingOutOfReach ==
  panic = "" => \A l \in data : l <= last =>
                  l \in stored \cup UNION {InMemory[i].lsns : i \in 1..Len(InMemory)}

\* Unless records delete key ranges (delete_batch may roll the layer when a part of the batch is
\* in it already), the in-memory layers follow each other without a gap, each with records of
\* its own range.
MemoryIsContiguous ==
  panic = "" /\ dels = {} =>
  /\ \A i \in 1..Len(InMemory) :
       \A l \in InMemory[i].lsns : InMemory[i].start <= l /\ l < InMemory[i].end
  /\ \A i \in 2..Len(InMemory) : InMemory[i].start = InMemory[i-1].end
  /\ (open = Absent /\ frozen # <<>>) => next = Last(frozen).end

\* freeze_and_flush that returns Ok while the timeline lives has put everything that was
\* ingested before the call on disk.
OkIsFlushed ==
  client.pc = "wait" /\ client'.pc = "idle" /\ ~cancelled /\ bounds'.restarts = bounds.restarts
    /\ done.ok
  => \A l \in data : l <= client.at => l \in stored

\* The loop is stalled and compaction has come to fail since: nothing looks at compaction_failed.
StalledForGood == loop.pc = "stalled" /\ compaction.broken /\ l0 >= StallAt

\* Every wait for a flush ends, or an assertion fails, or the loop is stalled for good.
ClientAnswered == client.pc # "wait" \/ panic # "" \/ StalledForGood
HolderAnswered == hold.pc # "wait" \/ panic # "" \/ StalledForGood
WaitsEnd == []<>ClientAnswered /\ []<>HolderAnswered

\* When the WAL ends, disk_consistent_lsn reaches its end, also after flushes that failed: the
\* safekeepers are told that the pageserver has caught up.  Not when the timeline is shut down, an
\* assertion fails or the loop is stalled for good; when the last record has no data for a single
\* shard; or when a flush fails behind the empty layer delete_batch has opened, which nothing
\* freezes until more WAL comes.
CaughtUp ==
  \/ disk = last /\ last = Max(Lsns)
  \/ cancelled \/ panic # "" \/ StalledForGood
  \/ ~Sharded /\ Max(Lsns) \notin data
  \/ dels # {} /\ bounds.errors > 0
CatchesUp == <>[]CaughtUp
=============================================================================
