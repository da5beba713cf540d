---------------------------- MODULE UploadQueue ----------------------------
(***************************************************************************)
(* The upload queue of one timeline (RemoteTimelineClient): layer uploads, *)
(* index uploads, deletions and barriers are queued in the order in which  *)
(* the timeline asks for them and carried out by concurrent tasks.  An     *)
(* operation may start before those ahead of it when it conflicts with     *)
(* none of them; index uploads that become ready together are coalesced.   *)
(* The index in remote storage must never name a layer that is missing,    *)
(* and a barrier or a graceful shutdown must cover everything before it.   *)
(*                                                                         *)
(* A layer is a remote path (name, shard and generation).  Deletions are   *)
(* only handed to the deletion queue, which carries them out later         *)
(* (module DeletionQueue); remote_consistent_lsn is described there too.   *)
(***************************************************************************)
EXTENDS Integers, Sequences, FiniteSets, SequencesExt, FiniteSetsExt

CONSTANTS Old,         \* layers of the index found at start, of older generations
          Ancestor,    \* those of them that an ancestor shard wrote
          New,         \* layers this generation may write
          Recreate,    \* those of them that may be written again once deleted
          InprogressLimit,  \* 0: unlimited
          MaxOps,      \* operations ever queued
          MaxErrors,   \* requests to remote storage that fail
          MaxToggles   \* location changes between AttachedMulti and AttachedSingle

\* What the constants must be.
UploadAssumption ==
  /\ Ancestor \subseteq Old /\ Recreate \subseteq New /\ Old \cap New = {}
  /\ InprogressLimit \in Nat /\ MaxOps \in Nat /\ MaxErrors \in Nat /\ MaxToggles \in Nat

VARIABLES uq,           \* the UploadQueueInitialized of the client
          stopped,      \* UploadQueue::Stopped
          tasks,        \* running upload tasks, until stop() the inprogress_tasks too
          block,        \* block_deletions of the client's configuration
          draining,     \* update_config has unblocked deletions and not drained them yet
          remote,       \* layers in remote storage
          remoteIndex,  \* index_part.json in remote storage
          delq,         \* layers the deletion queue was told to delete
          written,      \* layers ever scheduled for upload
          unlinked,     \* layers out of the index whose last reference is not dropped yet
          intended,     \* layers that remain if the operations run in the order queued
          past,         \* what the properties ask of the past: [again, unflushed, missed]
          budget        \* [ops, errors, toggles] left of the bounds

vars == <<uq, stopped, tasks, block, draining, remote, remoteIndex, delq, unlinked, intended,
          written, past, budget>>

Layers == Old \cup New

\* An index; at: how many indexes had been scheduled, this one included.
IndexPart(layers, at, deleted) == [layers |-> layers, at |-> at, deleted |-> deleted]

Nothing == IndexPart({}, 0, FALSE)
Op(kind, layers, index) == [kind |-> kind, layers |-> layers, index |-> index]
UploadLayer(l) == Op("upload", {l}, Nothing)
UploadMetadata(i) == Op("index", {}, i)
Delete(ls) == Op("delete", ls, Nothing)
\* A barrier remembers the last index scheduled before it.
Barrier(i) == Op("barrier", {}, i)
Shutdown == Op("shutdown", {}, Nothing)

Init ==
  /\ uq = [dirty |-> IndexPart(Old, 0, FALSE), clean |-> IndexPart(Old, 0, FALSE),
           changed |-> FALSE, queue |-> <<>>, recent |-> {}, blocked |-> {},
           shutting |-> FALSE, ready |-> FALSE, fired |-> {}]
  /\ stopped = FALSE
  /\ tasks = {}
  /\ block = FALSE /\ draining = FALSE
  /\ remote = Old
  /\ remoteIndex = IndexPart(Old, 0, FALSE)
  /\ delq = {} /\ unlinked = {} /\ intended = Old /\ written = {}
  /\ past = [again |-> {}, unflushed |-> FALSE, missed |-> {}]
  /\ budget = [ops |-> MaxOps, errors |-> MaxErrors, toggles |-> MaxToggles]

----------------------------------------------------------------------------
(* Which queued operation may start.  s is the queue with its tasks:       *)
(* [q |-> uq, t |-> tasks].                                                *)

\* Slip: index uploads may overtake each other.
CanBypass_Slip(a, b, active) ==
  /\ {a.kind, b.kind} \cap {"barrier", "shutdown"} = {}
  /\ IF "index" \in {a.kind, b.kind}
       THEN (a.layers \cup b.layers) \cap (a.index.layers \cup b.index.layers \cup active.layers) = {}
       ELSE (a.kind = "delete" /\ b.kind = "delete") \/ a.layers \cap b.layers = {}

\* active: the index in force when b is carried out.
CanBypass(a, b, active) ==
  /\ {a.kind, b.kind} \cap {"barrier", "shutdown"} = {}
  /\ ~(a.kind = "index" /\ b.kind = "index")
  /\ IF "index" \in {a.kind, b.kind}
       THEN (a.layers \cup b.layers) \cap (a.index.layers \cup b.index.layers \cup active.layers) = {}
       ELSE (a.kind = "delete" /\ b.kind = "delete") \/ a.layers \cap b.layers = {}

\* The index in force when the operation at queue position j is carried out.
ActiveIndex(s, j) ==
  LET ahead == {k \in 1..(j - 1) : s.q.queue[k].kind = "index"}
      running == {t \in s.t : t.op.kind = "index"}
  IN IF ahead # {} THEN s.q.queue[Max(ahead)].index
     ELSE IF running # {} THEN (CHOOSE t \in running : TRUE).op.index
     ELSE s.q.clean

IsReady(s, pos) ==
  /\ \A t \in s.t : CanBypass(s.q.queue[pos], t.op, s.q.clean)
  /\ \A j \in 1..(pos - 1) : CanBypass(s.q.queue[pos], s.q.queue[j], ActiveIndex(s, j))

Full(s) == InprogressLimit > 0 /\ Cardinality(s.t) >= InprogressLimit

Ready(s) == IF Full(s) THEN {} ELSE {i \in 1..Len(s.q.queue) : IsReady(s, i)}

\* Slip: the oldest of them is uploaded and the newer one dropped.
Coalesced_Slip(s, i) ==
  LET op == s.q.queue[i]
      rest == [s EXCEPT !.q.queue = RemoveAt(@, i)]
  IN [op |-> op,
      s |-> IF i <= Len(rest.q.queue) /\ op.kind = "index" /\ rest.q.queue[i].kind = "index"
               /\ IsReady(rest, i)
              THEN [rest EXCEPT !.q.queue = RemoveAt(@, i)] ELSE rest]

RECURSIVE Coalesced(_, _)

\* The newest of the index uploads from position i on that are ready together;
\* the others are dropped.
Coalesced(s, i) ==
  LET op == s.q.queue[i]
      rest == [s EXCEPT !.q.queue = RemoveAt(@, i)]
  IN IF i <= Len(rest.q.queue) /\ op.kind = "index" /\ rest.q.queue[i].kind = "index"
          /\ IsReady(rest, i)
       THEN Coalesced(rest, i)
       ELSE [op |-> op, s |-> rest]

\* A task is started; an upload of a layer that was deleted before has to flush the
\* deletion queue first.
Started(s, op) ==
  LET flush == op.kind = "upload" /\ op.layers \subseteq s.q.recent
  IN [q |-> [s.q EXCEPT !.recent = IF op.kind = "upload" THEN @ \ op.layers
                                  ELSE IF op.kind = "delete" THEN @ \cup op.layers ELSE @],
      t |-> s.t \cup {[op |-> op, flush |-> flush, step |-> "start"]}]

RECURSIVE LaunchQueuedTasks(_)

\* Shutdown stays at the head of the queue, so that nothing starts after it.
LaunchQueuedTasks(s) ==
  IF Ready(s) = {} THEN s
  ELSE LET i == Min(Ready(s))
           next == Coalesced(s, i)
       IN CASE next.op.kind = "shutdown" -> [s EXCEPT !.q.ready = TRUE]
            [] next.op.kind = "barrier" ->
                 LaunchQueuedTasks([next.s EXCEPT !.q.fired = @ \cup {next.op.index}])
            [] OTHER -> LaunchQueuedTasks(Started(next.s, next.op))

----------------------------------------------------------------------------
(* What the timeline schedules.  The queue must be initialized and not     *)
(* shutting down (initialized_mut).                                        *)

Initialized == ~stopped /\ ~uq.shutting

Enqueue(s, op) == [s EXCEPT !.q.queue = Append(@, op)]

\* schedule_layer_file_upload0
LayerQueued(s, l) ==
  Enqueue([s EXCEPT !.q.dirty.layers = @ \cup {l}, !.q.changed = TRUE], UploadLayer(l))

\* schedule_index_upload
IndexQueued(s) ==
  LET dirty == [s.q.dirty EXCEPT !.at = @ + 1]
  IN LaunchQueuedTasks(
       Enqueue([s EXCEPT !.q.dirty = dirty, !.q.changed = FALSE], UploadMetadata(dirty)))

\* schedule_unlinking_of_layers_from_index_part0
Unlinked(s, ls) ==
  LET gone == ls \cap s.q.dirty.layers
      out == [s EXCEPT !.q.dirty.layers = @ \ gone, !.q.changed = @ \/ gone # {}]
  IN IF out.q.changed THEN IndexQueued(out) ELSE out

\* schedule_deletion_of_unlinked0: files of ancestor shards are not this shard's to delete
DeleteQueued(s, ls) ==
  IF ls \subseteq Ancestor THEN s ELSE Enqueue(s, Delete(ls \ Ancestor))

\* n operations are queued and what can start is launched.
Schedule(s, n) ==
  /\ Initialized /\ budget.ops >= n
  /\ LET launched == LaunchQueuedTasks(s) IN uq' = launched.q /\ tasks' = launched.t
  /\ budget' = [budget EXCEPT !.ops = @ - n]
  /\ UNCHANGED <<stopped, block, draining, remote, remoteIndex, delq>>

Now == [q |-> uq, t |-> tasks]

\* A new layer: never written, or written again after its deletion was queued.
Writable == {l \in New : l \notin written \/ (l \in Recreate \ (uq.dirty.layers \cup unlinked))}

Written(ls) ==
  /\ intended' = intended \cup ls /\ written' = written \cup ls
  /\ past' = [past EXCEPT !.again = @ \cup (ls \cap written)]

ScheduleLayerFileUpload(l) ==
  /\ l \in Writable
  /\ Schedule(LayerQueued(Now, l), 1)
  /\ Written({l})
  /\ UNCHANGED unlinked

\* schedule_index_upload_for_metadata_update: disk_consistent_lsn has moved.
ScheduleIndexUpload ==
  /\ Schedule(IndexQueued(Now), 1)
  /\ UNCHANGED <<unlinked, intended, written, past>>

\* schedule_compaction_update; without new layers it is schedule_gc_update.  The old
\* layers stay in remote storage until the last reference to them is dropped.
ScheduleCompactionUpdate(from, to) ==
  /\ from \subseteq uq.dirty.layers /\ to \subseteq Writable \ from
  /\ Schedule(Unlinked(FoldSet(LAMBDA l, s : LayerQueued(s, l), Now, to), from),
              Cardinality(to) + 1)
  /\ unlinked' = unlinked \cup from
  /\ Written(to)

\* The last reference to an unlinked layer is dropped.
ScheduleDeletionOfUnlinked(l) ==
  /\ l \in unlinked
  /\ Schedule(DeleteQueued(Now, {l}), 1)
  /\ unlinked' = unlinked \ {l}
  /\ intended' = intended \ ({l} \ Ancestor)
  /\ UNCHANGED <<written, past>>

\* schedule_layer_file_deletion: future layers found at start are removed at once.
ScheduleLayerFileDeletion(ls) ==
  /\ ls \subseteq uq.dirty.layers
  /\ Schedule(DeleteQueued(Unlinked(Now, ls), ls), 2)
  /\ intended' = intended \ (ls \ Ancestor)
  /\ UNCHANGED <<unlinked, written, past>>

\* wait_completion: a barrier, fired when everything before it is done.
WaitCompletion ==
  /\ Schedule(Enqueue(Now, Barrier(uq.dirty)), 1)
  /\ UNCHANGED <<unlinked, intended, written, past>>

\* shutdown(), until it waits for shutdown_ready.
ShutdownQueue ==
  /\ ~stopped /\ ~uq.shutting
  /\ LET launched == LaunchQueuedTasks(Enqueue([Now EXCEPT !.q.shutting = TRUE], Shutdown))
     IN uq' = launched.q /\ tasks' = launched.t
  /\ UNCHANGED <<stopped, block, draining, remote, remoteIndex, delq, unlinked, intended, written,
                 past, budget>>

\* stop(): queued operations are dropped, running tasks go on.  Timeline::shutdown calls it
\* at any time; shutdown() once shutdown_ready is closed.
Stop ==
  /\ ~stopped /\ stopped' = TRUE
  /\ uq' = [uq EXCEPT !.queue = <<>>, !.blocked = {}, !.recent = {}]
  /\ UNCHANGED <<tasks, block, draining, remote, remoteIndex, delq, unlinked, intended, written,
                 past, budget>>

\* The timeline is deleted: after stop() and once no upload task is running, the index
\* is marked.
PersistIndexPartWithDeletedFlag ==
  /\ stopped /\ tasks = {} /\ ~remoteIndex.deleted
  /\ remoteIndex' = IndexPart(uq.dirty.layers, uq.dirty.at + 1, TRUE)
  /\ UNCHANGED <<uq, stopped, tasks, block, draining, remote, delq, unlinked, intended, written,
                 past, budget>>

\* update_config: deletions are blocked while another location may read the layers.
UpdateConfig ==
  /\ budget.toggles > 0 /\ ~draining
  /\ budget' = [budget EXCEPT !.toggles = @ - 1]
  /\ block' = ~block /\ draining' = block
  /\ UNCHANGED <<uq, stopped, tasks, remote, remoteIndex, delq, unlinked, intended, written, past>>

\* update_config, when the configuration is in place: what was blocked is pushed.
DrainBlocked ==
  /\ draining /\ draining' = FALSE
  /\ IF Initialized
       THEN /\ delq' = delq \cup uq.blocked /\ uq' = [uq EXCEPT !.blocked = {}]
            /\ past' = [past EXCEPT !.missed = {}]
       ELSE UNCHANGED <<delq, uq, past>>
  /\ UNCHANGED <<stopped, tasks, block, remote, remoteIndex, unlinked, intended, written, budget>>

----------------------------------------------------------------------------
(* perform_upload_task                                                     *)

Moved(t, step) == tasks' = (tasks \ {t}) \cup {[t EXCEPT !.step = step]}

\* The configuration is read before the queue is locked.  A layer that was deleted in this
\* generation: its deletion must not come after the upload.  A blocked deletion is
\* cancelled, others are flushed first.
Begin(t) ==
  /\ t.step = "start"
  /\ Moved(t, CASE t.flush /\ ~block -> "flush"
                [] t.flush /\ block -> "cancel"
                [] t.op.kind = "delete" /\ block -> "hold"
                [] OTHER -> "put")
  /\ uq' = IF t.flush /\ ~block /\ Initialized THEN [uq EXCEPT !.recent = {}] ELSE uq
  /\ UNCHANGED <<stopped, block, draining, remote, remoteIndex, delq, unlinked, intended, written,
                 past, budget>>

CancelBlocked(t) ==
  /\ t.step = "cancel" /\ Moved(t, "put")
  /\ uq' = IF Initialized THEN [uq EXCEPT !.blocked = @ \ t.op.layers] ELSE uq
  /\ UNCHANGED <<stopped, block, draining, remote, remoteIndex, delq, unlinked, intended, written,
                 past, budget>>

\* A deletion joins blocked_deletions, unless the queue is shutting down: it is leaked then.
HoldDeletion(t) ==
  /\ t.step = "hold" /\ Moved(t, "done")
  /\ uq' = IF Initialized THEN [uq EXCEPT !.blocked = @ \cup t.op.layers] ELSE uq
  /\ past' = IF block \/ draining THEN past ELSE [past EXCEPT !.missed = @ \cup t.op.layers]
  /\ UNCHANGED <<stopped, block, draining, remote, remoteIndex, delq, unlinked, intended, written,
                 budget>>

\* flush_execute returns: what was pushed before it is deleted.
FlushExecute(t) ==
  /\ t.step = "flush" /\ Moved(t, "put")
  /\ remote' = remote \ delq /\ delq' = {}
  /\ UNCHANGED <<uq, stopped, block, draining, remoteIndex, unlinked, intended, written, past, budget>>

\* The deletion queue is shutting down: the task goes on to the upload all the same.  The lists that
\* are left are carried out by the next process.
FlushFails(t) ==
  /\ t.step = "flush" /\ Moved(t, "put") /\ budget.errors > 0
  /\ budget' = [budget EXCEPT !.errors = @ - 1]
  /\ past' = [past EXCEPT !.unflushed = TRUE]
  /\ UNCHANGED <<uq, stopped, block, draining, remote, remoteIndex, delq, unlinked, intended,
                 written>>

\* The request reaches remote storage, or the deletion queue.
Apply(t) ==
  /\ remote' = IF t.op.kind = "upload" THEN remote \cup t.op.layers ELSE remote
  /\ remoteIndex' = IF t.op.kind = "index" THEN t.op.index ELSE remoteIndex
  /\ delq' = IF t.op.kind = "delete" THEN delq \cup t.op.layers ELSE delq

Put(t) ==
  /\ t.step = "put" /\ Apply(t) /\ Moved(t, "done")
  /\ UNCHANGED <<uq, stopped, block, draining, unlinked, intended, written, past, budget>>

\* The request fails, whether it was carried out or not, and the task tries again.
PutFails(t) ==
  /\ t.step = "put" /\ t.op.kind # "delete" /\ budget.errors > 0
  /\ budget' = [budget EXCEPT !.errors = @ - 1]
  /\ Apply(t) \/ UNCHANGED <<remote, remoteIndex, delq>>
  /\ Moved(t, "start")
  /\ UNCHANGED <<uq, stopped, block, draining, unlinked, intended, written, past>>

\* A task that sees the request to shut down between two tries: the queue is stopped then.
Cancelled(t) ==
  /\ stopped /\ t.step = "start"
  /\ tasks' = tasks \ {t}
  /\ UNCHANGED <<uq, stopped, block, draining, remote, remoteIndex, delq, unlinked, intended,
                 written, past, budget>>

\* The task leaves inprogress_tasks and launches what it was blocking.
Complete(t) ==
  /\ t.step = "done"
  /\ IF stopped
       THEN tasks' = tasks \ {t} /\ UNCHANGED uq
       ELSE LET q == IF t.op.kind = "index"
                       THEN [uq EXCEPT !.clean = t.op.index] ELSE uq
                launched == LaunchQueuedTasks([q |-> q, t |-> tasks \ {t}])
            IN uq' = launched.q /\ tasks' = launched.t
  /\ UNCHANGED <<stopped, block, draining, remote, remoteIndex, delq, unlinked, intended, written,
                 past, budget>>

\* The deletion queue carries out a deletion (external to this module).
ExecuteDeletion(l) ==
  /\ l \in delq
  /\ delq' = delq \ {l} /\ remote' = remote \ {l}
  /\ UNCHANGED <<uq, stopped, tasks, block, draining, remoteIndex, unlinked, intended, written,
                 past, budget>>

Next ==
  \/ \E l \in Layers : \/ ScheduleLayerFileUpload(l)
                       \/ ScheduleDeletionOfUnlinked(l)
                       \/ ExecuteDeletion(l)
  \/ \E from \in SUBSET Layers \ {{}} : \/ ScheduleLayerFileDeletion(from)
                                        \/ \E to \in SUBSET New : ScheduleCompactionUpdate(from, to)
  \/ ScheduleIndexUpload \/ WaitCompletion \/ UpdateConfig \/ DrainBlocked
  \/ ShutdownQueue \/ Stop \/ PersistIndexPartWithDeletedFlag
  \/ \E t \in tasks : \/ Begin(t) \/ CancelBlocked(t) \/ HoldDeletion(t)
                      \/ FlushExecute(t) \/ FlushFails(t) \/ Put(t) \/ PutFails(t)
                      \/ Cancelled(t) \/ Complete(t)

\* Weak fairness of the tasks taken together, which are never blocked: remote storage
\* answers in the end, and its errors do not last.
Fairness == []<>(tasks = {}) \/ []<><<\E t \in tasks : t \notin tasks'>>_tasks

Spec == Init /\ [][Next]_vars /\ Fairness

----------------------------------------------------------------------------
(* Properties                                                              *)

\* debug_assert in perform_upload_task, "layer modified while referenced by index",
\* for the index in remote storage as well as for the one the queue takes for current:
\* no task uploads or deletes a layer that the index refers to.
ModifiedIsUnreferenced ==
  ~stopped => \A t \in tasks : t.op.layers \cap (uq.clean.layers \cup remoteIndex.layers) = {}

\* The order of an upload and an earlier deletion of the same path is only kept when one path is
\* written again, the flush of the deletion queue succeeds and deletions are not blocked or
\* unblocked meanwhile: recently_deleted is cleared for all paths, a failed flush is ignored, and a
\* deletion already pushed is not cancelled.
Unsafe ==
  IF /\ Cardinality(past.again) <= 1 /\ ~past.unflushed /\ budget.toggles = MaxToggles
    THEN {} ELSE past.again

\* Whatever the tasks have done so far and whenever the pageserver dies, the index in
\* remote storage names layers that are there, and the deletion queue holds none of them,
\* except for paths written again where Unsafe says that they may be lost.
IndexedLayersExist ==
  ~remoteIndex.deleted => remoteIndex.layers \ Unsafe \subseteq remote \ delq

\* When wait_completion returns, an index at least as new as the last one scheduled before
\* it is in remote storage, in spite of reordering and coalescing.
BarrierIsDurable ==
  \A i \in uq.fired : remoteIndex.at >= i.at

\* The index in remote storage is never replaced by an older one, and never by one
\* without the deletion mark of its timeline.
IndexKeepsUp == remoteIndex'.at >= remoteIndex.at /\ (remoteIndex.deleted => remoteIndex'.deleted)

\* Reordering cannot be seen in the end: when nothing is left to do, remote storage holds
\* what the operations leave when they are carried out one by one in the order queued, and the
\* layers whose deletion is held.  Once deletions are unblocked none is held but those that
\* joined the list after it was drained.
InOrderResult ==
  Initialized /\ uq.queue = <<>> /\ tasks = {} =>
    /\ (remote \ delq) \ Unsafe = (intended \cup uq.blocked) \ Unsafe
    /\ intended \cap uq.blocked \subseteq Unsafe
    /\ ~block /\ ~draining => uq.blocked \subseteq past.missed
    /\ remoteIndex.at = uq.dirty.at

\* shutdown() returns only when no task runs and the last scheduled index is uploaded.
ShutdownDrains ==
  uq.ready /\ ~stopped => tasks = {} /\ remoteIndex.at = uq.dirty.at

============================================================================
