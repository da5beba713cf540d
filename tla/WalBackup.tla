----------------------------- MODULE WalBackup -----------------------------
(***************************************************************************)
(* Offloading and removal of WAL by the safekeepers of one timeline.       *)
(* Safekeepers tell each other their positions through the storage broker, *)
(* and each one decides by itself whether it is the one that uploads whole *)
(* committed segments to remote storage.  The manager of a timeline starts *)
(* and stops the upload task, saves the control file and removes local     *)
(* segments.  Consensus is WalConsensus: here WAL is never rewritten below *)
(* a commit_lsn, and only whole committed segments are looked at.          *)
(***************************************************************************)
EXTENDS Integers, Sequences, FiniteSets, FiniteSetsExt, SequencesExt

CONSTANTS Safekeepers,   \* node ids
          Late,          \* those that join when there is WAL already
          Quorum,        \* how many of these it takes to make WAL committed
          Computes,      \* safekeepers with a compute connected
          SegSize, MaxLsn,
          FirstFlush,    \* flush_lsn at first, of those that are not late
          ParallelJobs,  \* backup_parallel_jobs
          MaxLag,        \* max_offloader_lag_bytes
          MaxReelectLag, \* max_reelect_offloader_lag_bytes
          TimelineId,
          MaxRestarts, MaxFails, MaxSilence, MaxSaves, MaxReads

\* What the constants must be.
WalBackupAssumption ==
  /\ Safekeepers \subseteq Nat /\ Late \subseteq Safekeepers /\ Computes \subseteq Safekeepers /\ Quorum \in Nat
  /\ SegSize \in Nat \ {0} /\ MaxLsn \in Nat /\ FirstFlush \in SegSize..MaxLsn /\ ParallelJobs \in Nat \ {0}
  /\ MaxLag \in Nat /\ MaxReelectLag \in Nat /\ TimelineId \in Nat
  /\ MaxRestarts \in Nat /\ MaxFails \in Nat /\ MaxSilence \in Nat /\ MaxSaves \in Nat /\ MaxReads \in Nat

VARIABLES start,     \* local_start_lsn, 0 before the first ProposerElected
          flush,     \* flush_lsn
          files,     \* numbers of the local segments
          mem,       \* TimelineMemState: [commit, backup, consistent]
          cfile,     \* the same in the control file
          changed,   \* commit_lsn_watch_tx has sent a value since the process started
          peers,     \* PeersInfo: [commit, start], of the peers heard of in time
          task,      \* WalBackupTask
          removed,   \* Manager.last_removed_segno
          remover,   \* last segment wal_removal_task is to remove, 0 if there is no task
          remote,    \* segments in remote storage -> where their WAL begins
          committed, \* what is committed
          consumed,  \* remote_consistent_lsn of the pageserver
          restarts, fails, silences, saves, reads

lsns == <<start, flush, committed>>
manager == <<removed, remover>>
bounds == <<restarts, fails, silences, saves, reads>>
vars == <<lsns, files, mem, cfile, changed, peers, task, manager, remote, consumed, bounds>>

\* timeline_start_lsn; real timelines have no WAL in segment 0 either.
Start == SegSize
SegNo(lsn) == lsn \div SegSize
SegEnd(s) == (s + 1) * SegSize
Joined == {i \in Safekeepers : start[i] # 0}
Highest(a, b) == IF a > b THEN a ELSE b

NoTask == [on |-> FALSE, unseen |-> FALSE, retry |-> FALSE, backup |-> 0,
           head |-> 0, next |-> 0, last |-> 0, done |-> {}, failed |-> {}]

TypeOK ==
  /\ \A i \in Joined : /\ start[i] <= flush[i] /\ mem[i].commit <= flush[i] /\ mem[i].commit <= committed
                       /\ cfile[i].commit <= mem[i].commit /\ cfile[i].backup <= mem[i].backup
                       /\ cfile[i].consistent <= mem[i].consistent /\ mem[i].consistent <= consumed
  /\ \A i \in Safekeepers : /\ task[i].head <= task[i].next /\ task[i].next <= task[i].last
                            /\ task[i].next - task[i].head <= ParallelJobs
                            /\ (task[i].done \cup task[i].failed) \subseteq task[i].head..(task[i].next - 1)
  /\ consumed <= committed

Init ==
  /\ start = [i \in Safekeepers |-> IF i \in Late THEN 0 ELSE Start]
  /\ flush = [i \in Safekeepers |-> IF i \in Late THEN 0 ELSE FirstFlush]
  /\ files = [i \in Safekeepers |-> IF i \in Late THEN {} ELSE {SegNo(lsn) : lsn \in Start..(FirstFlush - 1)}]
  /\ mem = [i \in Safekeepers |-> [commit |-> start[i], backup |-> start[i], consistent |-> start[i]]]
  /\ cfile = mem
  /\ changed = [i \in Safekeepers |-> FALSE]
  /\ peers = [i \in Safekeepers |-> <<>>]
  /\ task = [i \in Safekeepers |-> NoTask]
  /\ removed = [i \in Safekeepers |-> 0] /\ remover = [i \in Safekeepers |-> 0]
  /\ remote = <<>> /\ committed = Start /\ consumed = Start
  /\ restarts = 0 /\ fails = 0 /\ silences = 0 /\ saves = 0 /\ reads = 0

----------------------------------------------------------------------------
(* WAL arrives and is consumed                                             *)

\* The first ProposerElected on a new safekeeper: WAL begins at some horizon of the others.
Join(i, at) ==
  /\ start[i] = 0 /\ at \in Start..committed
  /\ start' = [start EXCEPT ![i] = at] /\ flush' = [flush EXCEPT ![i] = at]
  /\ mem' = [mem EXCEPT ![i] = [commit |-> Start, backup |-> Start, consistent |-> Start]]
  /\ cfile' = [cfile EXCEPT ![i] = mem'[i]]
  /\ changed' = [changed EXCEPT ![i] = TRUE]
  /\ UNCHANGED <<committed, files, peers, task, manager, remote, consumed, bounds>>

AppendWal(i) ==
  /\ i \in Joined /\ flush[i] < MaxLsn
  /\ files' = [files EXCEPT ![i] = @ \cup {SegNo(flush[i])}]
  /\ flush' = [flush EXCEPT ![i] = @ + 1]
  /\ UNCHANGED <<start, committed, mem, cfile, changed, peers, task, manager, remote, consumed, bounds>>

CommitWal ==
  /\ Cardinality({i \in Joined : flush[i] > committed}) >= Quorum
  /\ committed' = committed + 1
  /\ UNCHANGED <<start, flush, files, mem, cfile, changed, peers, task, manager, remote, consumed, bounds>>

\* update_commit_lsn
NewCommit(i, candidate) == Highest(mem[i].commit, Min({candidate, flush[i]}))

\* Drop of WriteGuardSharedState: the watch is fed.
Notify(i) ==
  /\ changed' = [changed EXCEPT ![i] = @ \/ mem'[i].commit # mem[i].commit]
  /\ task' = [task EXCEPT ![i].unseen = @ \/ (task[i].on /\ mem'[i].commit # mem[i].commit)]

\* AppendRequest
CommitLsnFromCompute(i) ==
  /\ i \in Joined /\ mem[i].commit < committed /\ mem[i].commit < flush[i]
  /\ mem' = [mem EXCEPT ![i].commit = NewCommit(i, committed)]
  /\ Notify(i)
  /\ UNCHANGED <<lsns, files, cfile, peers, manager, remote, consumed, bounds>>

\* WalReader::open_segment: a local file, if the position is not before all local WAL, or remote storage.
Readable(i, lsn) ==
  \/ lsn >= start[i] /\ SegNo(lsn) \in files[i]
  \/ SegNo(lsn) \in DOMAIN remote /\ remote[SegNo(lsn)] <= lsn

\* The pageserver reads from a safekeeper, makes what it read durable and says so.
Consume(i) ==
  /\ i \in Joined /\ consumed < mem[i].commit
  /\ \A lsn \in consumed..(mem[i].commit - 1) : Readable(i, lsn)
  /\ consumed' = mem[i].commit
  /\ mem' = [mem EXCEPT ![i].consistent = Highest(@, consumed')]
  /\ reads < MaxReads /\ reads' = reads + 1 /\ UNCHANGED <<restarts, fails, silences, saves>>
  /\ UNCHANGED <<lsns, files, cfile, changed, peers, task, manager, remote>>

\* record_safekeeper_info, from a message j pushed to the broker
Broker(j, i) ==
  LET backup == Highest(mem[i].backup, mem[j].backup)
      consistent == Highest(mem[i].consistent, mem[j].consistent)
      Info(k) == [commit |-> mem[k].commit, start |-> start[k]]
      new == [commit |-> NewCommit(i, mem[j].commit), backup |-> backup, consistent |-> consistent]
  IN
  /\ i \in Joined /\ j \in Joined
  /\ ~(new = mem[i] /\ j \in DOMAIN peers[i] /\ peers[i][j] = Info(j))
  /\ mem' = [mem EXCEPT ![i] = new] /\ Notify(i)
  /\ peers' = [peers EXCEPT ![i] = [k \in DOMAIN @ \cup {j} |-> IF k = j THEN Info(j) ELSE @[k]]]
  /\ cfile' = IF cfile[i].backup + SegSize < backup \/ cfile[i].consistent + SegSize < consistent
                THEN [cfile EXCEPT ![i] = new] ELSE cfile
  /\ UNCHANGED <<lsns, files, manager, remote, consumed, bounds>>

\* get_peers: nothing was heard of j for heartbeat_timeout.
Silence(i, j) ==
  /\ silences < MaxSilence /\ silences' = silences + 1 /\ UNCHANGED <<restarts, fails, saves, reads>>
  /\ j \in DOMAIN peers[i]
  /\ peers' = [peers EXCEPT ![i] = [k \in DOMAIN @ \ {j} |-> @[k]]]
  /\ UNCHANGED <<lsns, files, mem, cfile, changed, task, manager, remote, consumed>>

----------------------------------------------------------------------------
(* Who uploads                                                             *)

Capable(i, alive) == {j \in alive : peers[i][j].start <= mem[i].backup}

CaughtUp(i, alive) ==
  {j \in Capable(i, alive) :
     \A k \in Capable(i, alive) : peers[i][j].commit + MaxLag >= peers[i][k].commit}

\* determine_offloader: {} or the chosen one
DetermineOffloader(i, alive) ==
  LET candidates == SetToSortSeq(CaughtUp(i, alive), LAMBDA a, b : a < b)
  IN IF candidates = <<>> THEN {} ELSE {candidates[(TimelineId % Len(candidates)) + 1]}

\* hadron_determine_offloader: the one that lags too much is left out.
Offloader(i) ==
  LET alive == DOMAIN peers[i]
      first == DetermineOffloader(i, alive)
  IN IF /\ Cardinality(CaughtUp(i, alive)) > 1 /\ MaxReelectLag # 0
        /\ mem[i].commit >= mem[i].backup + MaxReelectLag
       THEN DetermineOffloader(i, alive \ first)
       ELSE first

ShouldRun(i) == (i \in Computes \/ SegNo(mem[i].commit) > SegNo(mem[i].backup)) /\ Offloader(i) = {i}

\* Slip: a new receiver of the watch is told of later values only.
UpdateTask_Slip(i) ==
  /\ i \in Joined /\ ShouldRun(i) # task[i].on
  /\ task' = [task EXCEPT ![i] = IF @.on THEN NoTask ELSE [NoTask EXCEPT !.on = TRUE]]
  /\ UNCHANGED <<lsns, files, mem, cfile, changed, peers, manager, remote, consumed, bounds>>

\* update_task.  A new receiver of the watch has seen nothing of what was sent since the
\* process started; dropping the task drops its uploads.
UpdateTask(i) ==
  /\ i \in Joined /\ ShouldRun(i) # task[i].on
  /\ task' = [task EXCEPT ![i] = IF @.on THEN NoTask ELSE [NoTask EXCEPT !.on = TRUE, !.unseen = changed[i]]]
  /\ UNCHANGED <<lsns, files, mem, cfile, changed, peers, manager, remote, consumed, bounds>>

----------------------------------------------------------------------------
(* The upload task                                                         *)

Idle(t) == t.on /\ t.head = t.last

\* run: the loop up to the call of backup_lsn_range
Wake(i) ==
  /\ Idle(task[i]) /\ (task[i].unseen \/ task[i].retry)
  /\ LET commit == SegNo(mem[i].commit)
         seen == IF task[i].retry THEN task[i] ELSE [task[i] EXCEPT !.unseen = FALSE]
         begun == [seen EXCEPT !.backup = mem[i].backup]
     IN task' = [task EXCEPT ![i] =
          IF SegNo(task[i].backup) >= commit THEN [seen EXCEPT !.retry = FALSE]
          ELSE IF SegNo(mem[i].backup) >= commit THEN [begun EXCEPT !.retry = FALSE]
          ELSE [begun EXCEPT !.head = SegNo(mem[i].backup), !.next = SegNo(mem[i].backup), !.last = commit]]
  /\ UNCHANGED <<lsns, files, mem, cfile, changed, peers, manager, remote, consumed, bounds>>

\* backup_lsn_range: as many uploads as may run at once
StartUpload(i) ==
  /\ task[i].next < task[i].last /\ task[i].next - task[i].head < ParallelJobs
  /\ task' = [task EXCEPT ![i].next = @ + 1]
  /\ UNCHANGED <<lsns, files, mem, cfile, changed, peers, manager, remote, consumed, bounds>>

Running(i) == task[i].head..(task[i].next - 1) \ (task[i].done \cup task[i].failed)

PutSegment(i, s) ==
  remote' = [k \in DOMAIN remote \cup {s} |->
               IF k = s THEN Highest(s * SegSize, start[i]) ELSE remote[k]]

\* backup_single_segment
UploadDone(i, s) ==
  /\ s \in Running(i) /\ s \in files[i]
  /\ PutSegment(i, s)
  /\ task' = [task EXCEPT ![i].done = @ \cup {s}]
  /\ UNCHANGED <<lsns, files, mem, cfile, changed, peers, manager, consumed, bounds>>

\* There is no such file, or the request fails, although it may have been carried out.
UploadFails(i, s) ==
  /\ s \in Running(i)
  /\ task' = [task EXCEPT ![i].failed = @ \cup {s}]
  /\ \/ s \notin files[i] /\ UNCHANGED <<remote, bounds>>
     \/ /\ s \in files[i] /\ fails < MaxFails /\ fails' = fails + 1 /\ UNCHANGED <<restarts, silences, saves, reads>>
        /\ PutSegment(i, s) \/ UNCHANGED remote
  /\ UNCHANGED <<lsns, files, mem, cfile, changed, peers, manager, consumed>>

\* FuturesOrdered: the oldest one.
Popped(i) == task[i].head

\* A result is taken: backup_lsn moves, or the rest of the range is dropped.
TakeResult(i) ==
  LET s == Popped(i) IN
  /\ \/ /\ s \in task[i].done
        /\ mem' = [mem EXCEPT ![i].backup = Highest(@, SegEnd(s))]
        /\ task' = [task EXCEPT ![i].backup = SegEnd(s), ![i].head = @ + 1, ![i].done = @ \ {task[i].head},
                                ![i].retry = @ /\ task[i].head + 1 # task[i].last]
     \/ /\ s \in task[i].failed
        /\ task' = [task EXCEPT ![i].retry = TRUE, ![i].head = 0, ![i].next = 0, ![i].last = 0,
                                ![i].done = {}, ![i].failed = {}]
        /\ UNCHANGED mem
  /\ UNCHANGED <<lsns, files, cfile, changed, peers, manager, remote, consumed, bounds>>

----------------------------------------------------------------------------
(* The manager                                                             *)

\* update_control_file_save, and every other write of the control file
SaveControlFile(i) ==
  /\ i \in Joined /\ cfile[i] # mem[i]
  /\ cfile' = [cfile EXCEPT ![i] = mem[i]]
  /\ saves < MaxSaves /\ saves' = saves + 1 /\ UNCHANGED <<restarts, fails, silences, reads>>
  /\ UNCHANGED <<lsns, files, mem, changed, peers, task, manager, remote, consumed>>

\* Slip: WAL is kept for the pageserver only.
Horizon_Slip(i) == Min({cfile[i].consistent, cfile[i].commit, flush[i]})

\* calc_horizon_lsn
Horizon(i) == Min({cfile[i].consistent, cfile[i].backup, cfile[i].commit, flush[i]})

\* update_wal_removal
RemovalSegNo(i) == SegNo(Horizon(i)) - 1

RemovalStarts(i) ==
  /\ i \in Joined /\ remover[i] = 0 /\ RemovalSegNo(i) > removed[i]
  /\ remover' = [remover EXCEPT ![i] = RemovalSegNo(i)]
  /\ UNCHANGED <<lsns, files, mem, cfile, changed, peers, task, removed, remote, consumed, bounds>>

\* remove_up_to, in no order
RemoveFile(i) ==
  /\ \E s \in files[i] : s <= remover[i] /\ files' = [files EXCEPT ![i] = @ \ {s}]
  /\ UNCHANGED <<lsns, mem, cfile, changed, peers, task, manager, remote, consumed, bounds>>

\* update_wal_removal_end
RemovalEnds(i) ==
  /\ remover[i] # 0 /\ \A s \in files[i] : s > remover[i]
  /\ removed' = [removed EXCEPT ![i] = remover[i]] /\ remover' = [remover EXCEPT ![i] = 0]
  /\ UNCHANGED <<lsns, files, mem, cfile, changed, peers, task, remote, consumed, bounds>>

Restart(i) ==
  /\ i \in Joined /\ restarts < MaxRestarts /\ restarts' = restarts + 1 /\ UNCHANGED <<fails, silences, saves, reads>>
  /\ mem' = [mem EXCEPT ![i] = cfile[i]] /\ changed' = [changed EXCEPT ![i] = FALSE]
  /\ peers' = [peers EXCEPT ![i] = <<>>]
  /\ task' = [task EXCEPT ![i] = NoTask]
  /\ removed' = [removed EXCEPT ![i] = 0] /\ remover' = [remover EXCEPT ![i] = 0]
  /\ UNCHANGED <<lsns, files, cfile, remote, consumed>>

Upload(i) == StartUpload(i) \/ (\E s \in Running(i) : UploadDone(i, s)) \/ TakeResult(i)
Removal(i) == RemovalStarts(i) \/ RemoveFile(i) \/ RemovalEnds(i)

Next ==
  \/ CommitWal
  \/ \E i \in Safekeepers :
       \/ \E at \in Start..committed : Join(i, at)
       \/ AppendWal(i) \/ CommitLsnFromCompute(i) \/ Consume(i)
       \/ \E j \in Safekeepers : Broker(j, i) \/ Silence(i, j)
       \/ UpdateTask(i) \/ Wake(i) \/ Upload(i)
       \/ \E s \in Running(i) : UploadFails(i, s)
       \/ SaveControlFile(i) \/ Removal(i) \/ Restart(i)

\* Managers, tasks and the broker run; safekeepers learn of commits from one another.
Fairness ==
  \A i \in Safekeepers :
    /\ \A j \in Safekeepers : WF_vars(Broker(j, i))
    /\ WF_vars(UpdateTask(i)) /\ WF_vars(Wake(i)) /\ WF_vars(Upload(i))
    /\ WF_vars(CommitLsnFromCompute(i)) /\ WF_vars(Consume(i))
    /\ WF_vars(SaveControlFile(i)) /\ WF_vars(Removal(i))

Spec == Init /\ [][Next]_vars /\ Fairness

----------------------------------------------------------------------------
(* Properties                                                              *)

\* What any safekeeper believes to be offloaded is in remote storage, with no segment left
\* out, whoever uploaded what in which order and was stopped when.
BackupHasNoHoles ==
  \A i \in Joined : \A s \in SegNo(Start)..(SegNo(mem[i].backup) - 1) : s \in DOMAIN remote

\* No object begins with the zeros of a file whose safekeeper joined in the middle of it.
UploadsAreWhole == \A s \in DOMAIN remote : remote[s] = s * SegSize

\* All committed WAL since it joined can be read through a safekeeper, at any time during
\* removal and after restarts.
CommittedIsReadable ==
  \A i \in Joined : \A lsn \in start[i]..(mem[i].commit - 1) : Readable(i, lsn)

\* The segment in which a starting safekeeper looks for the end of its WAL is there.
CanStart == \A i \in Joined : flush[i] > cfile[i].commit /\ cfile[i].commit >= start[i]
                                => SegNo(cfile[i].commit) \in files[i]

\* The upload task of a process whose commit_lsn has not moved since it started: the first value
\* of the watch is the one of the control file, and changed() waits for another.
WaitsForCommit(i) == task[i].on /\ ~changed[i] /\ ~task[i].retry

\* Every committed whole segment is offloaded in the end, or the task that should do it runs in a
\* process that has started again and waits for commit_lsn to move.
OffloadedInTheEnd ==
  \A s \in SegNo(Start)..(SegNo(MaxLsn) - 1) :
    []<>(SegNo(committed) > s => \/ \A i \in Safekeepers : SegNo(mem[i].backup) > s
                                 \/ restarts > 0 /\ \E i \in Safekeepers : WaitsForCommit(i))

============================================================================
