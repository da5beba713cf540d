--------------------------- MODULE PartialBackup ---------------------------
(***************************************************************************)
(* Backup of the last, partial WAL segment of a safekeeper timeline, and   *)
(* eviction of the timeline on the strength of it.  A task uploads the     *)
(* segment while WAL is appended and truncated under it, and keeps a list  *)
(* of all objects it may have left in remote storage in the control file.  *)
(* The manager evicts a timeline nobody uses, removing the local segment,  *)
(* and brings it back when somebody asks for a residence guard.            *)
(*                                                                         *)
(* WAL is a sequence of the terms that wrote it: two logs that agree on    *)
(* the term of their last record agree on everything before (consensus is  *)
(* modelled in WalConsensus).  One segment is looked at.                   *)
(***************************************************************************)
EXTENDS Integers, Sequences, FiniteSets, FiniteSetsExt, SequencesExt, TLC

CONSTANTS MaxTerm, MaxWal, MaxRestarts, MaxFails, MaxResets,
          MaxSegments,  \* MAX_SIMULTANEOUS_SEGMENTS
          DeleteWal     \* delete_offloaded_wal

\* What the constants must be.
BoundsAssumption ==
  /\ MaxTerm \in Nat /\ MaxWal \in Nat /\ MaxRestarts \in Nat /\ MaxFails \in Nat /\ MaxResets \in Nat
  /\ MaxSegments \in Nat /\ DeleteWal \in BOOLEAN

VARIABLES lines,      \* lines[t]: WAL and term history of the proposer elected in t
          truth,      \* the WAL this safekeeper has acknowledged
          term,       \* term of the proposer whose history it has
          agreed,     \* what is committed, of truth
          commitLsn,  \* commit_lsn in memory
          served,     \* remote_consistent_lsn has come to commit_lsn
          trimmed,    \* last_removed_segno: the segments before this one were removed
          segment,    \* content of the local segment
          present,    \* the local segment exists
          control,    \* control file: [commit, served, offloaded, parts]
          bucket,     \* remote storage: name -> content
          uploader,   \* partial backup task
          uploaded,   \* Manager.partial_backup_uploaded
          resident,   \* somebody has a residence guard: a compute, a walsender, a task
          mgr,        \* what the manager is at
          leaked,     \* names left behind by a reset
          kills, faults, resets

log == <<lines, truth, term, agreed>>
memory == <<commitLsn, served, trimmed>>
bounds == <<kills, faults, resets>>
vars == <<log, memory, segment, present, control, bucket, uploader, uploaded, resident, mgr,
          leaked, bounds>>

Line(t, n) == [i \in 1..n |-> IF i <= Len(lines[t].base) THEN lines[t].base[i] ELSE t]

\* get_last_log_term
LastLogTerm == Max({h[1] : h \in {g \in lines[term].history : g[2] <= Len(truth)}})

\* PartialRemoteSegment; its name in remote storage
Seg(status) == [term |-> LastLogTerm, flush |-> Len(truth), commit |-> commitLsn, status |-> status]
Name(s) == <<s.term, s.flush, s.commit>>
NoSeg == [term |-> 0, flush |-> 0, commit |-> 0, status |-> "None"]
NoTask == [pc |-> "none", state |-> {}, state0 |-> {}, seg |-> NoSeg, buf |-> <<>>]

Uploaded(parts) == {s \in parts : s.status = "Uploaded"}

TypeOK ==
  /\ Len(truth) <= MaxWal /\ term \in 1..MaxTerm /\ commitLsn <= agreed /\ agreed <= Len(truth)
  /\ control.commit <= commitLsn /\ control.offloaded \in BOOLEAN
  /\ Cardinality(Uploaded(control.parts)) <= 1
  /\ uploader.pc \in {"none", "loop", "read", "verify", "commit", "gc", "gc_commit"}
  /\ mgr \in {"idle", "evicting", "delete", "unevicting", "switch"}

Init ==
  /\ lines = <<[base |-> <<>>, history |-> {<<1, 0>>}]>>
  /\ truth = <<>> /\ term = 1 /\ agreed = 0 /\ commitLsn = 0
  /\ segment = <<>> /\ present = TRUE
  /\ served = TRUE /\ trimmed = FALSE
  /\ control = [commit |-> 0, served |-> TRUE, offloaded |-> FALSE, parts |-> {}]
  /\ bucket = <<>> /\ uploader = NoTask /\ uploaded = NoSeg
  /\ resident = FALSE /\ mgr = "idle" /\ leaked = {}
  /\ kills = 0 /\ faults = 0 /\ resets = 0

Fail == faults < MaxFails /\ faults' = faults + 1 /\ UNCHANGED <<kills, resets>>

----------------------------------------------------------------------------
(* WAL arrives                                                             *)

\* A proposer is elected somewhere, with what another one had written up to n.
Elect(s, n) ==
  /\ Len(lines) < MaxTerm
  /\ n <= MaxWal /\ IsPrefix(SubSeq(truth, 1, agreed), Line(s, n))
  /\ lines' = Append(lines, [base |-> Line(s, n),
                             history |-> {h \in lines[s].history : h[2] <= n} \cup {<<Len(lines) + 1, n>>}])
  /\ UNCHANGED <<truth, term, agreed, memory, segment, present, control, bucket, uploader,
                 uploaded, resident, mgr, leaked, bounds>>

\* ProposerElected: WAL the proposer does not have is truncated.
ProposerElected ==
  /\ resident
  /\ \E t \in (term + 1)..Len(lines) :
       LET common == LongestCommonPrefix({truth, lines[t].base}) IN
       /\ term' = t /\ truth' = common /\ segment' = common
       /\ UNCHANGED <<lines, agreed>>
  /\ UNCHANGED <<memory, present, control, bucket, uploader, uploaded, resident, mgr, leaked,
                 bounds>>

AppendWal ==
  /\ resident /\ Len(truth) < MaxWal
  /\ truth' = Line(term, Len(truth) + 1) /\ segment' = truth'
  /\ UNCHANGED <<lines, term, agreed, memory, present, control, bucket, uploader, uploaded,
                 resident, mgr, leaked, bounds>>

\* From a proposer or, without a guard, from a peer.
Commit ==
  /\ ~control.offloaded /\ term = Len(lines) /\ Len(truth) >= Len(lines[term].base)
  /\ \E n \in (commitLsn + 1)..Len(truth) : commitLsn' = n /\ agreed' = Max({n, agreed})
  /\ served' = FALSE
  /\ UNCHANGED <<lines, truth, term, trimmed, segment, present, control, bucket, uploader, uploaded,
                 resident, mgr, leaked, bounds>>

\* PageserverFeedback, or a peer's remote_consistent_lsn.
PageserverConfirms ==
  /\ ~served /\ served' = TRUE
  /\ UNCHANGED <<log, commitLsn, trimmed, segment, present, control, bucket, uploader, uploaded,
                 resident, mgr, leaked, bounds>>

\* A change of the control file takes what is in memory with it.
StartChange == [control EXCEPT !.commit = commitLsn, !.served = served]

----------------------------------------------------------------------------
(* Partial backup task                                                     *)

NeedsUploading == uploaded # Seg("Uploaded")

\* update_partial_backup
StartTask ==
  /\ mgr = "idle" /\ ~control.offloaded /\ uploader.pc = "none" /\ NeedsUploading
  /\ uploader' = [NoTask EXCEPT !.pc = "loop", !.state = control.parts]
  /\ UNCHANGED <<log, memory, segment, present, control, bucket, uploaded, resident, mgr,
                 leaked, bounds>>

\* main_task returns, update_partial_backup_end
TaskDone ==
  /\ uploader.pc = "loop" /\ Seg("Uploaded") \in uploader.state
  /\ uploaded' = Seg("Uploaded") /\ uploader' = NoTask
  /\ UNCHANGED <<log, memory, segment, present, control, bucket, resident, mgr, leaked, bounds>>

\* commit_state, and what of memory goes to the control file with it.
CommitState(parts, pc) ==
  /\ control' = [StartChange EXCEPT !.parts = parts]
  /\ uploader' = [uploader EXCEPT !.state = parts, !.pc = pc]

\* prepare_upload, do_upload: the object is written down first.
Prepare ==
  /\ uploader.pc = "loop" /\ Len(truth) > 0 /\ Seg("Uploaded") \notin uploader.state
  /\ LET parts == uploader.state \cup {Seg("InProgress")} IN
     /\ control' = [StartChange EXCEPT !.parts = parts]
     /\ uploader' = [pc |-> "read", state |-> parts, state0 |-> uploader.state, seg |-> Seg("InProgress"), buf |-> <<>>]
  /\ UNCHANGED <<log, memory, segment, present, bucket, uploaded, resident, mgr, leaked, bounds>>

\* backup_partial_segment reads the file as it goes.
Read ==
  /\ uploader.pc = "read" /\ Len(uploader.buf) < uploader.seg.flush
  /\ LET i == Len(uploader.buf) + 1
     IN uploader' = [uploader EXCEPT !.buf = Append(@, IF i <= Len(segment) THEN segment[i] ELSE 0)]
  /\ UNCHANGED <<log, memory, segment, present, control, bucket, uploaded, resident, mgr,
                 leaked, bounds>>

Put ==
  /\ uploader.pc = "read" /\ Len(uploader.buf) = uploader.seg.flush
  /\ bucket' = (Name(uploader.seg) :> uploader.buf) @@ bucket
  /\ \/ uploader' = [uploader EXCEPT !.pc = "verify"] /\ UNCHANGED bounds
     \/ uploader' = [uploader EXCEPT !.pc = "loop"] /\ Fail
  /\ UNCHANGED <<log, memory, segment, present, control, uploaded, resident, mgr, leaked>>

PutFails ==
  /\ uploader.pc = "read" /\ Fail
  /\ uploader' = [uploader EXCEPT !.pc = "loop"]
  /\ UNCHANGED <<log, memory, segment, present, control, bucket, uploaded, resident, mgr,
                 leaked>>

\* upload_segment, after the upload.  The assertions on commit_lsn and flush_lsn end the
\* task; the manager starts another one.
Verify ==
  /\ uploader.pc = "verify"
  /\ uploader' = IF LastLogTerm # uploader.seg.term THEN [uploader EXCEPT !.pc = "loop"]
             ELSE IF uploader.seg.commit > commitLsn \/ uploader.seg.flush > Len(truth) THEN NoTask
             ELSE [uploader EXCEPT !.pc = "commit"]
  /\ UNCHANGED <<log, memory, segment, present, control, bucket, uploaded, resident, mgr,
                 leaked, bounds>>

\* do_upload: everything older is to be deleted.
CommitUploaded ==
  /\ uploader.pc = "commit"
  /\ CommitState({[s EXCEPT !.status = "Deleting"] : s \in uploader.state0}
                   \cup {[uploader.seg EXCEPT !.status = "Uploaded"]}, "gc")
  /\ UNCHANGED <<log, memory, segment, present, bucket, uploaded, resident, mgr, leaked, bounds>>

\* Too many objects are written down.
TooMany ==
  /\ uploader.pc = "loop" /\ Cardinality(uploader.state) > MaxSegments
  /\ uploader' = [uploader EXCEPT !.pc = "gc"]
  /\ UNCHANGED <<log, memory, segment, present, control, bucket, uploaded, resident, mgr,
                 leaked, bounds>>

\* A retry has the name of the failed upload: that name is spared.
Garbage(parts) == {Name(s) : s \in parts \ Uploaded(parts)} \ {Name(s) : s \in Uploaded(parts)}

Without(names) == [n \in DOMAIN bucket \ names |-> bucket[n]]

\* gc: objects first, then the control file.
GcDelete ==
  /\ uploader.pc = "gc"
  /\ bucket' = Without(Garbage(uploader.state))
  /\ \/ uploader' = [uploader EXCEPT !.pc = "gc_commit"] /\ UNCHANGED bounds
     \/ uploader' = [uploader EXCEPT !.pc = "loop"] /\ Fail
  /\ UNCHANGED <<log, memory, segment, present, control, uploaded, resident, mgr, leaked>>

GcCommit ==
  /\ uploader.pc = "gc_commit"
  /\ CommitState(Uploaded(uploader.state), "loop")
  /\ UNCHANGED <<log, memory, segment, present, bucket, uploaded, resident, mgr, leaked, bounds>>

----------------------------------------------------------------------------
(* Manager                                                                 *)

Has(s) == Name(s) \in DOMAIN bucket

\* compare_local_segment_with_remote
Matches(s) == present => Has(s) /\ bucket[Name(s)] = segment

\* update_control_file_save: in-memory state is to be flushed.
SaveControlFile ==
  /\ mgr = "idle" /\ ~control.offloaded /\ control # StartChange
  /\ control' = StartChange
  /\ UNCHANGED <<log, memory, segment, present, bucket, uploader, uploaded, resident, mgr, leaked,
                 bounds>>

\* update_wal_removal, update_wal_removal_end: everything before this segment is committed,
\* offloaded and consumed.
WalRemoved ==
  /\ mgr = "idle" /\ ~control.offloaded /\ ~trimmed /\ trimmed' = TRUE
  /\ UNCHANGED <<log, commitLsn, served, segment, present, control, bucket, uploader, uploaded,
                 resident, mgr, leaked, bounds>>

\* Of is_active: with a compute the timeline is resident, and backup is required for whole
\* segments only.
BrokerActive == ~served

\* No task runs (those that are not modelled here hold residence guards), nobody has a guard,
\* the control file is saved, nothing is to be pushed to the broker, and the segment is uploaded
\* and follows the last one removed.
ReadyForEviction ==
  /\ uploader.pc = "none" /\ ~resident
  /\ control = StartChange
  /\ ~BrokerActive
  /\ ~NeedsUploading /\ trimmed

\* ready_for_eviction, do_eviction: the object is as it should be.
EvictBegin ==
  /\ mgr = "idle" /\ ~control.offloaded /\ ReadyForEviction
  /\ Matches(uploaded)
  /\ mgr' = "evicting"
  /\ UNCHANGED <<log, memory, segment, present, control, bucket, uploader, uploaded, resident,
                 leaked, bounds>>

\* Slip: the local segment goes before the control file is written.
SwitchToOffloaded_Slip ==
  /\ mgr = "evicting"
  /\ IF NeedsUploading
       THEN mgr' = "idle" /\ UNCHANGED <<segment, present>>
       ELSE mgr' = "delete" /\ segment' = <<>> /\ present' = FALSE
  /\ UNCHANGED <<log, memory, control, bucket, uploader, uploaded, resident, leaked, bounds>>

\* switch_to_offloaded looks again.
SwitchToOffloaded ==
  /\ mgr = "evicting"
  /\ IF NeedsUploading
       THEN mgr' = "idle" /\ UNCHANGED control
       ELSE /\ control' = [StartChange EXCEPT !.offloaded = TRUE]
            /\ mgr' = IF DeleteWal THEN "delete" ELSE "idle"
  /\ UNCHANGED <<log, memory, segment, present, bucket, uploader, uploaded, resident, leaked,
                 bounds>>

DeleteLocalSegment ==
  /\ mgr = "delete" /\ mgr' = "idle"
  /\ segment' = <<>> /\ present' = FALSE
  /\ UNCHANGED <<log, memory, control, bucket, uploader, uploaded, resident, leaked, bounds>>

\* GuardRequest, while the timeline is there
TakeGuard ==
  /\ mgr = "idle" /\ ~control.offloaded /\ ~resident /\ resident' = TRUE
  /\ UNCHANGED <<log, memory, segment, present, control, bucket, uploader, uploaded, mgr,
                 leaked, bounds>>

DropGuard ==
  /\ resident /\ resident' = FALSE
  /\ UNCHANGED <<log, memory, segment, present, control, bucket, uploader, uploaded, mgr,
                 leaked, bounds>>

\* GuardRequest, while it is evicted: do_uneviction
UnevictBegin ==
  /\ mgr = "idle" /\ control.offloaded /\ Matches(uploaded)
  /\ mgr' = "unevicting"
  /\ UNCHANGED <<log, memory, segment, present, control, bucket, uploader, uploaded, resident,
                 leaked, bounds>>

\* redownload_partial_segment, down to the rename
Download ==
  /\ mgr = "unevicting"
  /\ \/ /\ Has(uploaded)
        /\ segment' = bucket[Name(uploaded)] /\ present' = TRUE
        /\ mgr' = "switch" /\ UNCHANGED bounds
     \/ mgr' = "idle" /\ Fail /\ UNCHANGED <<segment, present>>
  /\ UNCHANGED <<log, memory, control, bucket, uploader, uploaded, resident, leaked>>

SwitchToPresent ==
  /\ mgr = "switch" /\ mgr' = "idle"
  /\ IF Len(segment) = Len(truth)
       THEN control' = [StartChange EXCEPT !.offloaded = FALSE] /\ resident' = TRUE
       ELSE UNCHANGED <<control, resident>>
  /\ UNCHANGED <<log, memory, segment, present, bucket, uploader, uploaded, leaked, bounds>>

\* backup_partial_reset; the task is let finish what it is doing.  The control file first,
\* then the objects, which may fail.  Meant for timelines whose segment was not deleted.
Reset ==
  /\ resets < MaxResets /\ resets' = resets + 1 /\ UNCHANGED kills
  /\ mgr = "idle" /\ uploader.pc \in {"none", "loop"} /\ present
  /\ uploader' = NoTask /\ uploaded' = NoSeg
  /\ control' = [StartChange EXCEPT !.offloaded = FALSE, !.parts = {}]
  /\ LET names == {Name(s) : s \in control.parts} IN
     \/ bucket' = Without(names) /\ leaked' = leaked \ names /\ UNCHANGED faults
     \/ bucket' = bucket /\ leaked' = leaked \cup names /\ faults < MaxFails /\ faults' = faults + 1
  /\ UNCHANGED <<log, memory, segment, present, resident, mgr>>

\* The process ends and starts again: bootstrap_mgr
Restart ==
  /\ kills < MaxRestarts /\ kills' = kills + 1
  /\ commitLsn' = control.commit /\ served' = control.served /\ trimmed' = FALSE
  /\ uploader' = NoTask /\ resident' = FALSE /\ mgr' = "idle"
  /\ uploaded' = IF Uploaded(control.parts) = {} THEN NoSeg ELSE CHOOSE s \in Uploaded(control.parts) : TRUE
  /\ UNCHANGED <<log, segment, present, control, bucket, leaked, faults, resets>>

TaskStep == StartTask \/ TaskDone \/ Prepare \/ Read \/ Put \/ Verify \/ CommitUploaded \/ GcDelete \/ GcCommit
ManagerStep == SaveControlFile \/ WalRemoved \/ EvictBegin \/ SwitchToOffloaded \/ DeleteLocalSegment \/ Download \/ SwitchToPresent

Next ==
  \/ \E s \in 1..Len(lines) : \E n \in 0..MaxWal : Elect(s, n)
  \/ ProposerElected \/ AppendWal \/ Commit \/ PageserverConfirms
  \/ TaskStep \/ PutFails \/ TooMany
  \/ ManagerStep \/ UnevictBegin \/ TakeGuard \/ DropGuard
  \/ Reset \/ Restart

\* The task, the manager and the pageserver run; requests to remote storage fail a bounded number of times.
Fairness == WF_vars(TaskStep) /\ WF_vars(PageserverConfirms) /\ SF_vars(SaveControlFile)
            /\ SF_vars(WalRemoved) /\ SF_vars(EvictBegin) /\ WF_vars(SwitchToOffloaded \/ DeleteLocalSegment)
            /\ WF_vars(Download \/ SwitchToPresent)

Spec == Init /\ [][Next]_vars /\ Fairness

----------------------------------------------------------------------------
(* Properties                                                              *)

\* The object that the control file calls Uploaded is there.
UploadedIsThere == \A s \in Uploaded(control.parts) : Has(s)

\* An evicted timeline can be brought back from the object in its control file, and a
\* timeline that is there has all the WAL it acknowledged.
EvictionLosesNothing ==
  /\ control.offloaded => \E s \in Uploaded(control.parts) : Has(s) /\ bucket[Name(s)] = truth
  /\ present => segment = truth
  /\ ~present => control.offloaded

\* Every object in remote storage is written down, so that it will be deleted, whatever
\* upload or deletion failed and wherever the process was stopped.
NothingLeaks == DOMAIN bucket \subseteq {Name(s) : s \in control.parts} \cup leaked

\* A timeline that nobody uses any more is evicted in the end.
IdleIsEvicted == <>[](~resident) => <>[](control.offloaded \/ truth = <<>>)
============================================================================
