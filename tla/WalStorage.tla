----------------------------- MODULE WalStorage -----------------------------
(***************************************************************************)
(* What a safekeeper has on its disk for one timeline: segments of WAL     *)
(* (PhysicalStorage) and the control file (FileStorage), both in one       *)
(* directory, with the page cache in front of the disk.  Processes are     *)
(* killed and hosts crash at any point; writes, fsyncs and renames fail.   *)
(*                                                                         *)
(* A unit of WAL is the term whose walproposer wrote it; 0 is a zeroed     *)
(* byte.  Records of all terms end at the same LSNs: the worst case, since *)
(* then WAL of two terms can be put together into valid records.           *)
(***************************************************************************)
EXTENDS Integers, FiniteSets, FiniteSetsExt

CONSTANTS Start, MaxLsn,   \* LSNs at which the timeline starts and may end at most
          SegSize,         \* wal_seg_size
          RecordEnds,      \* LSNs between records
          MaxTerm,
          MaxCrashes,      \* crashes of the host, kills of the process
          MaxErrors,       \* errors of truncations and of saves of the control file
          MaxWriteErrors,  \* errors of writes of WAL
          MaxSyncErrors    \* errors of fdatasync

\* What the constants must be.
DiskAssumption ==
  /\ SegSize \in Nat \ {0} /\ Start \in 1..MaxLsn
  /\ Start \in RecordEnds /\ RecordEnds \subseteq Start..MaxLsn

Units == 0..(MaxLsn - 1)
Segs == 0..(MaxLsn \div SegSize)
Seg(lsn) == lsn \div SegSize
UnitsOf(s) == {u \in Units : Seg(u) = s}
Terms == 0..MaxTerm

VARIABLES dir,      \* dir[s]: name of segment s as the file system shows it
          data,     \* data[u]: what a read of unit u returns
          cfFile,   \* the control file as the file system shows it
          dirty,    \* units the page cache has not written yet
          durable,  \* [dir, data, cf]: what is on the disk
          cf,       \* the control file in memory: term, last term of the history, commit_lsn
          commit,   \* inmem.commit_lsn, newer than that of the control file
          st,       \* fields of PhysicalStorage
          op,       \* step of handle_elected that comes next
          log,      \* log[t]: the WAL of term t, in full
          budget    \* failures left

vars == <<dir, data, cfFile, dirty, durable, cf, commit, st, op, log, budget>>

Idle == [step |-> "idle", term |-> 0, end |-> 0]

Spend(kind) == budget[kind] > 0 /\ budget' = [budget EXCEPT ![kind] = @ - 1]

-----------------------------------------------------------------------------
(* The file system *)

\* The disk after units U of the cached content d are written.
Synced(dur, U, d) ==
  [dur EXCEPT !.data = [u \in Units |-> IF u \in U THEN d[u] ELSE @[u]]]

\* fsync of the directory.
DirSynced(dur, d) == [dur EXCEPT !.dir = d]

\* fdatasync fails: some pages were written, all count as clean afterwards.
LoseDirty(s) ==
  /\ \E W \in SUBSET (dirty \cap UnitsOf(s)) :
       durable' = Synced(durable, W, data)
  /\ dirty' = dirty \ UnitsOf(s)

\* Where find_end_of_wal arrives from a record boundary: a record is valid when its
\* segments exist and its CRC matches, so when one walproposer wrote all of it.
Previous(e) == Max({x \in RecordEnds : x < e})

ValidRecord(e, names, d) ==
  /\ \A u \in Previous(e)..(e - 1) : names[Seg(u)] # "none" /\ d[u] # 0
  /\ \A u, v \in Previous(e)..(e - 1) : d[u] = d[v]

FindEndOfWal(from, names, d) ==
  Max({e \in RecordEnds : e >= from /\
        \A x \in RecordEnds : from < x /\ x <= e => ValidRecord(x, names, d)})

-----------------------------------------------------------------------------

\* Slip: a restarted process believes in a clean end of WAL.
Opened_Clean(control, names, d) ==
  LET end == FindEndOfWal(control.commit, names, d)
  IN  [write |-> end, writeRecord |-> end, flush |-> end, flushRecord |-> end,
       decoder |-> [at |-> end, ok |-> TRUE], file |-> FALSE, pending |-> FALSE]

\* PhysicalStorage::new.
Opened(control, names, d) ==
  LET end == FindEndOfWal(control.commit, names, d)
  IN  [write |-> end, writeRecord |-> end, flush |-> end, flushRecord |-> end,
       decoder |-> [at |-> end, ok |-> TRUE], file |-> FALSE, pending |-> TRUE]

Init ==
  /\ dir = [s \in Segs |-> IF s = Seg(Start) THEN "partial" ELSE "none"]
  /\ data = [u \in Units |-> 0]
  /\ dirty = {}
  /\ cf = [term |-> 0, hist |-> 0, commit |-> Start]
  /\ cfFile = cf
  /\ durable = [dir |-> dir, data |-> data, cf |-> cf]
  /\ commit = Start
  /\ st = Opened(cf, dir, data)
  /\ op = Idle
  /\ log = [t \in Terms |-> data]
  /\ budget = [crash |-> MaxCrashes, error |-> MaxErrors,
               write |-> MaxWriteErrors, sync |-> MaxSyncErrors]

(***************************************************************************)
(* write_wal: n units at write_lsn.  Other positions are refused, by       *)
(* handle_append_request and again here.  Segments that are completed are  *)
(* synced, closed and renamed; the last one stays open.                    *)
(***************************************************************************)
CanWrite(n) ==
  /\ op = Idle /\ ~st.pending
  /\ cf.term = cf.hist /\ cf.hist # 0
  /\ st.write + n <= MaxLsn

Completed(end) == {s \in Segs : st.write < (s + 1) * SegSize /\ (s + 1) * SegSize <= end}
Touched(end) == {s \in Segs : \E u \in st.write..(end - 1) : Seg(u) = s}

\* Slip: a new segment is renamed without being synced.
WriteExact_NotBaked(end, done) ==
  LET content == [u \in Units |-> IF st.write <= u /\ u < end THEN log[cf.hist][u] ELSE data[u]]
      unsynced == dirty \cup (st.write..(end - 1))
  IN  /\ dir' = [s \in Segs |-> IF s \in done THEN "complete"
                                ELSE IF s \in Touched(end) THEN "partial" ELSE dir[s]]
      /\ data' = content
      /\ dirty' = {u \in unsynced : Seg(u) \notin done}
      /\ durable' = Synced(durable, {u \in unsynced : Seg(u) \in done}, content)

\* The disk after units st.write..end-1 are written, the segments in done completed.
\* open_or_create bakes a new segment full of zeros and renames it durably.
WriteExact(end, done) ==
  LET made == {s \in Touched(end) : dir[s] = "none"}
      named == [s \in Segs |-> IF s \in made THEN "partial" ELSE dir[s]]
      content == [u \in Units |-> IF st.write <= u /\ u < end THEN log[cf.hist][u] ELSE data[u]]
      base == IF made = {} THEN durable
              ELSE DirSynced(Synced(durable, UNION {UnitsOf(s) : s \in made},
                                    [u \in Units |-> 0]), named)
      unsynced == dirty \cup (st.write..(end - 1))
  IN  /\ dir' = [s \in Segs |-> IF s \in done THEN "complete" ELSE named[s]]
      /\ data' = content
      /\ dirty' = {u \in unsynced : Seg(u) \notin done}
      /\ durable' = Synced(base, {u \in unsynced : Seg(u) \in done}, content)

\* Records that end after the last one written, and the last one.
RecordsTo(end) == {e \in RecordEnds : st.writeRecord < e /\ e <= end} \cup {st.writeRecord}

Write(n) ==
  LET end == st.write + n
      done == Completed(end)
      flush == Max({(s + 1) * SegSize : s \in done} \cup {st.flush})
      decoding == IF st.decoder.at = st.write THEN st.decoder.ok ELSE st.write \in RecordEnds
      records == IF decoding THEN RecordsTo(end) ELSE {st.writeRecord}
  IN  /\ CanWrite(n)
      /\ WriteExact(end, done)
      /\ st' = [st EXCEPT !.write = end, !.writeRecord = Max(records), !.flush = flush,
                          !.flushRecord = Max({e \in records : e <= flush} \cup {@}),
                          !.decoder = [at |-> end, ok |-> decoding],
                          !.file = Seg(end - 1) \notin done]
      /\ UNCHANGED <<cfFile, cf, commit, op, log, budget>>

\* The write of a chunk fails after j of n units.  Chunks before it count as written,
\* the file is dropped.
WriteError(n, j) ==
  LET end == st.write + j
      failed == IF Seg(end) = Seg(st.write) THEN st.write ELSE Seg(end) * SegSize
      done == Completed(failed)
  IN  /\ CanWrite(n) /\ j < n
      /\ Spend("write")
      /\ WriteExact(end, done)
      /\ st' = [st EXCEPT !.write = failed, !.file = FALSE,
                          !.flush = IF done = {} THEN @ ELSE failed]
      /\ UNCHANGED <<cfFile, cf, commit, op, log>>

Sync(s) ==
  /\ durable' = Synced(durable, dirty \cap UnitsOf(s), data)
  /\ dirty' = dirty \ UnitsOf(s)

\* flush_wal; without an open file it fails and changes nothing.
Unflushed == st.flushRecord # st.writeRecord

FlushedStorage ==
  IF Unflushed /\ st.file THEN [st EXCEPT !.flush = st.write, !.flushRecord = st.writeRecord]
  ELSE st

FlushWal ==
  /\ op = Idle /\ Unflushed /\ st.file
  /\ Sync(Seg(st.write))
  /\ st' = FlushedStorage
  /\ UNCHANGED <<dir, data, cfFile, cf, commit, op, log, budget>>

FlushError ==
  /\ op = Idle /\ Unflushed /\ st.file
  /\ Spend("sync")
  /\ LoseDirty(Seg(st.write))
  /\ st' = [st EXCEPT !.file = FALSE]
  /\ UNCHANGED <<dir, data, cfFile, cf, commit, op, log>>

-----------------------------------------------------------------------------
(* FileStorage::persist: a temporary file, durable_rename, then memory *)

Persist(c) ==
  /\ cf' = c /\ cfFile' = c
  /\ durable' = [durable EXCEPT !.cf = c, !.dir = dir]

\* The directory could not be synced: the new file is visible, memory has the old one.
PersistError(c) ==
  /\ Spend("error")
  /\ cfFile' = c
  /\ UNCHANGED <<cf, durable>>

StartChange == [cf EXCEPT !.commit = commit]

\* update_commit_lsn.
AdvanceCommit(c) ==
  /\ op = Idle /\ c \in RecordEnds /\ commit < c /\ c <= st.flushRecord
  /\ commit' = c
  /\ UNCHANGED <<dir, data, dirty, durable, cfFile, cf, st, op, log, budget>>

\* A change of the persistent state: saved, or not.
Change(c) ==
  /\ op = Idle
  /\ \/ Persist(c) /\ UNCHANGED budget
     \/ PersistError(c)
  /\ UNCHANGED <<dir, data, dirty, commit, st, op, log>>

SaveState == StartChange # cf /\ Change(StartChange)

\* handle_vote_request in the next term, when there is nothing left to flush.
Vote ==
  /\ cf.term < MaxTerm /\ ~Unflushed
  /\ Change([StartChange EXCEPT !.term = @ + 1])

(***************************************************************************)
(* handle_elected in term t, truncating at end: raise the term, then       *)
(* truncate_wal, then adopt the history.  Each step is one effect on the   *)
(* disk.  The truncation point is where the WAL here diverges from that of *)
(* the term, which the first ProposerElected of the term settles.          *)
(***************************************************************************)
Diverges(t, end) ==
  /\ \A u \in Start..(end - 1) : data[u] = log[t][u]
  /\ end # st.flushRecord => data[end] # log[t][end]

Elected(t, end) ==
  /\ op = Idle /\ t \in {cf.term, cf.term + 1} /\ t \in 1..MaxTerm
  /\ end \in RecordEnds /\ commit <= end /\ end <= st.flushRecord
  /\ IF log[t][Start] = 0
     THEN log' = [log EXCEPT ![t] = [u \in Units |-> IF Start <= u /\ u < end THEN data[u] ELSE t]]
     ELSE Diverges(t, end) /\ UNCHANGED log
  /\ IF t > cf.term THEN Persist([StartChange EXCEPT !.term = t])
     ELSE UNCHANGED <<cf, cfFile, durable>>
  /\ op' = [step |-> "truncate", term |-> t, end |-> end]
  /\ UNCHANGED <<dir, data, dirty, commit, st, budget>>

NothingToTruncate == ~st.pending /\ op.end = st.write /\ op.end = st.flushRecord

TruncateWal ==
  /\ op.step = "truncate"
  /\ IF NothingToTruncate
     THEN op' = [op EXCEPT !.step = "persist"] /\ UNCHANGED <<st, durable, dirty>>
     ELSE /\ op' = [op EXCEPT !.step = "remove"]
          /\ st' = [st EXCEPT !.pending = TRUE, !.file = FALSE, !.write = op.end,
                              !.flush = op.end, !.writeRecord = op.end, !.flushRecord = op.end]
          /\ IF st.file THEN Sync(Seg(st.write)) ELSE UNCHANGED <<durable, dirty>>
  /\ UNCHANGED <<dir, data, cfFile, cf, commit, log, budget>>

\* remove_segments_from_disk, in the order of the directory; not synced.
Excess == {s \in Segs : s > Seg(op.end) /\ dir[s] # "none"}

RemoveSegment(s) ==
  /\ op.step = "remove" /\ s \in Excess
  /\ dir' = [dir EXCEPT ![s] = "none"]
  /\ data' = [u \in Units |-> IF Seg(u) = s THEN 0 ELSE data[u]]
  /\ dirty' = dirty \ UnitsOf(s)
  /\ UNCHANGED <<cfFile, durable, cf, commit, st, op, log, budget>>

\* The rest of the last segment is zeroed and synced.  It may have to be created.
ZeroEnd ==
  LET s == Seg(op.end)
      zeroed == [u \in Units |-> IF Seg(u) = s /\ u >= op.end THEN 0 ELSE data[u]]
  IN  /\ op.step = "remove" /\ Excess = {}
      /\ data' = zeroed
      /\ dirty' = dirty \ UnitsOf(s)
      /\ dir' = [dir EXCEPT ![s] = IF @ = "none" THEN "partial" ELSE @]
      /\ durable' = IF dir[s] = "none"
                    THEN DirSynced(Synced(durable, UnitsOf(s), zeroed), dir')
                    ELSE Synced(durable, {u \in UnitsOf(s) : u >= op.end \/ u \in dirty}, zeroed)
      /\ op' = [op EXCEPT !.step = IF dir[s] = "complete" THEN "rename" ELSE "persist"]
      /\ st' = [st EXCEPT !.pending = dir[s] = "complete"]
      /\ UNCHANGED <<cfFile, cf, commit, log, budget>>

\* The segment is cut, but could not be synced.
ZeroEndError ==
  /\ op.step = "remove" /\ Excess = {} /\ dir[Seg(op.end)] # "none"
  /\ Spend("error")
  /\ data' = [u \in Units |-> IF Seg(u) = Seg(op.end) /\ u >= op.end THEN 0 ELSE data[u]]
  /\ dirty' = dirty \cup {u \in UnitsOf(Seg(op.end)) : u >= op.end}
  /\ op' = Idle
  /\ UNCHANGED <<dir, cfFile, durable, cf, commit, st, log>>

RenameToPartial ==
  /\ op.step = "rename"
  /\ dir' = [dir EXCEPT ![Seg(op.end)] = "partial"]
  /\ st' = [st EXCEPT !.pending = FALSE]
  /\ op' = [op EXCEPT !.step = "persist"]
  /\ UNCHANGED <<data, dirty, cfFile, durable, cf, commit, log, budget>>

AdoptHistory ==
  /\ op.step = "persist"
  /\ \/ Persist([StartChange EXCEPT !.hist = op.term]) /\ UNCHANGED budget
     \/ PersistError([StartChange EXCEPT !.hist = op.term])
  /\ op' = Idle
  /\ UNCHANGED <<dir, data, dirty, commit, st, log>>

\* Any step of the truncation fails and handle_elected returns the error.
ElectedError ==
  /\ op.step \in {"truncate", "remove", "rename", "persist"}
  /\ Spend("error")
  /\ op' = Idle
  /\ UNCHANGED <<dir, data, dirty, cfFile, durable, cf, commit, st, log>>

-----------------------------------------------------------------------------

\* The process starts on what the file system shows: start_safekeeper calls syncfs,
\* then the timeline is loaded.
Started(control, names, d) ==
  /\ dir' = names /\ data' = d /\ cfFile' = control
  /\ durable' = [dir |-> names, cf |-> control,
                 data |-> [u \in Units |-> IF u \in dirty THEN d[u] ELSE durable.data[u]]]
  /\ dirty' = {}
  /\ cf' = control /\ commit' = control.commit
  /\ st' = Opened(control, names, d)
  /\ op' = Idle

Kill ==
  /\ Spend("crash")
  /\ Started(cfFile, dir, data)
  /\ UNCHANGED log

\* Of the unsynced names, the control file's included, and pages any may be lost.
HostCrash ==
  /\ Spend("crash")
  /\ \E N \in SUBSET {s \in Segs : dir[s] # durable.dir[s]},
        W \in SUBSET {u \in dirty : data[u] # durable.data[u]},
        control \in {cfFile, durable.cf} :
       LET names == [s \in Segs |-> IF s \in N THEN dir[s] ELSE durable.dir[s]]
           survives(u) == u \in W /\ names[Seg(u)] # "none"
       IN  Started(control, names,
             [u \in Units |-> IF names[Seg(u)] = "none" THEN 0
                              ELSE IF survives(u) THEN data[u] ELSE durable.data[u]])
  /\ UNCHANGED log

Next ==
  \/ \E n \in 1..MaxLsn : Write(n) \/ \E j \in 0..n : WriteError(n, j)
  \/ FlushWal \/ FlushError
  \/ \E c \in RecordEnds : AdvanceCommit(c)
  \/ SaveState \/ Vote
  \/ \E t \in Terms, end \in RecordEnds : Elected(t, end)
  \/ TruncateWal
  \/ \E s \in Segs : RemoveSegment(s)
  \/ ZeroEnd \/ ZeroEndError \/ RenameToPartial \/ AdoptHistory \/ ElectedError
  \/ Kill \/ HostCrash

Spec == Init /\ [][Next]_vars

-----------------------------------------------------------------------------
\* "write_lsn >= write_record_lsn >= flush_record_lsn" (PhysicalStorage), whatever
\* writes, flushes and truncations fail in between; and nothing below commit_lsn is cut.
LsnOrder ==
  /\ st.write >= st.writeRecord /\ st.writeRecord >= st.flushRecord
  /\ st.flush >= st.flushRecord
  /\ st.flushRecord >= commit /\ commit >= cf.commit

NoWriteFailed == budget.write = MaxWriteErrors
NoSyncFailed == budget.sync = MaxSyncErrors

\* Unless an fdatasync has failed, flush_lsn is durable: whatever the disk loses of what was not
\* synced, in whichever order, the WAL below flush_lsn() and the segments it is in stay.  It is
\* what append_response acknowledges.  After a failed fdatasync the pages count as clean, and
\* the flush that succeeds next does not write them.
FlushedIsDurable ==
  NoSyncFailed =>
  \A u \in Start..(st.flushRecord - 1) :
    data[u] # 0 /\ durable.data[u] = data[u] /\ durable.dir[Seg(u)] # "none"

\* Unless a write of WAL or an fdatasync has failed, the WAL a safekeeper has, and finds after a
\* restart, is WAL of the history in its control file: a truncation that was interrupted, or whose removed
\* segments come back after a crash, never lets find_end_of_wal append records of an older term
\* to it ("it might form bogus WAL", truncate_wal).  What a failed write has left beyond
\* write_lsn a truncation at write_lsn does not remove.
NoBogusWal ==
  NoWriteFailed /\ NoSyncFailed => \A u \in Start..(st.write - 1) : data[u] = log[cf.hist][u]

\* A write finds its segment unfinished and the next ones absent: the assertion of
\* write_in_segment holds, also after truncations into a completed segment.
WritesIntoPartial ==
  op = Idle /\ ~st.pending =>
    /\ dir[Seg(st.write)] # "complete"
    /\ \A s \in Segs : s > Seg(st.write) => dir[s] = "none"

\* Unless an fdatasync has failed, a restart never reports a lower flush_lsn than was acknowledged
\* before.
RestartKeepsFlushLsn == NoSyncFailed /\ (Kill \/ HostCrash) => st'.flushRecord >= st.flushRecord

=============================================================================
