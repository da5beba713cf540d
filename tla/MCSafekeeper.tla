---------------------------- MODULE MCSafekeeper ----------------------------
(***************************************************************************)
(* What happens to WAL on one safekeeper, for TLC: its files, its backup,  *)
(* partial backup and eviction, its way to the shards of a pageserver.     *)
(* Every behaviour runs one component, with the constants of one scenario. *)
(***************************************************************************)
EXTENDS Integers

CONSTANTS c1, c2, r1

\* WalStorage
VARIABLES dir, data, cfFile, dirty, durable, cf, commit, st, op, log, budget

storageVars == <<dir, data, cfFile, dirty, durable, cf, commit, st, op, log, budget>>

\* WalBackup
VARIABLES start, flush, files, mem, cfile, changed, peers, task, removed, remover, remote,
          committed, consumed, restarts, fails, silences, saves, reads

backupVars == <<start, flush, files, mem, cfile, changed, peers, task, removed, remover, remote,
                committed, consumed, restarts, fails, silences, saves, reads>>

\* PartialBackup
VARIABLES lines, truth, term, agreed, commitLsn, served, trimmed, segment, present, control,
          bucket, uploader, uploaded, resident, mgr, leaked, kills, faults, resets

partialVars == <<lines, truth, term, agreed, commitLsn, served, trimmed, segment, present,
                 control, bucket, uploader, uploaded, resident, mgr, leaked, kills, faults, resets>>

\* InterpretedWal
VARIABLES wal, reader, conn

interpretedVars == <<wal, reader, conn>>

VARIABLE scenario   \* what this behaviour runs

-----------------------------------------------------------------------------
(* Scenarios *)

Storage ==
  INSTANCE WalStorage WITH
    Start <- 1, MaxLsn <- 7, SegSize <- 3, RecordEnds <- {1, 2, 4, 6, 7}, MaxTerm <- 2,
    MaxCrashes <- 2, MaxErrors <- 1, MaxWriteErrors <- 0, MaxSyncErrors <- 0

StorageErrors ==
  INSTANCE WalStorage WITH
    Start <- 1, MaxLsn <- 5, SegSize <- 3, RecordEnds <- {1, 2, 4, 5}, MaxTerm <- 2,
    MaxCrashes <- 1, MaxErrors <- 1, MaxWriteErrors <- 1, MaxSyncErrors <- 1

Offload ==
  INSTANCE WalBackup WITH
    Safekeepers <- {1, 2}, Late <- {}, Quorum <- 1, Computes <- {}, SegSize <- 1,
    MaxLsn <- 3, FirstFlush <- 3, ParallelJobs <- 2, MaxLag <- 1, MaxReelectLag <- 0,
    TimelineId <- 0, MaxRestarts <- 0, MaxFails <- 0, MaxSilence <- 1, MaxSaves <- 0,
    MaxReads <- 0

Removal ==
  INSTANCE WalBackup WITH
    Safekeepers <- {1}, Late <- {}, Quorum <- 1, Computes <- {}, SegSize <- 1, MaxLsn <- 3,
    FirstFlush <- 2, ParallelJobs <- 2, MaxLag <- 1, MaxReelectLag <- 0, TimelineId <- 0,
    MaxRestarts <- 2, MaxFails <- 1, MaxSilence <- 0, MaxSaves <- 2, MaxReads <- 2

LateJoin ==
  INSTANCE WalBackup WITH
    Safekeepers <- {1, 2}, Late <- {1}, Quorum <- 1, Computes <- {}, SegSize <- 2,
    MaxLsn <- 4, FirstFlush <- 4, ParallelJobs <- 1, MaxLag <- 4, MaxReelectLag <- 0,
    TimelineId <- 0, MaxRestarts <- 0, MaxFails <- 0, MaxSilence <- 0, MaxSaves <- 0,
    MaxReads <- 0

Partial ==
  INSTANCE PartialBackup WITH
    MaxTerm <- 2, MaxWal <- 2, MaxRestarts <- 0, MaxFails <- 0, MaxResets <- 0,
    MaxSegments <- 1, DeleteWal <- TRUE

Terms ==
  INSTANCE PartialBackup WITH
    MaxTerm <- 3, MaxWal <- 1, MaxRestarts <- 1, MaxFails <- 0, MaxResets <- 0,
    MaxSegments <- 1, DeleteWal <- TRUE

Reset ==
  INSTANCE PartialBackup WITH
    MaxTerm <- 2, MaxWal <- 1, MaxRestarts <- 1, MaxFails <- 1, MaxResets <- 1,
    MaxSegments <- 1, DeleteWal <- FALSE

Fanout ==
  INSTANCE InterpretedWal WITH
    Conns <- {c1, c2}, Readers <- {r1}, Shards <- {0, 1}, NRecords <- 2, MaxDelta <- 9,
    Errors <- FALSE

ASSUME ScenariosAssumption ==
  /\ Storage!DiskAssumption /\ StorageErrors!DiskAssumption /\ Offload!WalBackupAssumption
  /\ Removal!WalBackupAssumption /\ LateJoin!WalBackupAssumption /\ Partial!BoundsAssumption
  /\ Terms!BoundsAssumption /\ Reset!BoundsAssumption /\ Fanout!IWAssumption

-----------------------------------------------------------------------------
(* One component runs, the variables of the others are off. *)

Off == "off"

StorageOff ==
  /\ dir = Off /\ data = Off /\ cfFile = Off /\ dirty = Off /\ durable = Off /\ cf = Off
  /\ commit = Off /\ st = Off /\ op = Off /\ log = Off /\ budget = Off

BackupOff ==
  /\ start = Off /\ flush = Off /\ files = Off /\ mem = Off /\ cfile = Off /\ changed = Off
  /\ peers = Off /\ task = Off /\ removed = Off /\ remover = Off /\ remote = Off
  /\ committed = Off /\ consumed = Off /\ restarts = Off /\ fails = Off /\ silences = Off
  /\ saves = Off /\ reads = Off

PartialOff ==
  /\ lines = Off /\ truth = Off /\ term = Off /\ agreed = Off /\ commitLsn = Off
  /\ served = Off /\ trimmed = Off /\ segment = Off /\ present = Off /\ control = Off /\ bucket = Off /\ uploader = Off
  /\ uploaded = Off /\ resident = Off /\ mgr = Off /\ leaked = Off /\ kills = Off
  /\ faults = Off /\ resets = Off

InterpretedOff ==
  /\ wal = Off /\ reader = Off /\ conn = Off

SuiteInit ==
  \/ /\ \/ scenario = "storage" /\ Storage!Init
        \/ scenario = "storage_errors" /\ StorageErrors!Init
     /\ BackupOff /\ PartialOff /\ InterpretedOff
  \/ /\ \/ scenario = "offload" /\ Offload!Init
        \/ scenario = "removal" /\ Removal!Init
        \/ scenario = "late" /\ LateJoin!Init
     /\ StorageOff /\ PartialOff /\ InterpretedOff
  \/ /\ \/ scenario = "partial" /\ Partial!Init
        \/ scenario = "terms" /\ Terms!Init
        \/ scenario = "reset" /\ Reset!Init
     /\ StorageOff /\ BackupOff /\ InterpretedOff
  \/ /\ scenario = "fanout" /\ Fanout!Init
     /\ StorageOff /\ BackupOff /\ PartialOff

suiteVars == <<storageVars, backupVars, partialVars, interpretedVars, scenario>>

SuiteNext ==
  /\ UNCHANGED scenario
  /\ \/ /\ \/ scenario = "storage" /\ Storage!Next
           \/ scenario = "storage_errors" /\ StorageErrors!Next
        /\ UNCHANGED <<backupVars, partialVars, interpretedVars>>
     \/ /\ \/ scenario = "offload" /\ Offload!Next
           \/ scenario = "removal" /\ Removal!Next
           \/ scenario = "late" /\ LateJoin!Next
        /\ UNCHANGED <<storageVars, partialVars, interpretedVars>>
     \/ /\ \/ scenario = "partial" /\ Partial!Next
           \/ scenario = "terms" /\ Terms!Next
           \/ scenario = "reset" /\ Reset!Next
        /\ UNCHANGED <<storageVars, backupVars, interpretedVars>>
     \/ /\ scenario = "fanout" /\ Fanout!Next
        /\ UNCHANGED <<storageVars, backupVars, partialVars>>

SuiteSpec == SuiteInit /\ [][SuiteNext]_suiteVars

-----------------------------------------------------------------------------
(* Properties *)

\* PhysicalStorage, wherever it is stopped and whichever truncation or save of the control file
\* fails: unless an fdatasync has failed, what was acknowledged is durable; unless a write or an
\* fdatasync has, the WAL is that of the history in the control file; and after any of these
\* errors the LSNs are in order and writes find the segment that they expect.
WalOnDiskIsSound ==
  /\ scenario = "storage" => /\ Storage!FlushedIsDurable /\ Storage!NoBogusWal
                             /\ Storage!LsnOrder /\ Storage!WritesIntoPartial
  /\ scenario = "storage_errors" => /\ StorageErrors!FlushedIsDurable /\ StorageErrors!NoBogusWal
                                    /\ StorageErrors!LsnOrder /\ StorageErrors!WritesIntoPartial

\* Unless an fdatasync has failed, a restart, of the process or of the host, never brings flush_lsn
\* back below what was acknowledged before.
FlushLsnSurvives ==
  [][/\ scenario = "storage" => Storage!RestartKeepsFlushLsn
     /\ scenario = "storage_errors" => StorageErrors!RestartKeepsFlushLsn]_suiteVars

\* Offloading and removal, by whichever safekeeper: no hole in the backup, no segment with
\* zeros in front, committed WAL readable from local files or remote storage, and the segment a
\* start looks into is there.
BackupAndRemovalLoseNothing ==
  /\ scenario = "offload" => Offload!TypeOK /\ Offload!BackupHasNoHoles
  /\ scenario = "removal" => Removal!CommittedIsReadable /\ Removal!CanStart
  /\ scenario = "late" => LateJoin!UploadsAreWhole

\* Partial backup and eviction, while proposers of three terms truncate and rewrite the segment and
\* the process is killed: an evicted timeline can be brought back whole, a timeline that is there
\* has all the WAL it acknowledged, the object the control file calls Uploaded is there, and no
\* object is forgotten.
EvictionLosesNothing ==
  /\ scenario = "partial" => /\ Partial!TypeOK /\ Partial!UploadedIsThere
                             /\ Partial!EvictionLosesNothing /\ Partial!NothingLeaks
  /\ scenario = "terms" => /\ Terms!UploadedIsThere /\ Terms!EvictionLosesNothing
                           /\ Terms!NothingLeaks
  /\ scenario = "reset" => Reset!EvictionLosesNothing /\ Reset!NothingLeaks

\* The interpreted WAL sender: shards that share a reader, and make it go back, get each of
\* their records once, in order, and none is passed over.
ShardsGetTheirWal ==
  scenario = "fanout" => /\ Fanout!TypeOK /\ Fanout!NoAlarm
                         /\ Fanout!EachRecordOnce /\ Fanout!NothingSkipped

=============================================================================
