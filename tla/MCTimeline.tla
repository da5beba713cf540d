----------------------------- MODULE MCTimeline -----------------------------
(***************************************************************************)
(* A timeline of a pageserver, for TLC: flushes of its in-memory layers,   *)
(* reads in the middle of compactions, garbage collection.  Every          *)
(* behaviour runs one component, with the constants of one scenario.       *)
(***************************************************************************)
EXTENDS Integers

\* LayerFlush
VARIABLES data, dels, last, open, next, frozen, lastFreeze, wstate, hold, client, start, done,
          loop, disk, stored, index, l0, compaction, cancelled, panic, bounds

flushesVars == <<data, dels, last, open, next, frozen, lastFreeze, wstate, hold, client, start,
                 done, loop, disk, stored, index, l0, compaction, cancelled, panic, bounds>>

\* LayerReads
VARIABLES hist, nextOpen, hasOpen, frozenLayers, layers, cutoff, partLsn, job, collector, read

layersVars == <<hist, nextOpen, hasOpen, frozenLayers, layers, cutoff, partLsn, job, collector,
                read>>

\* Gc
VARIABLES lastRecord, diskLsn, images, deltas, applied, planned, leases, expired, hasty, grace, gcCs,
          child, reader, gc, standby, indexPart, restarts, reports

garbageVars == <<lastRecord, diskLsn, images, deltas, applied, planned, leases, expired, hasty, grace,
                 gcCs, child, reader, gc, standby, indexPart, restarts, reports>>

VARIABLE scenario   \* what this behaviour runs

-----------------------------------------------------------------------------
(* Scenarios *)

Ingest ==
  INSTANCE LayerFlush WITH
    MaxRecords <- 3, Sharded <- TRUE, Empties <- 1, MaxErrors <- 0, MaxRestarts <- 1,
    CompactionBreaks <- FALSE, Shutdowns <- FALSE, Deletions <- FALSE, MaxBatch <- 2,
    MaxPending <- 5, CompactionThreshold <- 1, StallThreshold <- 1

Failing ==
  INSTANCE LayerFlush WITH
    MaxRecords <- 2, Sharded <- TRUE, Empties <- 2, MaxErrors <- 1, MaxRestarts <- 1,
    CompactionBreaks <- FALSE, Shutdowns <- FALSE, Deletions <- TRUE, MaxBatch <- 2,
    MaxPending <- 5, CompactionThreshold <- 1, StallThreshold <- 1

Single ==
  INSTANCE LayerFlush WITH
    MaxRecords <- 2, Sharded <- FALSE, Empties <- 1, MaxErrors <- 1, MaxRestarts <- 0,
    CompactionBreaks <- FALSE, Shutdowns <- FALSE, Deletions <- TRUE, MaxBatch <- 2,
    MaxPending <- 5, CompactionThreshold <- 1, StallThreshold <- 0

Compacted ==
  INSTANCE LayerReads WITH
    NKeys <- 1, MaxRecords <- 4, MaxImages <- 0, Jobs <- {"l0", "gc"}

Imaged ==
  INSTANCE LayerReads WITH
    NKeys <- 1, MaxRecords <- 3, MaxImages <- 1, Jobs <- {"image", "gc"}

AllJobs ==
  INSTANCE LayerReads WITH
    NKeys <- 1, MaxRecords <- 2, MaxImages <- 1, Jobs <- {"l0", "image", "gc"}

GcCompacted ==
  INSTANCE LayerReads WITH
    NKeys <- 2, MaxRecords <- 2, MaxImages <- 0, Jobs <- {"gc", "gccompact"}

Requests ==
  INSTANCE Gc WITH
    Keys <- {1}, MaxLsn <- 3, Branches <- {}, Readers <- {"request"}, MaxRestarts <- 0,
    MaxStandby <- 1, MaxLeases <- 0, MaxBatch <- 2, MaxStandbyLag <- 2

Leases ==
  INSTANCE Gc WITH
    Keys <- {1}, MaxLsn <- 3, Branches <- {}, Readers <- {"request"}, MaxRestarts <- 0,
    MaxStandby <- 0, MaxLeases <- 1, MaxBatch <- 1, MaxStandbyLag <- 2

WithBranch ==
  INSTANCE Gc WITH
    Keys <- {1}, MaxLsn <- 3, Branches <- {"branch"}, Readers <- {}, MaxRestarts <- 1,
    MaxStandby <- 0, MaxLeases <- 0, MaxBatch <- 1, MaxStandbyLag <- 2

ASSUME ScenariosAssumption ==
  /\ Ingest!BoundsAssumption /\ Failing!BoundsAssumption /\ Single!BoundsAssumption
  /\ Compacted!LRAssumption /\ Imaged!LRAssumption /\ AllJobs!LRAssumption
  /\ GcCompacted!LRAssumption /\ Requests!BoundsAssumption
  /\ Leases!BoundsAssumption /\ WithBranch!BoundsAssumption

-----------------------------------------------------------------------------
(* One component runs, the variables of the others are off. *)

Off == "off"

FlushesOff ==
  /\ data = Off /\ dels = Off /\ last = Off /\ open = Off /\ next = Off /\ frozen = Off
  /\ lastFreeze = Off /\ wstate = Off /\ hold = Off /\ client = Off /\ start = Off
  /\ done = Off /\ loop = Off /\ disk = Off /\ stored = Off /\ index = Off /\ l0 = Off
  /\ compaction = Off /\ cancelled = Off /\ panic = Off /\ bounds = Off

LayersOff ==
  /\ hist = Off /\ nextOpen = Off /\ hasOpen = Off /\ frozenLayers = Off /\ layers = Off
  /\ cutoff = Off /\ partLsn = Off /\ job = Off /\ collector = Off /\ read = Off

GarbageOff ==
  /\ lastRecord = Off /\ diskLsn = Off /\ images = Off /\ deltas = Off /\ applied = Off
  /\ planned = Off /\ leases = Off /\ expired = Off /\ hasty = Off /\ grace = Off /\ gcCs = Off
  /\ child = Off /\ reader = Off /\ gc = Off /\ standby = Off /\ indexPart = Off
  /\ restarts = Off /\ reports = Off

SuiteInit ==
  \/ /\ \/ scenario = "flush" /\ Ingest!Init
        \/ scenario = "flush_errors" /\ Failing!Init
        \/ scenario = "flush_single" /\ Single!Init
     /\ LayersOff /\ GarbageOff
  \/ /\ \/ scenario = "compaction" /\ Compacted!Init
        \/ scenario = "images" /\ Imaged!Init
        \/ scenario = "all_jobs" /\ AllJobs!Init
        \/ scenario = "gc_compaction" /\ GcCompacted!Init
     /\ FlushesOff /\ GarbageOff
  \/ /\ \/ scenario = "requests" /\ Requests!Init
        \/ scenario = "leases" /\ Leases!Init
        \/ scenario = "branches" /\ WithBranch!Init
     /\ FlushesOff /\ LayersOff

suiteVars == <<flushesVars, layersVars, garbageVars, scenario>>

SuiteNext ==
  /\ UNCHANGED scenario
  /\ \/ /\ \/ scenario = "flush" /\ Ingest!Next
           \/ scenario = "flush_errors" /\ Failing!Next
           \/ scenario = "flush_single" /\ Single!Next
        /\ UNCHANGED <<layersVars, garbageVars>>
     \/ /\ \/ scenario = "compaction" /\ Compacted!Next
           \/ scenario = "images" /\ Imaged!Next
           \/ scenario = "all_jobs" /\ AllJobs!Next
           \/ scenario = "gc_compaction" /\ GcCompacted!Next
        /\ UNCHANGED <<flushesVars, garbageVars>>
     \/ /\ \/ scenario = "requests" /\ Requests!Next
           \/ scenario = "leases" /\ Leases!Next
           \/ scenario = "branches" /\ WithBranch!Next
        /\ UNCHANGED <<flushesVars, layersVars>>

SuiteSpec == SuiteInit /\ [][SuiteNext]_suiteVars

-----------------------------------------------------------------------------
(* Properties *)

\* The write path and the flush loop, with flushes that fail, a layer flushed before its freeze
\* is announced, records without data, key ranges deleted, and the process killed anywhere:
\* disk_consistent_lsn covers no record that is not in a layer on disk, and no record up to
\* last_record_lsn is out of reach of reads.  Where no key ranges are deleted the in-memory layers
\* follow each other without a gap.  An assertion fails only in the cases PanicsAreKnown lists.
FlushesAreSound ==
  /\ scenario = "flush" =>
       /\ Ingest!TypeOK /\ Ingest!PanicsAreKnown /\ Ingest!DiskIsComplete
       /\ Ingest!NothingOutOfReach /\ Ingest!MemoryIsContiguous
  /\ scenario = "flush_errors" =>
       /\ Failing!PanicsAreKnown /\ Failing!DiskIsComplete
       /\ Failing!NothingOutOfReach /\ Failing!MemoryIsContiguous
  /\ scenario = "flush_single" =>
       /\ Single!PanicsAreKnown /\ Single!DiskIsComplete
       /\ Single!NothingOutOfReach /\ Single!MemoryIsContiguous

\* freeze_and_flush that returns Ok while the timeline lives has put everything that was
\* ingested before the call on disk, also when it was the flush of somebody else that it waited for.
OkMeansFlushed ==
  [][/\ scenario = "flush" => Ingest!OkIsFlushed
     /\ scenario = "flush_errors" => Failing!OkIsFlushed
     /\ scenario = "flush_single" => Single!OkIsFlushed]_suiteVars

\* Whatever flush, compaction, gc-compaction and garbage collection do to the layer map in the
\* middle of a read, the read gets every change of its key once; except for a read that started
\* while garbage collection waited for earlier ones and that an image layer overtook before the
\* garbage was chosen.  No two delta layers hold the same part of the history of a key.
LayerMapServesReads ==
  /\ scenario = "compaction" => /\ Compacted!TypeOK /\ Compacted!ReadsAreExact
                                /\ Compacted!DeltasDoNotOverlap
  /\ scenario = "images" => Imaged!ReadsAreExact /\ Imaged!DeltasDoNotOverlap
  /\ scenario = "all_jobs" => AllJobs!ReadsAreExact /\ AllJobs!DeltasDoNotOverlap
  /\ scenario = "gc_compaction" => GcCompacted!ReadsAreExact /\ GcCompacted!DeltasDoNotOverlap

\* Garbage collection removes nothing that is still read: by a request that keeps its guard of the
\* cutoff, or whose LSN is not below the cutoff when it is executed; by a lease or a branch; by the
\* pageserver after a restart.  Excepted is what only the time before lsn_lease_deadline let through
\* below the cutoff, and leases it let through in the middle of an iteration.
GarbageIsUnused ==
  /\ scenario = "requests" => Requests!TypeOK /\ Requests!RequestsServed
  /\ scenario = "leases" => Leases!RequestsServed /\ Leases!LeasesServed /\ Leases!IndexServed
  /\ scenario = "branches" => /\ WithBranch!BranchesServed /\ WithBranch!LeasesServed
                              /\ WithBranch!IndexServed

=============================================================================
