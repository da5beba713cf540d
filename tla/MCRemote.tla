------------------------------ MODULE MCRemote ------------------------------
(***************************************************************************)
(* What keeps the remote objects of a tenant shard whole, for TLC: the     *)
(* upload queue, the deletion queue with its generations, and the storage  *)
(* controller that issues them.  Every behaviour runs one component, with  *)
(* the constants of one scenario.                                          *)
(***************************************************************************)
EXTENDS Integers

\* UploadQueue
VARIABLES uq, stopped, tasks, block, draining, remote, remoteIndex, delq, written, unlinked,
          intended, past, budget

uploadVars == <<uq, stopped, tasks, block, draining, remote, remoteIndex, delq, written,
                unlinked, intended, past, budget>>

\* DeletionQueue
VARIABLES ctl, grants, objects, indexes, tenant, local, queue, produced, errors

deletionVars == <<ctl, grants, objects, indexes, tenant, local, queue, produced, errors>>

\* Reconciler
VARIABLES db, loc, slot, wire, late, up, issued, answer, m, reconcilers, results, hook, told, bg, bgerr,
          faults, migrations, offlines, crashes, restarts

controllerVars == <<db, loc, slot, wire, late, up, issued, answer, m, reconcilers, results, hook, told, bg,
                    bgerr, faults, migrations, offlines, crashes, restarts>>

VARIABLE scenario   \* what this behaviour runs

-----------------------------------------------------------------------------
(* Scenarios *)

Uploads ==
  INSTANCE UploadQueue WITH
    Old <- {"a", "o"}, Ancestor <- {"a"}, New <- {"x", "y"}, Recreate <- {},
    InprogressLimit <- 2, MaxOps <- 4, MaxErrors <- 1, MaxToggles <- 0

Again ==
  INSTANCE UploadQueue WITH
    Old <- {}, Ancestor <- {}, New <- {"x"}, Recreate <- {"x"}, InprogressLimit <- 0,
    MaxOps <- 6, MaxErrors <- 1, MaxToggles <- 0

Blocked ==
  INSTANCE UploadQueue WITH
    Old <- {}, Ancestor <- {}, New <- {"x"}, Recreate <- {"x"}, InprogressLimit <- 1,
    MaxOps <- 5, MaxErrors <- 1, MaxToggles <- 2

Deletions ==
  INSTANCE DeletionQueue WITH
    Nodes <- {"n1", "n2"}, FirstNode <- "n1", MaxGen <- 2, MaxLayers <- 3,
    ProcessLsnUpdates <- TRUE, MaxErrors <- 1

Multi ==
  INSTANCE DeletionQueue WITH
    Nodes <- {"n1", "n2"}, FirstNode <- "n1", MaxGen <- 3, MaxLayers <- 3,
    ProcessLsnUpdates <- FALSE, MaxErrors <- 0

Migrations ==
  INSTANCE Reconciler WITH
    Nodes <- {"n1", "n2"}, NoNode <- "", SecondaryCount <- 1, MaxGen <- 6, MaxFaults <- 2,
    MaxMigrations <- 2, MaxOfflines <- 0, MaxCrashes <- 0, MaxRestarts <- 0

Offlines ==
  INSTANCE Reconciler WITH
    Nodes <- {"n1", "n2", "n3"}, NoNode <- "", SecondaryCount <- 1, MaxGen <- 5,
    MaxFaults <- 1, MaxMigrations <- 1, MaxOfflines <- 1, MaxCrashes <- 0, MaxRestarts <- 0

Crashes ==
  INSTANCE Reconciler WITH
    Nodes <- {"n1", "n2"}, NoNode <- "", SecondaryCount <- 1, MaxGen <- 3, MaxFaults <- 1,
    MaxMigrations <- 1, MaxOfflines <- 1, MaxCrashes <- 1, MaxRestarts <- 0

Restarts ==
  INSTANCE Reconciler WITH
    Nodes <- {"n1", "n2"}, NoNode <- "", SecondaryCount <- 1, MaxGen <- 4, MaxFaults <- 1,
    MaxMigrations <- 1, MaxOfflines <- 0, MaxCrashes <- 0, MaxRestarts <- 1

BothRestart ==
  INSTANCE Reconciler WITH
    Nodes <- {"n1", "n2"}, NoNode <- "", SecondaryCount <- 1, MaxGen <- 4, MaxFaults <- 1,
    MaxMigrations <- 0, MaxOfflines <- 0, MaxCrashes <- 1, MaxRestarts <- 1

ASSUME ScenariosAssumption ==
  /\ Uploads!UploadAssumption /\ Again!UploadAssumption /\ Blocked!UploadAssumption
  /\ Deletions!QueueAssumption /\ Multi!QueueAssumption /\ Migrations!ReconcilerAssumption
  /\ Offlines!ReconcilerAssumption /\ Crashes!ReconcilerAssumption
  /\ Restarts!ReconcilerAssumption /\ BothRestart!ReconcilerAssumption

-----------------------------------------------------------------------------
(* One component runs, the variables of the others are off. *)

Off == "off"

UploadOff ==
  /\ uq = Off /\ stopped = Off /\ tasks = Off /\ block = Off /\ draining = Off
  /\ remote = Off /\ remoteIndex = Off /\ delq = Off /\ written = Off /\ unlinked = Off
  /\ intended = Off /\ past = Off /\ budget = Off

DeletionOff ==
  /\ ctl = Off /\ grants = Off /\ objects = Off /\ indexes = Off /\ tenant = Off
  /\ local = Off /\ queue = Off /\ produced = Off /\ errors = Off

ControllerOff ==
  /\ db = Off /\ loc = Off /\ slot = Off /\ wire = Off /\ late = Off /\ up = Off
  /\ issued = Off /\ answer = Off
  /\ m = Off /\ reconcilers = Off /\ results = Off /\ hook = Off /\ told = Off /\ bg = Off
  /\ bgerr = Off /\ faults = Off /\ migrations = Off /\ offlines = Off /\ crashes = Off
  /\ restarts = Off

SuiteInit ==
  \/ /\ \/ scenario = "upload" /\ Uploads!Init
        \/ scenario = "upload_again" /\ Again!Init
        \/ scenario = "upload_blocked" /\ Blocked!Init
     /\ DeletionOff /\ ControllerOff
  \/ /\ \/ scenario = "deletion" /\ Deletions!Init
        \/ scenario = "deletion_multi" /\ Multi!Init
     /\ UploadOff /\ ControllerOff
  \/ /\ \/ scenario = "migrate" /\ Migrations!Init
        \/ scenario = "offline" /\ Offlines!Init
        \/ scenario = "crash" /\ Crashes!Init
        \/ scenario = "restart" /\ Restarts!Init
        \/ scenario = "both_restart" /\ BothRestart!Init
     /\ UploadOff /\ DeletionOff

suiteVars == <<uploadVars, deletionVars, controllerVars, scenario>>

SuiteNext ==
  /\ UNCHANGED scenario
  /\ \/ /\ \/ scenario = "upload" /\ Uploads!Next
           \/ scenario = "upload_again" /\ Again!Next
           \/ scenario = "upload_blocked" /\ Blocked!Next
        /\ UNCHANGED <<deletionVars, controllerVars>>
     \/ /\ \/ scenario = "deletion" /\ Deletions!Next
           \/ scenario = "deletion_multi" /\ Multi!Next
        /\ UNCHANGED <<uploadVars, controllerVars>>
     \/ /\ \/ scenario = "migrate" /\ Migrations!Next
           \/ scenario = "offline" /\ Offlines!Next
           \/ scenario = "crash" /\ Crashes!Next
           \/ scenario = "restart" /\ Restarts!Next
           \/ scenario = "both_restart" /\ BothRestart!Next
        /\ UNCHANGED <<uploadVars, deletionVars>>

SuiteSpec == SuiteInit /\ [][SuiteNext]_suiteVars

-----------------------------------------------------------------------------
(* Properties *)

\* The upload queue, in spite of reordering, coalescing, requests that fail and deletions that are held:
\* no task touches a layer that an index refers to, the index in remote storage names layers that
\* exist, wait_completion and shutdown() mean what they say, and the result is that of the operations
\* one by one.  A path that is deleted and written again is excepted when another one was too, when
\* the deletion queue could not be flushed before it, or when deletions were blocked or unblocked
\* (UploadQueue!Unsafe).
UploadsAreInOrder ==
  /\ scenario = "upload" => /\ Uploads!ModifiedIsUnreferenced /\ Uploads!IndexedLayersExist
                            /\ Uploads!BarrierIsDurable /\ Uploads!InOrderResult
                            /\ Uploads!ShutdownDrains
  /\ scenario = "upload_again" => /\ Again!ModifiedIsUnreferenced /\ Again!IndexedLayersExist
                                  /\ Again!BarrierIsDurable /\ Again!InOrderResult
                                  /\ Again!ShutdownDrains
  /\ scenario = "upload_blocked" => /\ Blocked!ModifiedIsUnreferenced /\ Blocked!IndexedLayersExist
                                    /\ Blocked!BarrierIsDurable /\ Blocked!InOrderResult
                                    /\ Blocked!ShutdownDrains

\* Generations and the deletion queue: whatever pageservers of older generations still do, what an
\* attachment loads exists, no remote_consistent_lsn that it does not have is advertised, and
\* lists are neither overwritten nor executed without validation.
DeletionsAreValid ==
  /\ scenario = "deletion" => /\ Deletions!IndexedLayersExist /\ Deletions!VisibleLsnIsLoadable
                              /\ Deletions!HeaderCoversValidLists /\ Deletions!SequenceIsFresh
  /\ scenario = "deletion_multi" => /\ Multi!IndexedLayersExist /\ Multi!HeaderCoversValidLists
                                    /\ Multi!SequenceIsFresh

\* Generations of a shard, whatever calls fail, arrive late or are made again, whichever nodes go
\* offline, and through restarts of pageservers and controller: no two pageservers write with one
\* generation, only the one in the database row writes with the latest, and no generation is in use
\* that the database has not issued.
OneWriterOfAShard ==
  /\ scenario = "migrate" => /\ Migrations!TypeOK /\ Migrations!OneWriterPerGeneration
                             /\ Migrations!LatestWriterIsTheRow
  /\ scenario = "offline" => /\ Offlines!TypeOK /\ Offlines!OneWriterPerGeneration
                             /\ Offlines!LatestWriterIsTheRow
  /\ scenario = "crash" => /\ Crashes!TypeOK /\ Crashes!OneWriterPerGeneration
                           /\ Crashes!LatestWriterIsTheRow
  /\ scenario = "restart" => /\ Restarts!TypeOK /\ Restarts!OneWriterPerGeneration
                             /\ Restarts!LatestWriterIsTheRow
  /\ scenario = "both_restart" => /\ BothRestart!TypeOK /\ BothRestart!OneWriterPerGeneration
                                  /\ BothRestart!LatestWriterIsTheRow

\* As long as no request is carried out after its caller has given it up: when nothing is left to do
\* the compute uses the intended pageserver, which is attached for writing, unless calls have failed, a
\* pageserver has re-attached and a node went offline or the controller restarted; and while no node
\* went offline and no pageserver restarted, the one that the compute uses is attached at all times.
ComputeIsServed ==
  /\ scenario = "migrate" => Migrations!QuietIsRight /\ Migrations!ToldIsAttached
  /\ scenario = "offline" => Offlines!QuietIsRight /\ Offlines!ToldIsAttached
  /\ scenario = "crash" => Crashes!QuietIsRight /\ Crashes!ToldIsAttached
  /\ scenario = "restart" => Restarts!QuietIsRight /\ Restarts!ToldIsAttached
  /\ scenario = "both_restart" => BothRestart!QuietIsRight /\ BothRestart!ToldIsAttached

\* The index in remote storage is never replaced by an older one, nor by one without the deletion
\* mark of its timeline, whichever uploads run, fail and are tried again.
IndexGoesForward ==
  [][/\ scenario = "upload" => Uploads!IndexKeepsUp
     /\ scenario = "upload_again" => Again!IndexKeepsUp
     /\ scenario = "upload_blocked" => Blocked!IndexKeepsUp]_suiteVars

\* The file of a deletion list goes only when its objects are gone, so that a restart finds what is
\* left to delete, or after a stale list could not be rewritten.
ListsGoLast ==
  [][/\ scenario = "deletion" => Deletions!ListsGoWhenExecuted
     /\ scenario = "deletion_multi" => Multi!ListsGoWhenExecuted]_suiteVars

=============================================================================
