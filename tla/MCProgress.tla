----------------------------- MODULE MCProgress -----------------------------
(***************************************************************************)
(* What must happen in the end on pageservers and in the controller, for   *)
(* TLC: waits for an LSN, for a value and for a channel return, flushes    *)
(* end, reconciliation settles.  Every behaviour runs one component.       *)
(***************************************************************************)
EXTENDS SeqWait

\* OnceCell
VARIABLES value, sem, sems, getter

\* SpscFold
VARIABLES state, folded, sender, receiver, wakers, notify, sent, accepted, received

\* LayerFlush
VARIABLES data, dels, last, open, next, frozen, lastFreeze, wstate, hold, client, start, done,
          loop, disk, stored, index, l0, compaction, cancelled, panic, bounds

\* Reconciler
VARIABLES db, loc, slot, wire, late, up, issued, answer, m, reconcilers, results, hook, told, bg, bgerr,
          faults, migrations, offlines, crashes, restarts

cellVars == <<value, sem, sems, getter>>
channelVars == <<state, folded, sender, receiver, wakers, notify, sent, accepted, received>>
flushesVars == <<data, dels, last, open, next, frozen, lastFreeze, wstate, hold, client, start,
                 done, loop, disk, stored, index, l0, compaction, cancelled, panic, bounds>>
controllerVars == <<db, loc, slot, wire, late, up, issued, answer, m, reconcilers, results, hook, told, bg,
                    bgerr, faults, migrations, offlines, crashes, restarts>>

VARIABLES scenario,  \* what this behaviour runs
          watch      \* whose waits WaitsReturn follows in it

-----------------------------------------------------------------------------
(* Scenarios *)

Cell ==
  INSTANCE OnceCell WITH
    MaxTakes <- 2

Channel ==
  INSTANCE SpscFold WITH
    MaxMsgs <- 4

Flushes ==
  INSTANCE LayerFlush WITH
    Deletions <- FALSE, MaxBatch <- 2, MaxRestarts <- 0, CompactionBreaks <- TRUE,
    StallThreshold <- 1, MaxRecords <- 2, Sharded <- TRUE, Empties <- 1, MaxPending <- 5,
    MaxErrors <- 1, CompactionThreshold <- 2, Shutdowns <- FALSE

Single ==
  INSTANCE LayerFlush WITH
    Deletions <- TRUE, MaxBatch <- 2, MaxRestarts <- 0, CompactionBreaks <- TRUE,
    StallThreshold <- 1, MaxRecords <- 1, Sharded <- FALSE, Empties <- 1, MaxPending <- 5,
    MaxErrors <- 1, CompactionThreshold <- 2, Shutdowns <- FALSE

Controller ==
  INSTANCE Reconciler WITH
    Nodes <- {"n1", "n2"}, NoNode <- "", SecondaryCount <- 1, MaxGen <- 7, MaxFaults <- 2,
    MaxMigrations <- 1, MaxOfflines <- 0, MaxCrashes <- 0, MaxRestarts <- 0

ASSUME ScenariosAssumption ==
  /\ Cell!TakesAssumption /\ Channel!MsgsAssumption /\ Flushes!BoundsAssumption
  /\ Single!BoundsAssumption /\ Controller!ReconcilerAssumption

-----------------------------------------------------------------------------
(* One component runs, the others stay in an initial state. *)

SuiteInit ==
  /\ scenario \in {"wait", "cell", "channel", "flush", "flush_single", "reconcile"}
  /\ watch \in IF scenario \in {"wait", "cell"} THEN Tasks
              ELSE IF scenario = "channel" THEN {"sender", "receiver"} ELSE {"nobody"}
  /\ Init
  /\ Cell!Init
  /\ Channel!Init
  /\ IF scenario = "flush_single" THEN Single!Init ELSE Flushes!Init
  /\ scenario \notin {"flush", "flush_single"} => data = Flushes!Lsns
  /\ Controller!Init /\ (scenario # "reconcile" => told = "n1")

suiteVars == <<vars, cellVars, channelVars, flushesVars, controllerVars, scenario, watch>>

SuiteNext ==
  /\ UNCHANGED <<scenario, watch>>
  /\ \/ /\ scenario = "wait" /\ Next
        /\ UNCHANGED <<cellVars, channelVars, flushesVars, controllerVars>>
     \/ /\ scenario = "cell" /\ Cell!Next
        /\ UNCHANGED <<vars, channelVars, flushesVars, controllerVars>>
     \/ /\ scenario = "channel" /\ Channel!Next
        /\ UNCHANGED <<vars, cellVars, flushesVars, controllerVars>>
     \/ /\ \/ scenario = "flush" /\ Flushes!Next
           \/ scenario = "flush_single" /\ Single!Next
        /\ UNCHANGED <<vars, cellVars, channelVars, controllerVars>>
     \/ /\ scenario = "reconcile" /\ Controller!Next
        /\ UNCHANGED <<vars, cellVars, channelVars, flushesVars>>

\* The fairness of every component, while it is the one that runs.
SuiteFairness ==
  /\ \A t \in Tasks : WF_vars(scenario = "wait" /\ Send(t)) /\ WF_vars(scenario = "wait" /\ SeeClosed(t))
  /\ \A t \in Tasks :
       /\ WF_cellVars(scenario = "cell" /\ (Cell!Set(t) \/ Cell!DropPermit(t)))
       /\ SF_cellVars(scenario = "cell" /\ Cell!Acquire(t))
       /\ WF_cellVars(scenario = "cell" /\ Cell!Recheck(t))
  /\ WF_channelVars(scenario = "channel" /\ Channel!PollSender)
  /\ WF_channelVars(scenario = "channel" /\ Channel!PollReceiver)
  /\ \A w \in {"sender", "receiver"} : WF_channelVars(scenario = "channel" /\ Channel!Notify(w))
  /\ WF_flushesVars(scenario = "flush" /\ Flushes!LockHolderStep)
  /\ WF_flushesVars(scenario = "flush" /\ Flushes!WriterStep)
  /\ WF_flushesVars(scenario = "flush" /\ Flushes!ClientWaited)
  /\ SF_flushesVars(scenario = "flush" /\ Flushes!BeginCommit)
  /\ WF_flushesVars(scenario = "flush" /\ Flushes!BackgroundFreeze)
  /\ WF_flushesVars(scenario = "flush" /\ Flushes!FlushLoopStep)
  /\ WF_flushesVars(scenario = "flush" /\ Flushes!Compact)
  /\ WF_flushesVars(scenario = "flush_single" /\ Single!LockHolderStep)
  /\ WF_flushesVars(scenario = "flush_single" /\ Single!WriterStep)
  /\ WF_flushesVars(scenario = "flush_single" /\ Single!ClientWaited)
  /\ SF_flushesVars(scenario = "flush_single" /\ Single!BeginCommit)
  /\ WF_flushesVars(scenario = "flush_single" /\ Single!BackgroundFreeze)
  /\ WF_flushesVars(scenario = "flush_single" /\ Single!FlushLoopStep)
  /\ WF_flushesVars(scenario = "flush_single" /\ Single!Compact)
  /\ WF_controllerVars(scenario = "reconcile" /\ Controller!TaskStep)
  /\ WF_controllerVars(scenario = "reconcile" /\ Controller!EnterNext)
  /\ WF_controllerVars(scenario = "reconcile" /\ Controller!process_result)
  /\ WF_controllerVars(scenario = "reconcile" /\ Controller!Background)
  /\ WF_controllerVars(scenario = "reconcile" /\ Controller!BackgroundNotify)
  /\ WF_controllerVars(scenario = "reconcile" /\ Controller!BackgroundNotifyFailed)
  /\ \A n \in {"n1", "n2"} :
       /\ WF_controllerVars(scenario = "reconcile" /\ Controller!NodeActive(n))
       /\ WF_controllerVars(scenario = "reconcile" /\ Controller!SlotDone(n))
       /\ WF_controllerVars(scenario = "reconcile" /\ Controller!ReAttachDb(n))
       /\ WF_controllerVars(scenario = "reconcile" /\ Controller!ReAttach(n))
       /\ WF_controllerVars(scenario = "reconcile" /\ Controller!InitTenantMgr(n))

SuiteSpec == SuiteInit /\ [][SuiteNext]_suiteVars /\ SuiteFairness

-----------------------------------------------------------------------------
(* Properties *)

\* heavier_once_cell and spsc_fold, with tasks that are cancelled anywhere: none of their assertions
\* fails, one task at a time initializes the value, and the channel loses nothing it accepted.
PrimitivesAreSound ==
  /\ Cell!NoPanic /\ Cell!UniqueInit
  /\ Channel!NothingLost /\ Channel!PollsAreReachable

\* Nobody waits for ever: for an LSN that was reached or a counter that was shut down, for the
\* value of a cell whose initializer failed or whose semaphore was replaced, for the other end of
\* a channel.
WaitsReturn ==
  []<>~ \/ scenario = "wait" /\ Due(watch)
        \/ scenario = "cell" /\ Cell!Queued(watch)
        \/ scenario = "channel" /\ watch = "receiver" /\ Channel!ReceiverDue
        \/ scenario = "channel" /\ watch = "sender" /\ Channel!SenderDue

\* Every wait for a flush ends, also behind a flush that failed, unless an assertion fails or the
\* loop is stalled when compaction comes to fail for good.  With the same exceptions
\* disk_consistent_lsn reaches the end of the WAL, unless the last record has no data for the only
\* shard, or a flush has failed where records delete key ranges (LayerFlush!CatchesUp).
FlushesEnd ==
  /\ []<>/\ scenario = "flush" => Flushes!ClientAnswered
         /\ scenario = "flush_single" => Single!ClientAnswered
  /\ []<>/\ scenario = "flush" => Flushes!HolderAnswered
         /\ scenario = "flush_single" => Single!HolderAnswered
  /\ <>[]/\ scenario = "flush" => Flushes!CaughtUp
         /\ scenario = "flush_single" => Single!CaughtUp

\* When faults and migrations have stopped, the shard ends up attached as intended, with the compute
\* told, unless a request was carried out after its caller had given it up.
ReconciliationSettles == scenario = "reconcile" => Controller!Settles

=============================================================================
