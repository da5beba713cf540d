---------------------------- MODULE MCDelivery ----------------------------
(***************************************************************************)
(* What must happen in the end to the WAL of a safekeeper, for TLC: it is  *)
(* backed up, evicted, and delivered to the shards of a pageserver.  Every *)
(* behaviour runs one component.                                           *)
(***************************************************************************)
EXTENDS WalBackup

CONSTANTS c1, c2, r1

\* PartialBackup
VARIABLES lines, truth, term, agreed, commitLsn, served, trimmed, segment, present, control,
          bucket, uploader, uploaded, resident, mgr, leaked, kills, faults, resets

\* InterpretedWal
VARIABLES wal, reader, conn

partialVars == <<lines, truth, term, agreed, commitLsn, served, trimmed, segment, present,
                 control, bucket, uploader, uploaded, resident, mgr, leaked, kills, faults, resets>>
fanoutVars == <<wal, reader, conn>>

VARIABLE scenario   \* what this behaviour runs

-----------------------------------------------------------------------------
(* Scenarios *)

Partial ==
  INSTANCE PartialBackup WITH
    MaxTerm <- 2, MaxWal <- 1, MaxRestarts <- 1, MaxFails <- 0, MaxResets <- 0,
    MaxSegments <- 1, DeleteWal <- TRUE

Fanout ==
  INSTANCE InterpretedWal WITH
    Conns <- {c1, c2}, Readers <- {r1}, Shards <- {0, 1}, NRecords <- 1, MaxDelta <- 9,
    Errors <- FALSE

ASSUME ScenariosAssumption ==
  /\ WalBackupAssumption /\ Partial!BoundsAssumption /\ Fanout!IWAssumption

-----------------------------------------------------------------------------
(* One component runs, the others stay in an initial state. *)

SuiteInit ==
  /\ scenario \in {"backup", "partial", "fanout"}
  /\ Init
  /\ Partial!Init
  /\ Fanout!Init /\ (scenario # "fanout" => \A i \in DOMAIN wal : wal[i].end = wal[i].next /\ wal[i].of = {0})

suiteVars == <<vars, partialVars, fanoutVars, scenario>>

SuiteNext ==
  /\ UNCHANGED scenario
  /\ \/ /\ scenario = "backup" /\ Next
        /\ UNCHANGED <<partialVars, fanoutVars>>
     \/ /\ scenario = "partial" /\ Partial!Next
        /\ UNCHANGED <<vars, fanoutVars>>
     \/ /\ scenario = "fanout" /\ Fanout!Next
        /\ UNCHANGED <<vars, partialVars>>

\* The fairness of every component, while it is the one that runs.
SuiteFairness ==
  /\ \A i \in Safekeepers :
       /\ \A j \in Safekeepers : WF_vars(scenario = "backup" /\ Broker(j, i))
       /\ WF_vars(scenario = "backup" /\ UpdateTask(i))
       /\ WF_vars(scenario = "backup" /\ Wake(i))
       /\ WF_vars(scenario = "backup" /\ Upload(i))
       /\ WF_vars(scenario = "backup" /\ CommitLsnFromCompute(i))
       /\ WF_vars(scenario = "backup" /\ Consume(i))
       /\ WF_vars(scenario = "backup" /\ SaveControlFile(i))
       /\ WF_vars(scenario = "backup" /\ Removal(i))
  /\ WF_partialVars(scenario = "partial" /\ Partial!TaskStep)
  /\ WF_partialVars(scenario = "partial" /\ Partial!PageserverConfirms)
  /\ SF_partialVars(scenario = "partial" /\ Partial!SaveControlFile)
  /\ SF_partialVars(scenario = "partial" /\ Partial!WalRemoved)
  /\ SF_partialVars(scenario = "partial" /\ Partial!EvictBegin)
  /\ WF_partialVars(scenario = "partial" /\ (Partial!SwitchToOffloaded \/ Partial!DeleteLocalSegment))
  /\ WF_partialVars(scenario = "partial" /\ (Partial!Download \/ Partial!SwitchToPresent))
  /\ WF_fanoutVars(scenario = "fanout" /\ (Fanout!Read(r1) \/ Fanout!Send(r1) \/ Fanout!CleanUp(r1)))
  /\ SF_fanoutVars(scenario = "fanout" /\ Fanout!Notified(r1))
  /\ \A c \in {c1, c2} : /\ WF_fanoutVars(scenario = "fanout" /\ (Fanout!Receive(c) \/ Fanout!Discard(c)))
                         /\ WF_fanoutVars(scenario = "fanout" /\ Fanout!Close(c))

SuiteSpec == SuiteInit /\ [][SuiteNext]_suiteVars /\ SuiteFairness

-----------------------------------------------------------------------------
(* Properties *)

\* Every committed whole segment is offloaded in the end, although the safekeepers disagree for a
\* while on who does it and one of them starts again; except when the one that should do it has
\* started again and its commit_lsn does not move any more.  A timeline that nobody uses any more
\* is evicted in the end, once the pageserver has consumed its WAL.
WalIsOffloaded ==
  /\ scenario = "backup" => OffloadedInTheEnd
  /\ scenario = "partial" => Partial!IdleIsEvicted

\* Once no more shards connect, one that stays connected gets all the WAL, although it shares its
\* reader with shards that started earlier, stall and go away.
AllIsDelivered == scenario = "fanout" => Fanout!AllIsDelivered

=============================================================================
