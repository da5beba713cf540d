---------------------------- MODULE WalService -----------------------------
(***************************************************************************)
(* What the safekeepers promise to those who read WAL from them (the       *)
(* pageservers, standbys, a compute that takes a basebackup), with no word *)
(* about terms, votes or connections: there is one append-only log, each   *)
(* safekeeper serves a prefix of it, and a restart takes a safekeeper back *)
(* to the prefix it has saved, no further.                                 *)
(***************************************************************************)
EXTENDS SequencesExt

CONSTANT Safekeepers

VARIABLES log,      \* the committed WAL
          served,   \* served[s]: the WAL s gives to readers, up to its commit_lsn
          saved     \* saved[s]: the WAL below commit_lsn of the control file

serviceVars == <<log, served, saved>>

Init ==
  /\ log = <<>>
  /\ served = [s \in Safekeepers |-> <<>>]
  /\ saved = [s \in Safekeepers |-> <<>>]

\* The log grows.
Commit ==
  /\ IsStrictPrefix(log, log')
  /\ UNCHANGED <<served, saved>>

\* s serves more of the log, or saves more of what it serves.
Serve(s) ==
  /\ served' = [served EXCEPT ![s] = served'[s]]
  /\ saved' = [saved EXCEPT ![s] = saved'[s]]
  /\ IsPrefix(served[s], served'[s]) /\ IsPrefix(served'[s], log)
  /\ IsPrefix(saved[s], saved'[s]) /\ IsPrefix(saved'[s], served'[s])
  /\ UNCHANGED log

\* s restarts with what it has saved.
Restart(s) ==
  /\ served' = [served EXCEPT ![s] = saved[s]]
  /\ UNCHANGED <<log, saved>>

Next == Commit \/ \E s \in Safekeepers : Serve(s) \/ Restart(s)

Spec == Init /\ [][Next]_serviceVars

=============================================================================
