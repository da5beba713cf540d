------------------------------ MODULE OnceCell ------------------------------
(***************************************************************************)
(* heavier_once_cell::OnceCell: a value that one task at a time may        *)
(* initialize and that may be taken out and initialized again.  A mutex    *)
(* protects the value and a pointer to the current semaphore; the right to *)
(* initialize is the only permit of that semaphore.  Initializing closes   *)
(* it, taking the value out replaces it by a new one.  Tasks wait on the   *)
(* semaphore they saw, which may be an old one by the time they wake.      *)
(***************************************************************************)
EXTENDS Integers, FiniteSets

CONSTANTS Tasks,
          MaxTakes   \* times the value is taken out

\* What the constants must be.
TakesAssumption == MaxTakes \in Nat

VARIABLES value,  \* Inner.value is Some
          sem,    \* Inner.init_semaphore
          sems,   \* semaphores ever created: [permits, closed]
          getter  \* task[t]: [pc, sem], the semaphore it holds a reference to

vars == <<value, sem, sems, getter>>

Sems == 0..MaxTakes

Init ==
  /\ value = FALSE /\ sem = 0
  /\ sems = [s \in Sems |-> [permits |-> IF s = 0 THEN 1 ELSE 0, closed |-> FALSE]]
  /\ getter = [t \in Tasks |-> [pc |-> "start", sem |-> 0]]

Goto(t, pc) == getter' = [getter EXCEPT ![t].pc = pc]

\* get_or_init: the value is there, or the task queues on the semaphore it finds.
Look(t) ==
  /\ getter[t].pc = "start"
  /\ getter' = [getter EXCEPT ![t] = [pc |-> IF value THEN "guard" ELSE "queued", sem |-> sem]]
  /\ UNCHANGED <<value, sem, sems>>

\* sem.acquire() returns: with the permit, or because the semaphore is closed.
Acquire(t) ==
  LET s == getter[t].sem IN
  /\ getter[t].pc = "queued"
  /\ \/ /\ sems[s].closed
        /\ Goto(t, "closed") /\ UNCHANGED sems
     \/ /\ ~sems[s].closed /\ sems[s].permits > 0
        /\ sems' = [sems EXCEPT ![s].permits = @ - 1]
        /\ Goto(t, "init")
  /\ UNCHANGED <<value, sem>>

\* The caller gives up while it is queued.
Cancel(t) ==
  /\ getter[t].pc = "queued" /\ Goto(t, "start")
  /\ UNCHANGED <<value, sem, sems>>

\* The semaphore was closed: start again if the value was taken out in between.
Recheck(t) ==
  /\ getter[t].pc = "closed"
  /\ Goto(t, IF getter[t].sem # sem THEN "start" ELSE IF value THEN "guard" ELSE "panic")
  /\ UNCHANGED <<value, sem, sems>>

\* set, and set0 when the factory of get_or_init has succeeded.
Set(t) ==
  /\ getter[t].pc = "init"
  /\ IF value \/ sems[sem].permits > 0
       THEN Goto(t, "panic") /\ UNCHANGED <<value, sems>>
       ELSE /\ value' = TRUE
            /\ sems' = [sems EXCEPT ![sem].closed = TRUE]
            /\ Goto(t, "drop")
  /\ UNCHANGED sem

\* InitPermit is dropped: after set, or because initialization failed or was cancelled.
DropPermit(t) ==
  /\ getter[t].pc \in {"init", "drop"}
  /\ IF sems[getter[t].sem].permits # 0
       THEN Goto(t, "panic") /\ UNCHANGED sems
       ELSE /\ sems' = [sems EXCEPT ![getter[t].sem].permits = 1]
            /\ Goto(t, "start")
  /\ UNCHANGED <<value, sem>>

\* Slip: the semaphore stays, with its permit, and is only opened again.
TakeAndDeinit_Slip(t) ==
  /\ getter[t].pc = "guard" /\ value
  /\ value' = FALSE
  /\ sems' = [sems EXCEPT ![sem].closed = FALSE]
  /\ getter' = [getter EXCEPT ![t] = [pc |-> "init", sem |-> sem]]
  /\ UNCHANGED sem

\* Guard::take_and_deinit: a new semaphore, whose permit the caller holds.  A guard holds
\* the mutex, so that looking again is part of the step.
TakeAndDeinit(t) ==
  /\ getter[t].pc = "guard" /\ value /\ sem < MaxTakes
  /\ value' = FALSE
  /\ sem' = sem + 1
  /\ getter' = [getter EXCEPT ![t] = [pc |-> "init", sem |-> sem + 1]]
  /\ UNCHANGED sems

DropGuard(t) ==
  /\ getter[t].pc = "guard" /\ Goto(t, "start")
  /\ UNCHANGED <<value, sem, sems>>

Next ==
  \E t \in Tasks : \/ Look(t) \/ Acquire(t) \/ Cancel(t) \/ Recheck(t)
                   \/ Set(t) \/ DropPermit(t) \/ TakeAndDeinit(t) \/ DropGuard(t)

\* Whoever holds the permit initializes or drops it; woken tasks run, and the semaphore
\* serves its queue in order, so that a task cannot be passed over for ever.
Fairness ==
  \A t \in Tasks : WF_vars(Set(t) \/ DropPermit(t)) /\ SF_vars(Acquire(t)) /\ WF_vars(Recheck(t))

Spec == Init /\ [][Next]_vars /\ Fairness

----------------------------------------------------------------------------
(* Properties                                                              *)

\* None of the assertions fails: "semaphore got closed, must be initialized", "we won
\* permit, must not be initialized", "permit is of wrong origin" and "InitPermit should only
\* exist as the unique permit".
NoPanic == \A t \in Tasks : getter[t].pc # "panic"

\* At most one task is initializing, it does so for the semaphore that others wait on, and
\* meanwhile there is no value.
UniqueInit ==
  \A t \in Tasks : getter[t].pc = "init" =>
    /\ ~value /\ getter[t].sem = sem
    /\ \A u \in Tasks \ {t} : getter[u].pc # "init"

\* A task that queued gets the value, the permit or another try: it is never left waiting
\* on a semaphore that was replaced or whose holder failed.
Queued(t) == getter[t].pc = "queued"
QueuedReturns == \A t \in Tasks : []<>~Queued(t)
============================================================================
