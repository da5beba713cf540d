---------------------------- MODULE SeqWaitProofs ----------------------------
(***************************************************************************)
(* For any set of waiting tasks and any bound on the counter: a wait that  *)
(* returns Ok returns when its number is reached, and nobody who waits is  *)
(* forgotten, across advance(), shutdown() and timeouts in any order.      *)
(***************************************************************************)
EXTENDS SeqWait, TLAPS

\* The inductive invariant.
WaitInv == TypeOK /\ OkMeansReached /\ NobodyForgotten /\ WaitersMatch

\* At the start nobody waits.
LEMMA InitWaitInv == Init => WaitInv
<1> SUFFICES ASSUME Init PROVE WaitInv
  OBVIOUS
<1>1. TypeOK
  <2>1. 0 \in Nums
    BY NumAssumption DEF Nums
  <2> QED BY <2>1 DEF Init, TypeOK
<1>2. OkMeansReached /\ NobodyForgotten
  BY DEF Init, OkMeansReached, NobodyForgotten
<1>3. WaitersMatch
  BY DEF Init, WaitersMatch
<1> QED BY <1>1, <1>2, <1>3 DEF WaitInv

\* A task that queues for a number, or returns at once.
LEMMA QueueKeeps ==
  ASSUME WaitInv, NEW t \in Tasks, NEW n \in Nums, QueueForWait(t, n)
  PROVE  WaitInv'
<1> USE NumAssumption DEF WaitInv, Nums, Waiter, Return, QueueForWait
<1>1. TypeOK'
  BY DEF TypeOK
<1>2. OkMeansReached'
  BY DEF TypeOK, OkMeansReached
<1>3. NobodyForgotten'
  BY DEF TypeOK, NobodyForgotten
<1>4. WaitersMatch'
  BY DEF TypeOK, WaitersMatch
<1> QED BY <1>1, <1>2, <1>3, <1>4

\* The counter moves and takes those it has reached out of the heap.
LEMMA AdvanceKeeps ==
  ASSUME WaitInv, NEW n \in Nums, Advance(n)
  PROVE  WaitInv'
<1> USE NumAssumption DEF WaitInv, Nums, Waiter, Advance
<1>1. TypeOK'
  BY DEF TypeOK
<1>2. OkMeansReached'
  BY DEF TypeOK, OkMeansReached
<1>3. NobodyForgotten'
  BY DEF TypeOK, NobodyForgotten
<1>4. WaitersMatch'
  BY DEF TypeOK, WaitersMatch
<1> QED BY <1>1, <1>2, <1>3, <1>4

\* One popped channel is sent to.
LEMMA SendKeeps ==
  ASSUME WaitInv, NEW t \in Tasks, Send(t)
  PROVE  WaitInv'
<1> USE NumAssumption DEF WaitInv, Nums, Waiter, Send
<1>1. TypeOK'
  BY DEF TypeOK
<1>2. OkMeansReached'
  BY DEF TypeOK, OkMeansReached, WaitersMatch
<1>3. NobodyForgotten'
  BY DEF TypeOK, NobodyForgotten
<1>4. WaitersMatch'
  BY DEF TypeOK, WaitersMatch
<1> QED BY <1>1, <1>2, <1>3, <1>4

\* Shutdown empties the heap and closes every channel in it.
LEMMA ShutdownKeeps ==
  ASSUME WaitInv, Shutdown
  PROVE  WaitInv'
<1> USE NumAssumption DEF WaitInv, Nums, Waiter, Shutdown
<1>1. TypeOK'
  BY DEF TypeOK
<1>2. OkMeansReached'
  BY DEF TypeOK, OkMeansReached
<1>3. NobodyForgotten'
  <2>1. ASSUME NEW t \in Tasks, task[t].pc = "waiting"
        PROVE  t \in waking \cup closed'
    <3>1. CASE t \in waking \cup closed
      BY <3>1
    <3>2. CASE Waiter(t, task[t].num) \in heap
      BY <3>2
    <3> QED BY <2>1, <3>1, <3>2 DEF NobodyForgotten
  <2>2. heap' = {} /\ waking' = waking /\ task' = task
    OBVIOUS
  <2> QED BY <2>1, <2>2 DEF NobodyForgotten
<1>4. WaitersMatch'
  BY DEF TypeOK, WaitersMatch
<1> QED BY <1>1, <1>2, <1>3, <1>4

\* A closed channel is noticed, or a timeout passes: the task stops waiting.
LEMMA LeaveKeeps ==
  ASSUME WaitInv, NEW t \in Tasks, SeeClosed(t) \/ Timeout(t)
  PROVE  WaitInv'
<1> USE NumAssumption DEF WaitInv, Nums, Waiter, SeeClosed, Timeout
<1>1. TypeOK'
  BY DEF TypeOK
<1>2. OkMeansReached'
  BY DEF TypeOK, OkMeansReached
<1>3. NobodyForgotten'
  BY DEF TypeOK, NobodyForgotten
<1>4. WaitersMatch'
  BY DEF TypeOK, WaitersMatch
<1> QED BY <1>1, <1>2, <1>3, <1>4

\* Every step keeps the inductive invariant.
LEMMA NextKeeps == WaitInv /\ [Next]_vars => WaitInv'
<1> SUFFICES ASSUME WaitInv, [Next]_vars PROVE WaitInv'
  OBVIOUS
<1>1. CASE UNCHANGED vars
  BY <1>1 DEF vars, WaitInv, TypeOK, OkMeansReached, NobodyForgotten, WaitersMatch
<1>2. CASE Next
  BY <1>2, QueueKeeps, AdvanceKeeps, SendKeeps, ShutdownKeeps, LeaveKeeps DEF Next
<1> QED BY <1>1, <1>2

\* OkMeansReached, for SeqWait::wait_for with any number of waiters: Ok is never early.
THEOREM OkIsNeverEarly == Spec => []OkMeansReached
<1>1. WaitInv => OkMeansReached
  BY DEF WaitInv
<1> QED BY <1>1, InitWaitInv, NextKeeps, PTL DEF Spec

\* NobodyForgotten, for SeqWait::advance and SeqWait::shutdown: no wake-up is lost.
THEOREM NoWakeUpIsLost == Spec => []NobodyForgotten
<1>1. WaitInv => NobodyForgotten
  BY DEF WaitInv
<1> QED BY <1>1, InitWaitInv, NextKeeps, PTL DEF Spec
==============================================================================
