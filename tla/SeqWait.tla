------------------------------ MODULE SeqWait ------------------------------
(***************************************************************************)
(* SeqWait: tasks wait until a counter (an LSN) reaches their number.  The *)
(* counter, a heap of waiters and the shutdown flag are behind one mutex;  *)
(* those who are to be woken are taken out of the heap under the mutex and *)
(* told after it is released.  A pageserver's get_page waits here for WAL  *)
(* to arrive, so a wake-up that is lost or false is a hung or wrong read.  *)
(***************************************************************************)
EXTENDS Integers, FiniteSets

CONSTANTS Tasks,   \* those who wait, each once
          MaxNum   \* largest number of the counter

ASSUME NumAssumption == MaxNum \in Nat

VARIABLES current,   \* SeqWaitInt.current
          shutdown,  \* SeqWaitInt.shutdown
          heap,      \* SeqWaitInt.waiters: [task, num], of tasks that gave up too
          waking,    \* channels popped by advance() and not yet sent to
          closed,    \* tasks whose channel was dropped by shutdown()
          task       \* task[t]: [pc, num]

vars == <<current, shutdown, heap, waking, closed, task>>

Nums == 0..MaxNum
Waiter(t, n) == [task |-> t, num |-> n]

TypeOK ==
  /\ current \in Nums /\ shutdown \in BOOLEAN
  /\ heap \subseteq [task : Tasks, num : Nums]
  /\ waking \subseteq Tasks /\ closed \subseteq Tasks
  /\ task \in [Tasks -> [pc : {"idle", "waiting", "ok", "shutdown", "timeout"}, num : Nums]]

Init ==
  /\ current = 0 /\ shutdown = FALSE /\ heap = {}
  /\ waking = {} /\ closed = {}
  /\ task = [t \in Tasks |-> [pc |-> "idle", num |-> 0]]

Return(t, n, result) == task' = [task EXCEPT ![t] = [pc |-> result, num |-> n]]

\* Slip: shutdown is not looked at.
QueueForWait_Slip(t, n) ==
  /\ task[t].pc = "idle"
  /\ IF current >= n
       THEN Return(t, n, "ok") /\ UNCHANGED heap
       ELSE Return(t, n, "waiting") /\ heap' = heap \cup {Waiter(t, n)}
  /\ UNCHANGED <<current, shutdown, waking, closed>>

\* wait_for, wait_for_timeout: queue_for_wait
QueueForWait(t, n) ==
  /\ task[t].pc = "idle"
  /\ IF current >= n
       THEN Return(t, n, "ok") /\ UNCHANGED heap
     ELSE IF shutdown
       THEN Return(t, n, "shutdown") /\ UNCHANGED heap
       ELSE Return(t, n, "waiting") /\ heap' = heap \cup {Waiter(t, n)}
  /\ UNCHANGED <<current, shutdown, waking, closed>>

\* advance, under the mutex: pop_leq
Advance(n) ==
  /\ n > current
  /\ current' = n
  /\ LET popped == {w \in heap : w.num <= n}
     IN /\ heap' = heap \ popped
        /\ waking' = waking \cup {w.task : w \in popped}
  /\ UNCHANGED <<shutdown, closed, task>>

\* advance, after the mutex: a channel nobody listens to any more is skipped.
Send(t) ==
  /\ t \in waking
  /\ waking' = waking \ {t}
  /\ task' = IF task[t].pc = "waiting" THEN [task EXCEPT ![t].pc = "ok"] ELSE task
  /\ UNCHANGED <<current, shutdown, heap, closed>>

\* shutdown: all waiters are taken out of the heap, and their channels dropped afterwards.
Shutdown ==
  /\ ~shutdown /\ shutdown' = TRUE
  /\ closed' = closed \cup {w.task : w \in heap}
  /\ heap' = {}
  /\ UNCHANGED <<current, waking, task>>

SeeClosed(t) ==
  /\ t \in closed
  /\ closed' = closed \ {t}
  /\ task' = IF task[t].pc = "waiting" THEN [task EXCEPT ![t].pc = "shutdown"] ELSE task
  /\ UNCHANGED <<current, shutdown, heap, waking>>

\* The timeout of wait_for_timeout; the waiter stays in the heap.
Timeout(t) ==
  /\ task[t].pc = "waiting"
  /\ task' = [task EXCEPT ![t].pc = "timeout"]
  /\ UNCHANGED <<current, shutdown, heap, waking, closed>>

Next ==
  \/ \E t \in Tasks : \/ \E n \in Nums : QueueForWait(t, n)
                      \/ Send(t) \/ SeeClosed(t) \/ Timeout(t)
  \/ \E n \in Nums : Advance(n)
  \/ Shutdown

\* advance() and shutdown() finish what they began, and tokio polls tasks that were woken.
Fairness == \A t \in Tasks : WF_vars(Send(t)) /\ WF_vars(SeeClosed(t))

Spec == Init /\ [][Next]_vars /\ Fairness

----------------------------------------------------------------------------
(* Properties                                                              *)

\* A wait that returns Ok returns when the counter has reached the number.
OkMeansReached == \A t \in Tasks : task[t].pc = "ok" => current >= task[t].num

\* Nobody waits in vain: a waiting task is in the heap for a number still to come, or its
\* wake-up is on its way; and after shutdown() nobody is in the heap.
NobodyForgotten ==
  /\ \A t \in Tasks : task[t].pc = "waiting" =>
       t \in waking \cup closed \/ Waiter(t, task[t].num) \in heap
  /\ \A w \in heap : w.num > current /\ ~shutdown

\* What the two rest on: a popped waiter has its number, a waiter in the heap is its
\* task's only one, and a task that never waited has no channel.
WaitersMatch ==
  /\ \A t \in waking : task[t].num <= current
  /\ \A w \in heap : task[w.task].num = w.num
  /\ \A t \in Tasks : task[t].pc = "idle" =>
       t \notin waking \cup closed \cup {w.task : w \in heap}

\* Once its number is reached or the counter is shut down, a wait returns.
Due(t) == task[t].pc = "waiting" /\ (shutdown \/ current >= task[t].num)
WaitReturns == \A t \in Tasks : []<>~Due(t)
=============================================================================
