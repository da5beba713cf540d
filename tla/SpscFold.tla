------------------------------ MODULE SpscFold ------------------------------
(***************************************************************************)
(* sync::spsc_fold: a channel with room for one value into which the       *)
(* sender folds further ones while the receiver is busy (the page service  *)
(* batches requests this way).  Both ends are futures: a poll that finds   *)
(* nothing to do registers a waker under the mutex and is polled again     *)
(* only when it is notified.                                               *)
(***************************************************************************)
EXTENDS Integers, Sequences, SequencesExt

CONSTANT MaxMsgs   \* values sent

\* What the constants must be.
MsgsAssumption == MaxMsgs \in Nat

VARIABLES state,     \* State, without its data
          folded,    \* the values folded into the data of state
          sender,    \* [pc, poll]: pc idle, sending or gone; poll: it is due to be polled
          receiver,  \* [pc, poll]
          wakers,    \* wakers registered: a subset of {"sender", "receiver"}
          notify,    \* wakers a drop() has yet to notify
          sent,      \* values passed to send() so far
          accepted,  \* values that entered the channel
          received

vars == <<state, folded, sender, receiver, wakers, notify, sent, accepted, received>>

Init ==
  /\ state = "NoData" /\ folded = <<>>
  /\ sender = [pc |-> "idle", poll |-> FALSE] /\ receiver = [pc |-> "idle", poll |-> FALSE]
  /\ wakers = {} /\ notify = {}
  /\ sent = 0 /\ accepted = <<>> /\ received = <<>>

\* wake_sender.notify, wake_receiver.notify: a registered waker is used up.
Notified(end, who) ==
  IF who \in wakers THEN [end EXCEPT !.poll = TRUE] ELSE end

----------------------------------------------------------------------------
(* Sender                                                                  *)

Send ==
  /\ sender.pc = "idle" /\ sent < MaxMsgs
  /\ sender' = [pc |-> "sending", poll |-> TRUE]
  /\ sent' = sent + 1
  /\ UNCHANGED <<state, folded, receiver, wakers, notify, accepted, received>>

\* The value enters the channel or is folded into what is there.
Accept ==
  /\ folded' = Append(folded, sent) /\ accepted' = Append(accepted, sent)
  /\ sender' = [pc |-> "idle", poll |-> FALSE]

\* Poll::Pending: the sender's waker is registered.
SenderWaits ==
  /\ state' = "SenderWaitsForReceiverToConsume"
  /\ wakers' = wakers \cup {"sender"}
  /\ sender' = [sender EXCEPT !.poll = FALSE]
  /\ UNCHANGED <<folded, accepted, receiver>>

\* Slip: no wake-up for the receiver, which may be waiting for the first value.
PollSender_Slip ==
  /\ sender.pc = "sending" /\ sender.poll
  /\ \/ /\ state = "NoData"
        /\ state' = "HasData" /\ Accept
        /\ UNCHANGED <<receiver, wakers>>
     \/ state = "HasData" /\ Accept /\ UNCHANGED <<state, receiver, wakers>>
     \/ state \in {"HasData", "SenderWaitsForReceiverToConsume"} /\ SenderWaits
     \/ /\ state = "ReceiverGone"
        /\ sender' = [pc |-> "idle", poll |-> FALSE]
        /\ UNCHANGED <<state, folded, accepted, receiver, wakers>>
  /\ UNCHANGED <<notify, sent, received>>

\* poll of send(): whether try_fold takes the value is up to the caller.
PollSender ==
  /\ sender.pc = "sending" /\ sender.poll
  /\ \/ /\ state = "NoData"
        /\ state' = "HasData" /\ Accept
        /\ receiver' = Notified(receiver, "receiver") /\ wakers' = wakers \ {"receiver"}
     \/ state = "HasData" /\ Accept /\ UNCHANGED <<state, receiver, wakers>>
     \/ state \in {"HasData", "SenderWaitsForReceiverToConsume"} /\ SenderWaits
     \/ /\ state = "ReceiverGone"
        /\ sender' = [pc |-> "idle", poll |-> FALSE]
        /\ UNCHANGED <<state, folded, accepted, receiver, wakers>>
  /\ UNCHANGED <<notify, sent, received>>

\* The future of send() is dropped; the channel may stay in the state in which the
\* receiver is to consume first.
CancelSend ==
  /\ sender.pc = "sending"
  /\ sender' = [pc |-> "idle", poll |-> FALSE]
  /\ UNCHANGED <<state, folded, receiver, wakers, notify, sent, accepted, received>>

\* Data that is left is for the receiver to take.
DropSender ==
  /\ sender.pc = "idle"
  /\ sender' = [pc |-> "gone", poll |-> FALSE]
  /\ state' = IF state = "ReceiverGone" THEN "AllGone" ELSE "SenderGone"
  /\ notify' = notify \cup {"receiver"}
  /\ UNCHANGED <<folded, receiver, wakers, sent, accepted, received>>

----------------------------------------------------------------------------
(* Receiver                                                                *)

Recv ==
  /\ receiver.pc = "idle"
  /\ receiver' = [pc |-> "receiving", poll |-> TRUE]
  /\ UNCHANGED <<state, folded, sender, wakers, notify, sent, accepted, received>>

HoldsData ==
  state \in {"HasData", "SenderWaitsForReceiverToConsume"} \/ (state = "SenderGone" /\ folded # <<>>)

\* poll of recv()
PollReceiver ==
  /\ receiver.pc = "receiving" /\ receiver.poll
  /\ \/ /\ state = "NoData"
        /\ wakers' = wakers \cup {"receiver"}
        /\ receiver' = [receiver EXCEPT !.poll = FALSE]
        /\ UNCHANGED <<state, folded, sender, received>>
     \/ /\ HoldsData
        /\ state' = IF state = "SenderGone" THEN state ELSE "NoData"
        /\ received' = received \o folded /\ folded' = <<>>
        /\ receiver' = [pc |-> "idle", poll |-> FALSE]
        /\ sender' = Notified(sender, "sender") /\ wakers' = wakers \ {"sender"}
     \/ /\ state = "SenderGone" /\ folded = <<>>
        /\ receiver' = [pc |-> "idle", poll |-> FALSE]
        /\ UNCHANGED <<state, folded, sender, wakers, received>>
  /\ UNCHANGED <<notify, sent, accepted>>

CancelRecv ==
  /\ receiver.pc = "receiving"
  /\ receiver' = [pc |-> "idle", poll |-> FALSE]
  /\ UNCHANGED <<state, folded, sender, wakers, notify, sent, accepted, received>>

\* The data is dropped with the receiver.
DropReceiver ==
  /\ receiver.pc = "idle"
  /\ receiver' = [pc |-> "gone", poll |-> FALSE]
  /\ state' = IF state = "SenderGone" THEN "AllGone" ELSE "ReceiverGone"
  /\ folded' = <<>>
  /\ notify' = notify \cup {"sender"}
  /\ UNCHANGED <<sender, wakers, sent, accepted, received>>

\* The end of a drop(), after the mutex is released.
Notify(who) ==
  /\ who \in notify /\ notify' = notify \ {who}
  /\ wakers' = wakers \ {who}
  /\ IF who = "sender" THEN sender' = Notified(sender, who) /\ UNCHANGED receiver
                       ELSE receiver' = Notified(receiver, who) /\ UNCHANGED sender
  /\ UNCHANGED <<state, folded, sent, accepted, received>>

Next ==
  \/ Send \/ PollSender \/ CancelSend \/ DropSender
  \/ Recv \/ PollReceiver \/ CancelRecv \/ DropReceiver
  \/ \E who \in {"sender", "receiver"} : Notify(who)

\* A future that is due is polled, and a drop() runs to its end.  Nothing obliges the ends
\* to go on sending or receiving.
Fairness ==
  WF_vars(PollSender) /\ WF_vars(PollReceiver) /\ \A w \in {"sender", "receiver"} : WF_vars(Notify(w))

Spec == Init /\ [][Next]_vars /\ Fairness

----------------------------------------------------------------------------
(* Properties                                                              *)

\* What was accepted is received once, in the order sent, as long as the receiver lives;
\* cancelling a future on either side loses nothing that was accepted.
NothingLost ==
  /\ IsPrefix(received, accepted)
  /\ receiver.pc # "gone" => received \o folded = accepted

\* No poll meets a state the code calls unreachable!().
PollsAreReachable ==
  /\ sender.pc = "sending" /\ sender.poll =>
       state \in {"NoData", "HasData", "SenderWaitsForReceiverToConsume", "ReceiverGone"}
  /\ receiver.pc = "receiving" /\ receiver.poll => state = "NoData" \/ HoldsData \/ state = "SenderGone"

\* Two futures that both run do not wait for each other: a recv() that is pending while
\* there is data or the sender is gone completes ...
ReceiverDue == receiver.pc = "receiving" /\ state # "NoData"
ReceiverWakes == []<>~ReceiverDue

\* ... and so does a send() whose data was consumed or whose receiver is gone.
SenderDue == sender.pc = "sending" /\ state \in {"NoData", "ReceiverGone"}
SenderWakes == []<>~SenderDue
============================================================================
