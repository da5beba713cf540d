--------------------------- MODULE MCWalConsensus ---------------------------
(***************************************************************************)
(* WalConsensus for TLC: scenarios, each of them an initial state, perhaps *)
(* further down the life of a timeline, the connections that are possible, *)
(* the end of WAL and a budget of failures.                                *)
(***************************************************************************)
EXTENDS WalConsensus

CONSTANTS p1, p2, p3, s1, s2, s3, s4, s5

CONSTANT Scenarios   \* those to start in, of the names of Scenario

VARIABLES scenario,  \* the one of this behaviour
          budget     \* events of each kind that may still happen

mcvars == <<vars, scenario, budget>>

OneConf == <<[members |-> Safekeepers, newMembers |-> {}]>>

\* s3 is about to leave: the joint configuration comes next.
JointConf == OneConf \o <<[members |-> Safekeepers, newMembers |-> {s1, s2}]>>

\* Links of single scenarios.
OnlyP1 == {p1} \X {s1, s2}
OnlyP3 == {p3} \X {s1, s2}
P1Everywhere == {p1} \X Safekeepers

\* Two walproposers whose quorums have one safekeeper in common.
TwoQuorums == {<<p1, s1>>, <<p1, s2>>, <<p2, s2>>, <<p2, s3>>}

\* Four of five safekeepers.
FourOfFive == {p1} \X {s1, s2, s3, s4}

\* p3 has lost s2, and p2 comes up while it streams.
P2AfterP3 == {<<p3, s1>>, <<p3, s3>>, <<p2, s2>>, <<p2, s3>>}

RecoveryLinks == TwoQuorums \cup P2AfterP3
AllLinks == P1Everywhere \cup TwoQuorums
LiveLinks == TwoQuorums \cup OnlyP3

Nothing == [crash |-> 0, kill |-> 0, disconnect |-> 0, bump |-> 0, switch |-> 0, save |-> 0,
            publish |-> 0, heartbeat |-> 0]

\* start: how it begins, see MCInit; term: the last one; end: where WAL ends.
Scenario ==
  [two_computes |-> [start |-> "streaming", links |-> TwoQuorums, term |-> 2, end |-> 2,
                     budget |-> [Nothing EXCEPT !.crash = 1, !.heartbeat = 1]],
   peers        |-> [start |-> "streaming", links |-> TwoQuorums, term |-> 2, end |-> 2,
                     budget |-> [Nothing EXCEPT !.save = 1, !.publish = 1, !.heartbeat = 1]],
   reconnects   |-> [start |-> "streaming", links |-> OnlyP1, term |-> 1, end |-> 3,
                     budget |-> [Nothing EXCEPT !.disconnect = 2, !.heartbeat = 1]],
   elections    |-> [start |-> "fresh", links |-> TwoQuorums, term |-> 3, end |-> 1,
                     budget |-> [Nothing EXCEPT !.kill = 1, !.disconnect = 1, !.bump = 1]],
   joint        |-> [start |-> "fresh", links |-> P1Everywhere, term |-> 2, end |-> 2,
                     budget |-> [Nothing EXCEPT !.switch = 1, !.heartbeat = 1]],
   recovery     |-> [start |-> "diverged", links |-> TwoQuorums, term |-> 4, end |-> 3,
                     budget |-> [Nothing EXCEPT !.crash = 1, !.heartbeat = 2]],
   horizon      |-> [start |-> "everywhere", links |-> P2AfterP3, term |-> 2, end |-> 2,
                     budget |-> [Nothing EXCEPT !.crash = 1, !.publish = 1, !.heartbeat = 1]],
   never_stuck  |-> [start |-> "diverged", links |-> TwoQuorums, term |-> 4, end |-> 3, budget |-> Nothing],
   sole_compute |-> [start |-> "alone", links |-> OnlyP3, term |-> 4, end |-> 3,
                     budget |-> [Nothing EXCEPT !.disconnect = 1]],
   sole_crash   |-> [start |-> "alone", links |-> OnlyP3, term |-> 4, end |-> 3,
                     budget |-> [Nothing EXCEPT !.crash = 1]],
   mismatch     |-> [start |-> "streaming", links |-> OnlyP1, term |-> 1, end |-> 2,
                     budget |-> [Nothing EXCEPT !.switch = 1]],
   late_elected |-> [start |-> "superseded", links |-> FourOfFive, term |-> 3, end |-> 3,
                     budget |-> [Nothing EXCEPT !.publish = 1, !.heartbeat = 1]]]

-----------------------------------------------------------------------------

Since(term) == <<[term |-> 0, lsn |-> StartLsn], [term |-> term, lsn |-> StartLsn]>>

ControlFile(term, hist) ==
  [term |-> term, hist |-> hist, commit |-> StartLsn, horizon |-> StartLsn, gen |-> 1]

Dead == Exited("DEAD", 0)

\* q won term 1 with the votes of voters, all have adopted its history and have n units
\* of WAL, which those in unflushed have not flushed; q has lost its connections to those
\* it has no link to.  Other walproposers are in state other.
Streaming1(q, voters, unflushed, other, n) ==
  LET end      == StartLsn + n
      flush(s) == IF n = 0 \/ s \in unflushed THEN 0 ELSE end
      linked(p, s) == p = q /\ s \in voters /\ <<q, s>> \in Scenario[scenario].links
  IN  /\ cf = [s \in Safekeepers |->
                 IF s \in voters THEN ControlFile(1, Since(1))
                 ELSE ControlFile(0, <<[term |-> 0, lsn |-> StartLsn]>>)]
      /\ wal = [s \in Safekeepers |-> IF s \in voters THEN [i \in 1..n |-> 1] ELSE <<>>]
      /\ flushLsn = [s \in Safekeepers |-> IF s \in unflushed THEN StartLsn ELSE WriteLsn(s)]
      /\ termStart = [s \in Safekeepers |-> IF s \in voters THEN StartLsn ELSE 0]
      /\ wp = [p \in Proposers |->
                 IF p # q THEN other
                 ELSE [NewProposer EXCEPT
                         !.state = "ELECTED", !.gen = 1, !.term = 1, !.start = StartLsn,
                         !.hist = Since(1), !.donor = s1, !.avail = end,
                         !.commit = IF n = 0 THEN 0 ELSE end, !.truncate = StartLsn]]
      /\ sks = [p \in Proposers |-> [s \in Safekeepers |->
                  LET acked == [Offline EXCEPT !.flush = flush(s),
                                  !.commit = IF flush(s) = 0 THEN 0 ELSE StartLsn]
                  IN  CASE p # q \/ s \notin voters -> Offline
                        [] ~linked(p, s) -> acked
                        [] OTHER -> [acked EXCEPT
                             !.state = "ACTIVE", !.streamingAt = end,
                             !.sent = IF n = 0 THEN NothingSent ELSE <<0, StartLsn>>]]]
      /\ conn = [k \in Kinds |-> [p \in Proposers |-> [s \in Safekeepers |->
                   IF k = "live" /\ linked(p, s)
                   THEN [Closed EXCEPT !.open = TRUE, !.dirty = s \in unflushed] ELSE Closed]]]
      /\ won = {<<q, 1>>}
      /\ committed = [i \in 1..n |-> 1]

\* Earlier walproposers, p3 included, are gone.  The one of term 1 was elected by s1 and s2 and
\* left two units of WAL on s1; the one of term 2 was elected by s2 and s3 and
\* left one on s3.  Neither got through to s2 after its vote.
Diverged ==
  /\ cf = (s1 :> ControlFile(1, Since(1))
             @@ s2 :> ControlFile(2, <<[term |-> 0, lsn |-> StartLsn]>>)
             @@ s3 :> ControlFile(2, Since(2)))
  /\ wal = (s1 :> <<1, 1>> @@ s2 :> <<>> @@ s3 :> <<2>>)
  /\ flushLsn = [s \in Safekeepers |-> WriteLsn(s)]
  /\ termStart = (s1 :> StartLsn @@ s2 :> 0 @@ s3 :> StartLsn)
  /\ wp = [p \in Proposers |-> IF p = p3 THEN Dead ELSE NewProposer]
  /\ sks = [p \in Proposers |-> [s \in Safekeepers |-> Offline]]
  /\ conn = [k \in Kinds |-> [p \in Proposers |-> [s \in Safekeepers |-> Closed]]]
  /\ won = {} /\ committed = <<>>

\* Five safekeepers.  The walproposer of term 1 left two units of WAL on s1 and s5.  p2
\* won term 2 with the votes of s2, s3 and s4, which have no WAL, and died; s5 voted too
\* and has its announcement in a queue.  p1 has won term 3 with the votes of s1 to s4.
Superseded ==
  LET hist   == Append(Since(1), [term |-> 3, lsn |-> StartLsn + 2])
      end(s) == StartLsn + Len(wal[s])
      announce(term, start, h) ==
        [Closed EXCEPT !.open = TRUE,
           !.queue = <<[type |-> "ProposerElected", gen |-> 1, term |-> term,
                        start |-> start, hist |-> h]>>]
  IN  /\ cf = [s \in Safekeepers |->
                 ControlFile(IF s = s5 THEN 2 ELSE 3,
                             IF s \in {s1, s5} THEN Since(1)
                             ELSE <<[term |-> 0, lsn |-> StartLsn]>>)]
      /\ wal = [s \in Safekeepers |-> IF s \in {s1, s5} THEN <<1, 1>> ELSE <<>>]
      /\ flushLsn = [s \in Safekeepers |-> end(s)]
      /\ termStart = [s \in Safekeepers |-> IF s \in {s1, s5} THEN StartLsn ELSE 0]
      /\ wp = [p \in Proposers |->
                 IF p = p2 THEN Dead
                 ELSE [NewProposer EXCEPT
                         !.state = "ELECTED", !.gen = 1, !.term = 3, !.start = end(s1),
                         !.hist = hist, !.donor = s1, !.avail = end(s1),
                         !.truncate = StartLsn]]
      /\ sks = [p \in Proposers |-> [s \in Safekeepers |->
                  IF p = p1 /\ s # s5
                  THEN [Offline EXCEPT !.state = "ACTIVE", !.streamingAt = end(s)]
                  ELSE Offline]]
      /\ conn = [k \in Kinds |-> [p \in Proposers |-> [s \in Safekeepers |->
                   CASE k = "live" /\ p = p1 /\ s # s5  -> announce(3, end(s), hist)
                     [] k = "stale" /\ p = p2 /\ s = s5 -> announce(2, StartLsn, Since(2))
                     [] OTHER -> Closed]]]
      /\ won = {<<p2, 2>>, <<p1, 3>>}
      /\ committed = <<>>

MCInit ==
  /\ scenario \in Scenarios
  /\ budget = Scenario[scenario].budget
  /\ CASE Scenario[scenario].start = "fresh"      -> Init
       [] Scenario[scenario].start = "streaming"  -> Streaming1(p1, {s1, s2}, {}, NewProposer, 0)
       [] Scenario[scenario].start = "alone"      -> Streaming1(p3, {s1, s2}, {}, Dead, 1)
       [] Scenario[scenario].start = "everywhere" -> Streaming1(p3, Safekeepers, {s3}, NewProposer, 1)
       [] Scenario[scenario].start = "diverged"   -> Diverged
       [] Scenario[scenario].start = "superseded" -> Superseded
  /\ inmem = [s \in Safekeepers |-> [commit |-> StartLsn, horizon |-> StartLsn]]
  /\ toWp = [p \in Proposers |-> [s \in Safekeepers |-> <<>>]]
  /\ broker = [s \in Safekeepers |-> SafekeeperInfo(s)]

Spend(kind) ==
  budget[kind] > 0 /\ budget' = [budget EXCEPT ![kind] = @ - 1] /\ UNCHANGED scenario

\* The bounds of the scenario.
Within ==
  /\ UNCHANGED scenario
  /\ \A p \in Proposers :
       /\ wp'[p].avail <= Scenario[scenario].end /\ wp'[p].term <= Scenario[scenario].term
       /\ \A s \in Safekeepers :
            conn'["live"][p][s].open => <<p, s>> \in Scenario[scenario].links

MCNext ==
  \/ /\ UNCHANGED <<scenario, budget>>
     /\ \/ \E s \in Safekeepers : SafekeeperStep(s)
        \/ \E p \in Proposers, s \in Safekeepers : LoseStale(p, s)
  \/ UNCHANGED budget /\ \E p \in Proposers : ProposerStep(p) /\ Within
  \/ Spend("save") /\ \E s \in Safekeepers : PersistState(s)
  \/ Spend("publish") /\ \E s \in Safekeepers : Publish(s)
  \/ Spend("heartbeat")
     /\ \E p \in Proposers, s \in Safekeepers : Heartbeat(p, s)
  \/ Spend("bump") /\ \E s \in Safekeepers : BumpTerm(s)
  \/ Spend("switch") /\ \E s \in Safekeepers : SwitchMembership(s)
  \/ Spend("crash") /\ \E s \in Safekeepers : Crash(s)
  \/ Spend("kill") /\ \E p \in Proposers : Kill(p)
  \/ Spend("disconnect")
     /\ \E p \in Proposers, s \in Safekeepers : Disconnect(p, s)

MCSpec == MCInit /\ [][MCNext]_mcvars

\* For liveness: heartbeats are free, so that fairness can ask for them.
LiveNext ==
  \/ MCNext
  \/ UNCHANGED <<scenario, budget>> /\ \E p \in Proposers, s \in Safekeepers : Heartbeat(p, s)

LiveSpec == MCInit /\ [][LiveNext]_mcvars /\ Fairness

\* An elected walproposer that nobody competes with commits all its WAL, whatever
\* connection breaks or whichever safekeeper crashes on the way.
SoleComputeCommits ==
  Scenario[scenario].start = "alone" => <>(wp[p3].commit = MaxLsn)

=============================================================================
