---------------------------- MODULE HistoryProofs ----------------------------
(***************************************************************************)
(* Term histories across the whole system: the histories of safekeepers,   *)
(* of elected walproposers, of votes and of ProposerElected messages agree *)
(* on every term they have in common, and each of their terms was won.     *)
(* From there: no acknowledged WAL is cut, the history of a safekeeper     *)
(* describes its WAL, and walproposer's assertions hold.                   *)
(*                                                                         *)
(* First what one step of WalConsensus may do to term histories, WAL,      *)
(* messages and walproposers: every action is one of a few kinds of step   *)
(* (LEMMA StepCases).  The invariants about histories and WAL are proved   *)
(* from these, without looking at the handlers again, for quorums that     *)
(* intersect.                                                              *)
(***************************************************************************)
EXTENDS WalConsensusProofs

-----------------------------------------------------------------------------
(* Safekeepers *)

\* No change that matters here: the term may be raised and WAL flushed.
Keeps(s) ==
  /\ cf'[s].hist = cf[s].hist /\ cf'[s].term >= cf[s].term
  /\ wal'[s] = wal[s] /\ flushLsn'[s] >= flushLsn[s]

\* AppendRequest m is accepted.
Appends(s, m) ==
  /\ cf[s].term = m.term /\ WriteLsn(s) = m.begin
  /\ cf'[s].hist = cf[s].hist /\ cf'[s].term = cf[s].term
  /\ wal'[s] = wal[s] \o m.wal /\ flushLsn'[s] >= flushLsn[s]

\* ProposerElected m is accepted.
Adopts(s, m) ==
  /\ ElectedAccepted(s, m)
  /\ cf'[s].hist = m.hist /\ cf'[s].term = m.term
  /\ wal'[s] = SubSeq(wal[s], 1, m.start - StartLsn) /\ flushLsn'[s] = m.start

\* A restart after a crash, in handle_elected(m) or elsewhere.
RestartsIn(s, m) ==
  /\ ElectedAccepted(s, m)
  /\ cf'[s].hist = cf[s].hist /\ cf'[s].term = m.term
  /\ \E lsn \in m.start..WriteLsn(s) :
       wal'[s] = SubSeq(wal[s], 1, lsn - StartLsn) /\ flushLsn'[s] = lsn
Restarts(s) ==
  /\ cf'[s].hist = cf[s].hist /\ cf'[s].term = cf[s].term
  /\ \E lsn \in flushLsn[s]..WriteLsn(s) :
       wal'[s] = SubSeq(wal[s], 1, lsn - StartLsn) /\ flushLsn'[s] = lsn

\* What becomes of peer_horizon_lsn, on disk and in memory.
HorizonMove(s) ==
  /\ \/ cf'[s].horizon = cf[s].horizon \/ cf'[s].horizon = inmem[s].horizon
     \/ cf'[s].horizon = inmem'[s].horizon /\ inmem'[s].horizon >= inmem[s].horizon
  /\ inmem'[s].horizon >= inmem[s].horizon \/ inmem'[s].horizon = cf'[s].horizon

SafekeeperMove(s) ==
  /\ HorizonMove(s)
  /\ \/ Keeps(s)
     \/ Restarts(s)
     \/ \E k \in Kinds, p \in Proposers :
          \/ FirstMessage(k, p, s, "AppendRequest") /\ Appends(s, Message(k, p, s))
          \/ /\ FirstMessage(k, p, s, "ProposerElected")
             /\ Adopts(s, Message(k, p, s)) \/ RestartsIn(s, Message(k, p, s))

-----------------------------------------------------------------------------
(* Messages *)

\* p gets an answer of s that counts.
Acknowledges(p, s) ==
  /\ FirstAnswer(p, s, "AppendResponse") /\ sks[p][s].state = "ACTIVE"
  /\ ~ResponseFatal(p, Answer(p, s))

\* commitLsn and truncateLsn of p, before or after such an answer.
NewsOf(p, m) ==
  \/ m.commit = wp[p].commit /\ m.truncate = wp[p].truncate
  \/ \E x \in Safekeepers :
       LET w == Acknowledged(p, x, Answer(p, x))
       IN  /\ ReceiveAppendResponse(p, x) /\ Acknowledges(p, x)
           /\ m.commit = w.commit /\ m.truncate = w.truncate

\* An AppendRequest that p sends to s: empty, or with WAL that CanRead allows.
NewAppend(p, s, m) ==
  /\ sks[p][s].state = "ACTIVE"
  /\ m.type = "AppendRequest" /\ m.term = wp[p].term /\ m.begin = sks[p][s].streamingAt
  /\ NewsOf(p, m)
  /\ \/ m.wal = <<>>
     \/ \E donor \in Safekeepers : CanRead(p, s, donor) /\ m = AppendRequest(p, s, donor)

\* What p may send to s.
NewMessage(p, s, m) ==
  \/ m = VoteRequest(wp'[p])
  \/ m = ProposerElected(wp'[p], sks'[p][s]) /\ sks'[p][s].state = "ACTIVE"
  \/ NewAppend(p, s, m)

Activated(p, s) == sks'[p][s].state = "ACTIVE" /\ sks[p][s].state # "ACTIVE"

\* c becomes n.  The queue is as it was; ...
SameQueue(k, p, s, c, n) ==
  /\ n.queue = c.queue /\ (n.open => c.open) /\ (n.dirty => c.dirty)
  /\ k = "live" /\ n.open => ~Activated(p, s)

\* ... the messages are gone, in most cases with the connection; ...
Dropped(k, p, s, c, n) ==
  /\ n.queue = <<>>
  /\ k = "live" => ~n.dirty /\ (~n.open \/ sks'[p][s].state # "ACTIVE")

\* ... the first message has been handled, and if it was ProposerElected it was
\* adopted or is from a lower term; ...
Consumes(k, p, s, c, n) ==
  /\ c.queue # <<>> /\ n.queue = Tail(c.queue)
  /\ n.open => c.open
  /\ n.dirty => c.dirty \/ Head(c.queue).type = "AppendRequest"
  /\ Head(c.queue).type = "ProposerElected" =>
       cf[s].term > Head(c.queue).term \/ cf'[s].hist = Head(c.queue).hist
  /\ ~Activated(p, s)

\* ... or a message has been sent.
Sends(k, p, s, c, n) ==
  /\ k = "live" /\ c.open /\ (n.dirty => c.dirty)
  /\ \E m \in ToSafekeeper : /\ NewMessage(p, s, m) /\ n.queue = Append(c.queue, m)
                             /\ Activated(p, s) => m.type = "ProposerElected"

\* A live connection c is given up and becomes the stale one.
Leaves(k, p, s, c, n) ==
  /\ k = "stale"
  /\ \/ n.queue = conn["live"][p][s].queue
     \/ /\ conn["live"][p][s].open
        /\ \E m \in ToSafekeeper : /\ NewAppend(p, s, m)
                                   /\ n.queue = Append(conn["live"][p][s].queue, m)

ConnectionMove(k, p, s) ==
  LET c == conn[k][p][s]
      n == conn'[k][p][s]
  IN  \/ SameQueue(k, p, s, c, n) \/ Dropped(k, p, s, c, n) \/ Consumes(k, p, s, c, n)
      \/ Sends(k, p, s, c, n) \/ Leaves(k, p, s, c, n)

\* A vote, given or refused, in answer to the request r.
NewVote(s, r, m) ==
  /\ m = VoteReply(s, r) /\ flushLsn'[s] = WriteLsn(s)
  /\ cf'[s] = RaisedTerm(s, r.term) /\ UNCHANGED wal

\* What s may answer p.
NewAnswer(p, s, m) ==
  \/ m.type = "Greeting"
  \/ FirstMessage("live", p, s, "VoteRequest") /\ NewVote(s, Message("live", p, s), m)
  \/ /\ m.type = "AppendResponse"
     /\ \/ m.flush = 0
        \/ /\ m.flush = flushLsn'[s] /\ m.term = cf'[s].term /\ cf'[s].term = cf[s].term
           /\ \/ conn["live"][p][s].dirty
              \/ FirstMessage("live", p, s, "AppendRequest")

AnswerMove(p, s) ==
  \A m \in ToSet(toWp'[p][s]) : m \in ToSet(toWp[p][s]) \/ NewAnswer(p, s, m)

-----------------------------------------------------------------------------
(* Walproposers *)

Rests(p) == ~Alive(p) /\ wp'[p] = wp[p] /\ sks'[p] = sks[p]

Exits(p) ==
  /\ wp'[p].state \in {"SYNCED", "DEAD"}
  /\ \A s \in Safekeepers :
       /\ sks'[p][s] = Offline /\ ToSet(toWp'[p][s]) = {}
       /\ conn'["live"][p][s] = Closed

Campaigns(p) ==
  /\ wp[p].state \in {"COLLECTING_TERMS", "CAMPAIGN"}
  /\ wp'[p].state \in {"COLLECTING_TERMS", "CAMPAIGN"}
  /\ wp[p].state = "CAMPAIGN" => wp'[p].state = "CAMPAIGN" /\ wp'[p].term = wp[p].term
  /\ wp[p].state # "CAMPAIGN" /\ wp'[p].state = "CAMPAIGN" => wp'[p].term > 0

Leads(p) ==
  /\ wp[p].state = "ELECTED" /\ wp'[p].state = "ELECTED"
  /\ wp'[p].term = wp[p].term /\ wp'[p].start = wp[p].start /\ wp'[p].hist = wp[p].hist
  /\ wp'[p].donor = wp[p].donor /\ wp'[p].gen = wp[p].gen /\ wp'[p].avail >= wp[p].avail

\* Where p streams to s from, when it starts to because of vote m.
StreamsFrom(w, m) == StartStreamingAt(w.hist, w.term, m.hist, m.flush)

\* What p keeps of s.
SafekeeperRecordMove(p, s) ==
  /\ \/ sks'[p][s].flush = sks[p][s].flush
     \/ /\ wp[p].state = "ELECTED"
        /\ \E m \in ToSet(toWp[p][s]) :
             m.type = "AppendResponse" /\ ~ResponseFatal(p, m) /\ sks'[p][s].flush = m.flush
  /\ sks'[p][s].state = "WAIT_ELECTED" =>
       \/ sks[p][s].state = "WAIT_ELECTED" /\ sks'[p][s].vote = sks[p][s].vote
       \/ /\ wp[p].state = "CAMPAIGN"
          /\ \E m \in ToSet(toWp[p][s]) : Given(m) /\ sks'[p][s].vote = VoteOf(m)
  /\ sks'[p][s].state = "ACTIVE" =>
       \/ /\ sks[p][s].state = "ACTIVE"
          /\ \/ sks'[p][s].streamingAt = sks[p][s].streamingAt
             \/ sks'[p][s].streamingAt = SendEnd(p, s)
       \/ /\ wp[p].state = "ELECTED"
          /\ \E m \in ToSet(toWp[p][s]) :
               m.type = "Vote" /\ ~VoteFatal(p, m) /\ sks'[p][s].streamingAt = StreamsFrom(wp[p], m)

ProposerMove(p) ==
  \/ Rests(p)
  \/ Exits(p)
  \/ (Campaigns(p) \/ Leads(p)) /\ \A s \in Safekeepers : SafekeeperRecordMove(p, s)

\* Those who win are not candidates any more.
WonMove ==
  /\ won \subseteq won'
  /\ \A e \in won' : e \in won \/ wp'[e[1]].state \in {"SYNCED", "DEAD"}

\* p wins with the vote of s, and recovers from donor.
Wins(p, s, donor) ==
  LET m == Answer(p, s)
      w == ElectedProposer(p, s, m, donor)
  IN  /\ FirstAnswer(p, s, "Vote") /\ Given(m)
      /\ wp[p].state = "CAMPAIGN"
      /\ HasQuorum(wp[p].gen, Voters(p, s)) /\ donor \in Voters(p, s)
      /\ \A x \in Voters(p, s) : VoteAtLeast(VoteWith(p, s, m, donor), VoteWith(p, s, m, x))
      /\ wp'[p] = w
      /\ \A x \in Safekeepers :
           sks'[p][x] = IF x = s \/ sks[p][x].state = "WAIT_ELECTED"
                        THEN Streaming(w, sks[p][x], VoteWith(p, s, m, x))
                        ELSE sks[p][x]
      /\ won' = won \cup {<<p, wp[p].term>>}
      /\ UNCHANGED skVars
      /\ \A q \in Proposers : q # p => wp'[q] = wp[q] /\ sks'[q] = sks[q]

-----------------------------------------------------------------------------

Moves ==
  /\ \A s \in Safekeepers : SafekeeperMove(s)
  /\ \A k \in Kinds, p \in Proposers, s \in Safekeepers : ConnectionMove(k, p, s)
  /\ \A p \in Proposers, s \in Safekeepers : AnswerMove(p, s)

QuietMove == Moves /\ WonMove /\ \A p \in Proposers : ProposerMove(p)

WinMove ==
  /\ Moves
  /\ \E p \in Proposers, s, donor \in Safekeepers : Wins(p, s, donor)

-----------------------------------------------------------------------------
(* Who does not take part *)

\* LSNs, terms and horizons that are compared are numbers.
LEMMA SafekeeperNumbers ==
  ASSUME SafekeeperTypeOK, NEW s \in Safekeepers
  PROVE  /\ cf[s].term \in Int /\ flushLsn[s] \in Int /\ inmem[s].horizon \in Int
         /\ WriteLsn(s) \in Int
PROOF
  <1>1. \A l \in Lsns : l \in Int
    BY Ranges
  <1>2. flushLsn[s] \in Lsns /\ inmem[s].horizon \in Lsns /\ WriteLsn(s) \in Lsns
    BY SafekeeperFacts
  <1> QED BY <1>1, <1>2, FileTermType

\* A safekeeper that does nothing.
LEMMA SafekeeperIdle ==
  ASSUME SafekeeperTypeOK, NEW s \in Safekeepers, inmem'[s] = inmem[s],
         cf'[s] = cf[s], wal'[s] = wal[s], flushLsn'[s] = flushLsn[s]
  PROVE  SafekeeperMove(s)
BY SafekeeperNumbers DEF SafekeeperMove, HorizonMove, Keeps

\* None of them does anything.
LEMMA AllSafekeepersIdle ==
  ASSUME SafekeeperTypeOK, UNCHANGED skVars
  PROVE  \A s \in Safekeepers : SafekeeperMove(s)
PROOF
  <1>1. UNCHANGED cf /\ UNCHANGED wal /\ UNCHANGED flushLsn /\ UNCHANGED inmem
    BY DEF skVars
  <1> QED BY <1>1, SafekeeperIdle

\* Only safekeeper s moves.
LEMMA OneSafekeeperMoves ==
  ASSUME SafekeeperTypeOK, NEW s \in Safekeepers,
         NEW c, NEW im, NEW w, NEW f,
         cf' = [cf EXCEPT ![s] = c], inmem' = [inmem EXCEPT ![s] = im],
         wal' = [wal EXCEPT ![s] = w], flushLsn' = [flushLsn EXCEPT ![s] = f]
  PROVE  /\ cf'[s] = c /\ inmem'[s] = im /\ wal'[s] = w /\ flushLsn'[s] = f
         /\ SafekeeperMove(s) => \A x \in Safekeepers : SafekeeperMove(x)
PROOF
  <1>1. ASSUME NEW x \in Safekeepers, x # s PROVE SafekeeperMove(x)
    <2>1. /\ cf'[x] = cf[x] /\ wal'[x] = wal[x] /\ flushLsn'[x] = flushLsn[x]
          /\ inmem'[x] = inmem[x]
      BY <1>1 DEF SafekeeperTypeOK
    <2> QED BY <2>1, SafekeeperIdle
  <1>2. cf'[s] = c /\ inmem'[s] = im /\ wal'[s] = w /\ flushLsn'[s] = f
    BY DEF SafekeeperTypeOK
  <1> QED BY <1>1, <1>2

\* A walproposer that does nothing.
LEMMA ProposerIdle ==
  ASSUME WalProposerOK, NEW p \in Proposers, wp'[p] = wp[p], sks'[p] = sks[p]
  PROVE  ProposerMove(p)
PROOF
  <1>1. \A s \in Safekeepers : SafekeeperRecordMove(p, s)
    BY DEF SafekeeperRecordMove
  <1>2. Alive(p) => Campaigns(p) \/ Leads(p)
    <2>1. wp[p].avail \in Int
      BY ProposerFacts, OptRanges DEF WalProposerOK, WalProposerTypeOK
    <2> QED BY <2>1 DEF Alive, Campaigns, Leads
  <1> QED BY <1>1, <1>2 DEF ProposerMove, Rests

\* None of them does anything.
LEMMA AllProposersIdle ==
  ASSUME WalProposerOK, UNCHANGED wpVars
  PROVE  /\ \A p \in Proposers : ProposerMove(p)
         /\ \A p \in Proposers, s \in Safekeepers : ~Activated(p, s)
PROOF
  <1>1. UNCHANGED wp /\ UNCHANGED sks
    BY DEF wpVars
  <1> QED BY <1>1, ProposerIdle DEF Activated

\* Nobody wins.
LEMMA NobodyWins == UNCHANGED won => WonMove
BY DEF WonMove

\* A connection that nothing happens on.
LEMMA ConnectionIdle ==
  ASSUME NEW k, NEW p, NEW s, conn'[k][p][s] = conn[k][p][s], ~Activated(p, s)
  PROVE  ConnectionMove(k, p, s)
BY DEF ConnectionMove, SameQueue

\* Answers that nobody touches.
LEMMA AnswersIdle ==
  ASSUME NEW p, NEW s, toWp'[p][s] = toWp[p][s]
  PROVE  AnswerMove(p, s)
BY DEF AnswerMove

\* A step that touches neither connections nor walproposers.
LEMMA LocalMove ==
  ASSUME TypeOK, UNCHANGED wpVars, UNCHANGED netVars, UNCHANGED won,
         \A s \in Safekeepers : SafekeeperMove(s)
  PROVE  QuietMove
PROOF
  <1>1. UNCHANGED conn /\ UNCHANGED toWp /\ WalProposerOK
    BY Parts DEF netVars
  <1>2. /\ \A p \in Proposers : ProposerMove(p)
        /\ \A p \in Proposers, s \in Safekeepers : ~Activated(p, s)
    BY <1>1, AllProposersIdle
  <1>3. \A k \in Kinds, p \in Proposers, s \in Safekeepers : ConnectionMove(k, p, s)
    BY <1>1, <1>2, ConnectionIdle
  <1>4. \A p \in Proposers, s \in Safekeepers : AnswerMove(p, s)
    BY <1>1, AnswersIdle
  <1> QED BY <1>2, <1>3, <1>4, NobodyWins DEF QuietMove, Moves

\* One connection changes, and perhaps its answers.
LEMMA OneConnectionMoves ==
  ASSUME TypeOK, UNCHANGED wpVars, UNCHANGED won,
         \A s \in Safekeepers : SafekeeperMove(s),
         NEW k \in Kinds, NEW p \in Proposers, NEW s \in Safekeepers, NEW n, NEW a,
         conn' = [conn EXCEPT ![k][p][s] = n], ConnectionMove(k, p, s),
         toWp' = toWp \/ toWp' = [toWp EXCEPT ![p][s] = a], AnswerMove(p, s)
  PROVE  QuietMove
PROOF
  <1>1. ConnOK /\ ToWpOK /\ WalProposerOK
    BY Parts
  <1>2. /\ \A q \in Proposers : ProposerMove(q)
        /\ \A q \in Proposers, x \in Safekeepers : ~Activated(q, x)
    BY <1>1, AllProposersIdle
  <1>3. ASSUME NEW j \in Kinds, NEW q \in Proposers, NEW x \in Safekeepers
        PROVE  ConnectionMove(j, q, x)
    <2>1. CASE j = k /\ q = p /\ x = s
      BY <2>1
    <2>2. CASE ~(j = k /\ q = p /\ x = s)
      <3>1. conn'[j][q][x] = conn[j][q][x]
        BY <1>1, <2>2 DEF ConnOK
      <3> QED BY <1>2, <3>1, ConnectionIdle
    <2> QED BY <2>1, <2>2
  <1>4. ASSUME NEW q \in Proposers, NEW x \in Safekeepers
        PROVE  AnswerMove(q, x)
    <2>1. CASE q = p /\ x = s
      BY <2>1
    <2>2. CASE ~(q = p /\ x = s)
      <3>1. toWp'[q][x] = toWp[q][x]
        BY <1>1, <2>2 DEF ToWpOK
      <3> QED BY <3>1, AnswersIdle
    <2> QED BY <2>1, <2>2
  <1> QED BY <1>2, <1>3, <1>4, NobodyWins DEF QuietMove, Moves

-----------------------------------------------------------------------------
(* Safekeepers that move *)

\* Control files with the same history and a horizon that was known before.
KeepsFile(s, c) ==
  /\ c.hist = cf[s].hist /\ c.term >= cf[s].term
  /\ c.horizon = cf[s].horizon \/ c.horizon = inmem[s].horizon

\* Everything but handle_elected writes such files.
LEMMA FilesKept ==
  ASSUME SafekeeperTypeOK, NEW s \in Safekeepers
  PROVE  /\ KeepsFile(s, cf[s]) /\ KeepsFile(s, StartChange(s))
         /\ \A t \in Terms : KeepsFile(s, RaisedTerm(s, t))
         /\ \A l : KeepsFile(s, FlushedCommit(s, l)) /\ FlushedCommit(s, l).term = cf[s].term
         /\ \A g : KeepsFile(s, [StartChange(s) EXCEPT !.gen = g])
PROOF
  <1> DEFINE c == StartChange(s)
  <1>1. cf[s] \in ControlFiles /\ cf[s].term \in Int /\ Terms \in SUBSET Int
    BY SafekeeperFacts, FileTermType, TermsAreInts
  <1>2. c.term = cf[s].term /\ c.hist = cf[s].hist /\ c.horizon = inmem[s].horizon
    BY <1>1 DEF StartChange, ControlFiles
  <1>3. c \in ControlFiles
    BY StartChangeType
  <1>4. KeepsFile(s, cf[s]) /\ KeepsFile(s, c)
    BY <1>1, <1>2 DEF KeepsFile
  <1> HIDE DEF c
  <1>5. ASSUME NEW t \in Terms PROVE KeepsFile(s, RaisedTerm(s, t))
    <2> DEFINE d == [c EXCEPT !.term = t]
    <2>1. d.term = t /\ d.hist = c.hist /\ d.horizon = c.horizon
      BY <1>3 DEF ControlFiles
    <2>2. RaisedTerm(s, t) = IF cf[s].term < t THEN d ELSE cf[s]
      BY DEF RaisedTerm, c
    <2> HIDE DEF d
    <2> QED BY <1>1, <1>2, <1>4, <2>1, <2>2 DEF KeepsFile
  <1>6. ASSUME NEW l
        PROVE  KeepsFile(s, FlushedCommit(s, l)) /\ FlushedCommit(s, l).term = cf[s].term
    <2> DEFINE d == [c EXCEPT !.commit = l]
    <2>1. d.term = c.term /\ d.hist = c.hist /\ d.horizon = c.horizon
      BY <1>3 DEF ControlFiles
    <2>2. FlushedCommit(s, l) = d \/ FlushedCommit(s, l) = cf[s]
      BY DEF FlushedCommit, c
    <2> HIDE DEF d
    <2> QED BY <1>1, <1>2, <1>4, <2>1, <2>2 DEF KeepsFile
  <1>7. ASSUME NEW g PROVE KeepsFile(s, [c EXCEPT !.gen = g])
    <2> DEFINE d == [c EXCEPT !.gen = g]
    <2>1. d.term = c.term /\ d.hist = c.hist /\ d.horizon = c.horizon
      BY <1>3 DEF ControlFiles
    <2> HIDE DEF d
    <2> QED BY <1>1, <1>2, <2>1 DEF KeepsFile
  <1> QED BY <1>4, <1>5, <1>6, <1>7 DEF c

\* Only s moves, and keeps its history and WAL.
LEMMA KeepsMove ==
  ASSUME SafekeeperTypeOK, NEW s \in Safekeepers, NEW c, NEW im, NEW f,
         KeepsFile(s, c), im.horizon >= inmem[s].horizon, f >= flushLsn[s],
         cf' = [cf EXCEPT ![s] = c], inmem' = [inmem EXCEPT ![s] = im],
         flushLsn' = [flushLsn EXCEPT ![s] = f], UNCHANGED wal
  PROVE  \A x \in Safekeepers : SafekeeperMove(x)
PROOF
  <1>1. wal' = [wal EXCEPT ![s] = wal[s]]
    BY DEF SafekeeperTypeOK
  <1>2. cf'[s] = c /\ inmem'[s] = im /\ wal'[s] = wal[s] /\ flushLsn'[s] = f
    BY DEF SafekeeperTypeOK
  <1>3. SafekeeperMove(s)
    BY <1>2 DEF SafekeeperMove, HorizonMove, Keeps, KeepsFile
  <1> QED BY <1>1, <1>3, OneSafekeeperMoves

\* Only the control file of s changes.
LEMMA FileMove ==
  ASSUME SafekeeperTypeOK, NEW s \in Safekeepers, NEW c, KeepsFile(s, c),
         cf' = [cf EXCEPT ![s] = c], UNCHANGED <<inmem, wal, flushLsn>>
  PROVE  \A x \in Safekeepers : SafekeeperMove(x)
PROOF
  <1>1. /\ inmem' = [inmem EXCEPT ![s] = inmem[s]]
        /\ flushLsn' = [flushLsn EXCEPT ![s] = flushLsn[s]]
    BY DEF SafekeeperTypeOK
  <1>2. inmem[s].horizon >= inmem[s].horizon /\ flushLsn[s] >= flushLsn[s]
    BY SafekeeperNumbers
  <1> QED BY <1>1, <1>2, KeepsMove

\* membership_switch, from a greeting or the storage controller.
LEMMA GreetingMove ==
  ASSUME SafekeeperTypeOK, NEW s \in Safekeepers, NEW gen, MembershipSwitch(s, gen)
  PROVE  \A x \in Safekeepers : SafekeeperMove(x)
PROOF
  <1>1. \/ cf' = [cf EXCEPT ![s] = cf[s]]
        \/ cf' = [cf EXCEPT ![s] = [StartChange(s) EXCEPT !.gen = gen]]
    BY DEF MembershipSwitch, SafekeeperTypeOK
  <1>2. UNCHANGED <<inmem, wal, flushLsn>>
    BY DEF MembershipSwitch
  <1> QED BY <1>1, <1>2, FilesKept, FileMove

\* handle_vote_request
LEMMA VoteRequestMove ==
  ASSUME SafekeeperTypeOK, NEW s \in Safekeepers, NEW m, m.term \in Terms,
         HandleVoteRequest(s, m)
  PROVE  \A x \in Safekeepers : SafekeeperMove(x)
PROOF
  <1>1. inmem' = [inmem EXCEPT ![s] = inmem[s]]
    BY DEF SafekeeperTypeOK, HandleVoteRequest
  <1>2. inmem[s].horizon >= inmem[s].horizon /\ WriteLsn(s) >= flushLsn[s]
    BY SafekeeperNumbers, SafekeeperFacts
  <1>3. KeepsFile(s, RaisedTerm(s, m.term))
    BY FilesKept
  <1> QED BY <1>1, <1>2, <1>3, KeepsMove DEF HandleVoteRequest

\* handle_flush
LEMMA FlushMove ==
  ASSUME SafekeeperTypeOK, NEW s \in Safekeepers, HandleFlush(s)
  PROVE  (\A x \in Safekeepers : SafekeeperMove(x)) /\ UNCHANGED cf
PROOF
  <1>1. inmem' = [inmem EXCEPT ![s] = inmem[s]] /\ cf' = [cf EXCEPT ![s] = cf[s]]
    BY DEF SafekeeperTypeOK, HandleFlush
  <1>2. inmem[s].horizon >= inmem[s].horizon /\ WriteLsn(s) >= flushLsn[s]
    BY SafekeeperNumbers, SafekeeperFacts
  <1>3. KeepsFile(s, cf[s])
    BY FilesKept
  <1> QED BY <1>1, <1>2, <1>3, KeepsMove DEF HandleFlush

\* The error paths of handle_elected.
LEMMA RefuseElectedMove ==
  ASSUME SafekeeperTypeOK, NEW s \in Safekeepers, NEW m, m.term \in Terms, RefuseElected(s, m)
  PROVE  \A x \in Safekeepers : SafekeeperMove(x)
PROOF
  <1>1. cf' = [cf EXCEPT ![s] = cf[s]] \/ cf' = [cf EXCEPT ![s] = RaisedTerm(s, m.term)]
    BY DEF RefuseElected, SafekeeperTypeOK
  <1>2. UNCHANGED <<inmem, wal, flushLsn>>
    BY DEF RefuseElected
  <1> QED BY <1>1, <1>2, FilesKept, FileMove

\* handle_elected, when the message is accepted.
LEMMA AdoptMove ==
  ASSUME SafekeeperTypeOK, NEW s \in Safekeepers, NEW k \in Kinds, NEW p \in Proposers,
         FirstMessage(k, p, s, "ProposerElected"), AdoptElected(s, Message(k, p, s))
  PROVE  /\ \A x \in Safekeepers : SafekeeperMove(x)
         /\ cf'[s].hist = Message(k, p, s).hist
PROOF
  <1> DEFINE m == Message(k, p, s)
             commit == Higher(inmem[s].commit, StartLsn)
             w == SubSeq(wal[s], 1, m.start - StartLsn)
             c == [StartChange(s) EXCEPT !.term = m.term, !.commit = commit, !.hist = m.hist]
             im == [inmem[s] EXCEPT !.commit = commit]
  <1>1. StartChange(s) \in ControlFiles /\ inmem[s] \in InMemStates
    BY StartChangeType, SafekeeperFacts
  <1>2. /\ c.term = m.term /\ c.hist = m.hist /\ c.horizon = StartChange(s).horizon
        /\ im.horizon = inmem[s].horizon
    BY <1>1 DEF ControlFiles, InMemStates
  <1>3. StartChange(s).horizon = inmem[s].horizon
    BY SafekeeperFacts DEF StartChange, ControlFiles
  <1>4. /\ cf' = [cf EXCEPT ![s] = c] /\ inmem' = [inmem EXCEPT ![s] = im]
        /\ wal' = [wal EXCEPT ![s] = w] /\ flushLsn' = [flushLsn EXCEPT ![s] = m.start]
        /\ ElectedAccepted(s, m)
    BY DEF AdoptElected
  <1> HIDE DEF c, im, w
  <1>5. cf'[s] = c /\ inmem'[s] = im /\ wal'[s] = w /\ flushLsn'[s] = m.start
    BY <1>4 DEF SafekeeperTypeOK
  <1>6. HorizonMove(s)
    BY <1>2, <1>3, <1>5, SafekeeperNumbers DEF HorizonMove
  <1>7. Adopts(s, m)
    BY <1>2, <1>4, <1>5 DEF Adopts, w
  <1>8. SafekeeperMove(s)
    BY <1>6, <1>7 DEF SafekeeperMove
  <1>9. \A x \in Safekeepers : SafekeeperMove(x)
    BY <1>4, <1>8, OneSafekeeperMoves, ZenonT(60)
  <1> QED BY <1>2, <1>5, <1>9

\* Finished segments are flushed; nothing that was flushed is not.
LEMMA SegmentsOnlyFlush ==
  ASSUME SafekeeperTypeOK, NEW s \in Safekeepers, NEW end \in Lsns
  PROVE  FlushedBySegments(s, end) >= flushLsn[s]
PROOF
  <1> DEFINE ends == {l \in SegmentEnds : flushLsn[s] < l /\ l <= end}
  <1>1. flushLsn[s] \in Int /\ end \in Int /\ SegmentEnds \in SUBSET Nat
    BY SafekeeperNumbers, Ranges, LsnAssumption
  <1>2. CASE ends = {}
    BY <1>1, <1>2 DEF FlushedBySegments
  <1>3. CASE ends # {}
    <2>1. flushLsn[s] \in Nat
      BY SafekeeperFacts, Ranges
    <2>2. ends \in SUBSET (flushLsn[s]..end) /\ ends \in SUBSET Int
      <3>1. ASSUME NEW l \in ends PROVE l \in flushLsn[s]..end /\ l \in Int
        <4>1. l \in Int /\ flushLsn[s] < l /\ l <= end
          BY <1>1, <3>1
        <4> QED BY <1>1, <4>1
      <3> HIDE DEF ends
      <3> QED BY <3>1
    <2>3. IsFiniteSet(ends)
      BY <1>1, <2>2, FS_Interval, FS_Subset
    <2>4. Max(ends) \in ends
      BY <1>3, <2>2, <2>3, MaxProperties
    <2>5. FlushedBySegments(s, end) = Max(ends)
      BY <1>3 DEF FlushedBySegments
    <2>6. Max(ends) \in Int /\ flushLsn[s] < Max(ends)
      BY <2>2, <2>4
    <2> QED BY <1>1, <2>5, <2>6
  <1> QED BY <1>2, <1>3

\* handle_append_request
LEMMA AppendMove ==
  ASSUME SafekeeperTypeOK, NEW s \in Safekeepers, NEW k \in Kinds, NEW p \in Proposers,
         FirstMessage(k, p, s, "AppendRequest"), Message(k, p, s) \in ToSafekeeper,
         HandleAppendRequest(s, Message(k, p, s))
  PROVE  /\ (\A x \in Safekeepers : SafekeeperMove(x)) /\ cf'[s].term = cf[s].term
         /\ Appends(s, Message(k, p, s))
PROOF
  <1> DEFINE m == Message(k, p, s)
             end == m.begin + Len(m.wal)
             flush == FlushedBySegments(s, end)
             commit == IF m.commit = 0 THEN inmem[s].commit ELSE NewCommitLsn(s, m.commit, flush)
             c == IF m.commit = 0 THEN cf[s] ELSE FlushedCommit(s, commit)
             w == wal[s] \o m.wal
             im == [commit |-> commit, horizon |-> Higher(inmem[s].horizon, m.truncate)]
  <1>1. /\ m.type = "AppendRequest" /\ m.term \in Terms /\ m.begin \in Lsns
        /\ m.wal \in Seq(Terms) /\ end <= MaxLsn /\ m.truncate \in OptLsns
    <2>1. m.type = "AppendRequest"
      BY DEF FirstMessage, Message
    <2> QED BY <2>1, MessageFacts
  <1>2. /\ ~AppendRefused(s, m) /\ ~AppendIgnored(s, m)
        /\ wal' = [wal EXCEPT ![s] = w] /\ flushLsn' = [flushLsn EXCEPT ![s] = flush]
        /\ inmem' = [inmem EXCEPT ![s] = im]
        /\ cf' = IF m.commit = 0 THEN cf ELSE [cf EXCEPT ![s] = FlushedCommit(s, commit)]
    BY DEF HandleAppendRequest
  <1>3. cf' = [cf EXCEPT ![s] = c]
    BY <1>2 DEF SafekeeperTypeOK
  <1>4. KeepsFile(s, c) /\ c.term = cf[s].term
    <2> HIDE DEF commit
    <2> QED BY FilesKept
  <1>5. im.horizon >= inmem[s].horizon
    <2>1. m.truncate \in Int /\ inmem[s].horizon \in Int
      BY <1>1, OptRanges, SafekeeperNumbers
    <2>2. im.horizon = Higher(inmem[s].horizon, m.truncate)
      OBVIOUS
    <2> QED BY <2>1, <2>2, LowerBounds
  <1>6. flush >= flushLsn[s]
    <2>1. Len(m.wal) \in Nat
      BY <1>1, LenProperties
    <2>2. m.begin \in Int /\ StartLsn <= m.begin /\ StartLsn \in Int
      BY <1>1, LsnRange, Ranges
    <2>3. end \in Int /\ StartLsn <= end
      BY <2>1, <2>2
    <2>4. end \in Lsns
      BY <1>1, <2>3, LsnRange
    <2> QED BY <2>4, SegmentsOnlyFlush
  <1>7. cf[s].term = m.term /\ WriteLsn(s) = m.begin
    <2>1. m.term \in Int /\ cf[s].term \in Int
      BY <1>1, TermsAreInts, FileTermType
    <2> QED BY <1>2, <2>1 DEF AppendRefused, AppendIgnored
  <1> HIDE DEF c, im, w, flush, commit
  <1>8. cf'[s] = c /\ inmem'[s] = im /\ wal'[s] = w /\ flushLsn'[s] = flush
    BY <1>2, <1>3 DEF SafekeeperTypeOK
  <1>9. HorizonMove(s) /\ Appends(s, m)
    BY <1>4, <1>5, <1>6, <1>7, <1>8 DEF HorizonMove, Appends, KeepsFile, w
  <1>10. SafekeeperMove(s)
    BY <1>9 DEF SafekeeperMove
  <1>11. \A x \in Safekeepers : SafekeeperMove(x)
    BY <1>2, <1>3, <1>10, OneSafekeeperMoves
  <1> QED BY <1>4, <1>8, <1>9, <1>11

\* record_safekeeper_info
LEMMA InfoMove ==
  ASSUME SafekeeperTypeOK, NEW s \in Safekeepers, NEW info, info.commit \in Lsns,
         info.horizon \in Lsns, RecordSafekeeperInfo(s, info)
  PROVE  \A x \in Safekeepers : SafekeeperMove(x)
PROOF
  <1>1. PICK c, im :
          /\ InfoTaken(s, info, c, im)
          /\ cf' = [cf EXCEPT ![s] = c] /\ inmem' = [inmem EXCEPT ![s] = im]
          /\ UNCHANGED wal /\ UNCHANGED flushLsn /\ UNCHANGED termStart
    BY InfoIsTaken
  <1>2. inmem[s].horizon \in Int /\ info.horizon \in Int /\ cf[s].term \in Int /\ flushLsn[s] \in Int
    BY SafekeeperNumbers, Ranges
  <1>3. im.horizon >= inmem[s].horizon
    BY <1>1, <1>2 DEF InfoTaken, Higher
  <1>4. /\ cf' = [cf EXCEPT ![s] = c] /\ inmem' = [inmem EXCEPT ![s] = im]
        /\ wal' = [wal EXCEPT ![s] = wal[s]] /\ flushLsn' = [flushLsn EXCEPT ![s] = flushLsn[s]]
    BY <1>1 DEF SafekeeperTypeOK
  <1>5. cf'[s] = c /\ inmem'[s] = im /\ wal'[s] = wal[s] /\ flushLsn'[s] = flushLsn[s]
    BY <1>1 DEF SafekeeperTypeOK
  <1>6. HorizonMove(s)
    BY <1>1, <1>3, <1>5 DEF InfoTaken, HorizonMove
  <1>7. Keeps(s)
    BY <1>1, <1>2, <1>5 DEF InfoTaken, Keeps
  <1>8. SafekeeperMove(s)
    BY <1>6, <1>7 DEF SafekeeperMove
  <1> QED BY <1>4, <1>8, OneSafekeeperMoves

\* A restart, with or without WAL that was not flushed.
LEMMA RestartMove ==
  ASSUME SafekeeperTypeOK, NEW s \in Safekeepers, CrashRestart(s)
  PROVE  \A x \in Safekeepers : SafekeeperMove(x)
PROOF
  <1>1. PICK lsn \in flushLsn[s]..WriteLsn(s) : RestartWith(s, cf[s], lsn)
    BY DEF CrashRestart
  <1> DEFINE im == [commit |-> cf[s].commit, horizon |-> cf[s].horizon]
             w == SubSeq(wal[s], 1, lsn - StartLsn)
  <1>2. /\ cf' = [cf EXCEPT ![s] = cf[s]] /\ inmem' = [inmem EXCEPT ![s] = im]
        /\ wal' = [wal EXCEPT ![s] = w] /\ flushLsn' = [flushLsn EXCEPT ![s] = lsn]
    BY <1>1 DEF RestartWith
  <1>3. im.horizon = cf[s].horizon
    OBVIOUS
  <1> HIDE DEF im, w
  <1>4. cf'[s] = cf[s] /\ inmem'[s] = im /\ wal'[s] = w /\ flushLsn'[s] = lsn
    BY <1>2 DEF SafekeeperTypeOK
  <1>5. HorizonMove(s) /\ Restarts(s)
    BY <1>3, <1>4 DEF HorizonMove, Restarts, w
  <1>6. SafekeeperMove(s)
    BY <1>5 DEF SafekeeperMove
  <1> QED BY <1>2, <1>6, OneSafekeeperMoves

\* A crash inside handle_elected.
LEMMA CrashInElectedMove ==
  ASSUME SafekeeperTypeOK, NEW s \in Safekeepers, NEW k \in Kinds, NEW p \in Proposers,
         FirstMessage(k, p, s, "ProposerElected"), Message(k, p, s).term \in Terms,
         CrashInElected(s, Message(k, p, s))
  PROVE  \A x \in Safekeepers : SafekeeperMove(x)
PROOF
  <1> DEFINE m == Message(k, p, s)
             c == RaisedTerm(s, m.term)
  <1>1. PICK lsn \in m.start..WriteLsn(s) : RestartWith(s, c, lsn)
    BY DEF CrashInElected
  <1> DEFINE im == [commit |-> c.commit, horizon |-> c.horizon]
             w == SubSeq(wal[s], 1, lsn - StartLsn)
  <1>2. /\ cf' = [cf EXCEPT ![s] = c] /\ inmem' = [inmem EXCEPT ![s] = im]
        /\ wal' = [wal EXCEPT ![s] = w] /\ flushLsn' = [flushLsn EXCEPT ![s] = lsn]
        /\ ElectedAccepted(s, m)
    BY <1>1 DEF RestartWith, CrashInElected
  <1>3. im.horizon = c.horizon /\ KeepsFile(s, c)
    BY FilesKept
  <1>4. c.term = m.term
    <2>1. cf[s].term <= m.term /\ m.term \in Int /\ cf[s].term \in Int
      BY <1>2, TermsAreInts, FileTermType DEF ElectedAccepted, ElectedExpected
    <2>2. cf[s].term < m.term => c.term = m.term
      BY FileTerms
    <2>3. ~(cf[s].term < m.term) => c = cf[s]
      BY DEF RaisedTerm
    <2> QED BY <2>1, <2>2, <2>3
  <1> HIDE DEF im, w, c
  <1>5. cf'[s] = c /\ inmem'[s] = im /\ wal'[s] = w /\ flushLsn'[s] = lsn
    BY <1>2 DEF SafekeeperTypeOK
  <1>6. HorizonMove(s) /\ RestartsIn(s, m)
    BY <1>2, <1>3, <1>4, <1>5 DEF HorizonMove, RestartsIn, KeepsFile, w
  <1>7. SafekeeperMove(s)
    BY <1>6 DEF SafekeeperMove
  <1> QED BY <1>2, <1>7, OneSafekeeperMoves

-----------------------------------------------------------------------------
(* Steps of safekeepers *)

\* A message is handled and answered.
LEMMA HandledMove ==
  ASSUME TypeOK, UNCHANGED wpVars, UNCHANGED won,
         \A x \in Safekeepers : SafekeeperMove(x),
         NEW k \in Kinds, NEW p \in Proposers, NEW s \in Safekeepers,
         NEW t, FirstMessage(k, p, s, t), NEW d, NEW replies \in Seq(ToProposer),
         Handled(k, p, s, d, replies),
         d => conn[k][p][s].dirty \/ t = "AppendRequest",
         t = "ProposerElected" =>
           cf[s].term > Message(k, p, s).term \/ cf'[s].hist = Message(k, p, s).hist,
         k = "live" => \A m \in ToSet(replies) : NewAnswer(p, s, m)
  PROVE  QuietMove
PROOF
  <1> DEFINE c == conn[k][p][s]
             n == Consumed(k, c, d)
             a == toWp[p][s] \o replies
  <1>1. ConnOK /\ ToWpOK /\ WalProposerOK
    BY Parts
  <1>2. c \in Connections /\ c.queue # <<>> /\ toWp[p][s] \in Seq(ToProposer)
    BY <1>1, ConnectionFacts, AnswerQueueFacts DEF FirstMessage
  <1>3. conn' = [conn EXCEPT ![k][p][s] = n]
    BY DEF Handled
  <1>4. toWp' = IF k = "live" THEN [toWp EXCEPT ![p][s] = a] ELSE toWp
    BY DEF Handled
  <1>5. ConnectionMove(k, p, s)
    <2>1. conn'[k][p][s] = n
      BY <1>1, <1>3 DEF ConnOK
    <2>2. ~Activated(p, s)
      BY <1>1, AllProposersIdle
    <2>3. CASE n = Closed /\ k = "stale"
      <3>1. Dropped(k, p, s, c, n)
        BY <2>3 DEF Dropped, Closed
      <3> HIDE DEF n
      <3> QED BY <2>1, <3>1 DEF ConnectionMove
    <2>4. CASE n = [c EXCEPT !.queue = Tail(@), !.dirty = d]
      <3>1. n.queue = Tail(c.queue) /\ n.open = c.open /\ n.dirty = d
        BY <1>2, <2>4 DEF Connections
      <3>2. Head(c.queue).type = t /\ Head(c.queue) = Message(k, p, s)
        BY DEF FirstMessage, Message
      <3> HIDE DEF n
      <3>3. Consumes(k, p, s, c, n)
        BY <1>2, <2>2, <3>1, <3>2 DEF Consumes
      <3> QED BY <2>1, <3>3 DEF ConnectionMove
    <2> QED BY <2>3, <2>4 DEF Consumed
  <1>6. AnswerMove(p, s)
    <2>1. CASE k # "live"
      BY <1>4, <2>1, AnswersIdle
    <2>2. CASE k = "live"
      <3>1. toWp'[p][s] = a
        BY <1>1, <1>4, <2>2 DEF ToWpOK
      <3>2. ToSet(a) = ToSet(toWp[p][s]) \cup ToSet(replies)
        BY <1>2, QueueElements
      <3> HIDE DEF a
      <3> QED BY <2>2, <3>1, <3>2 DEF AnswerMove
    <2> QED BY <2>1, <2>2
  <1> HIDE DEF n, a
  <1>7. toWp' = toWp \/ toWp' = [toWp EXCEPT ![p][s] = a]
    BY <1>4
  <1> QED BY <1>3, <1>5, <1>6, <1>7, OneConnectionMoves

\* handle_vote_request
LEMMA ReceiveVoteRequestMove ==
  ASSUME TypeOK, NEW k \in Kinds, NEW p \in Proposers, NEW s \in Safekeepers,
         ReceiveVoteRequest(k, p, s)
  PROVE  QuietMove
PROOF
  <1> DEFINE m == Message(k, p, s)
             v == VoteReply(s, m)
             r == <<v>>
             d == conn[k][p][s].dirty
  <1>1. SafekeeperTypeOK /\ ConnOK
    BY Parts
  <1>2. FirstMessage(k, p, s, "VoteRequest") /\ HandleVoteRequest(s, m)
    BY DEF ReceiveVoteRequest
  <1>3. m.term \in Terms
    BY <1>1, <1>2, ReceivedType, MessageFacts
  <1>4. /\ UNCHANGED wpVars /\ UNCHANGED won /\ Handled(k, p, s, d, r)
    BY DEF ReceiveVoteRequest, history
  <1>5. \A x \in Safekeepers : SafekeeperMove(x)
    BY <1>1, <1>2, <1>3, VoteRequestMove
  <1>6. r \in Seq(ToProposer) /\ ToSet(r) = {v}
    <2>1. TypeOK'
      BY ReceiveMessageType DEF ReceiveMessage
    <2> QED BY <1>1, <2>1, PartsNext, VoteReplyType, EmptySeq, AddLast, SmallQueues
  <1>7. NewVote(s, m, v)
    BY <1>1, <1>2 DEF NewVote, HandleVoteRequest, SafekeeperTypeOK
  <1>8. k = "live" => \A e \in ToSet(r) : NewAnswer(p, s, e)
    BY <1>2, <1>6, <1>7 DEF NewAnswer
  <1>9. "VoteRequest" # "ProposerElected" /\ (d => conn[k][p][s].dirty \/ "VoteRequest" = "AppendRequest")
    OBVIOUS
  <1> HIDE DEF r, d
  <1> QED BY <1>2, <1>4, <1>5, <1>6, <1>8, <1>9, HandledMove

\* handle_elected, accepted or ignored.
LEMMA ReceiveElectedMove ==
  ASSUME TypeOK, NEW k \in Kinds, NEW p \in Proposers, NEW s \in Safekeepers,
         ReceiveElected(k, p, s)
  PROVE  QuietMove
PROOF
  <1> DEFINE m == Message(k, p, s)
             r == <<>>
             d == conn[k][p][s].dirty
  <1>1. SafekeeperTypeOK /\ ConnOK
    BY Parts
  <1>2. /\ FirstMessage(k, p, s, "ProposerElected") /\ UNCHANGED wpVars /\ UNCHANGED won
        /\ Handled(k, p, s, d, r)
        /\ AdoptElected(s, m) \/ (ElectedIgnored(s, m) /\ UNCHANGED skVars)
    BY DEF ReceiveElected, history
  <1>3. /\ \A x \in Safekeepers : SafekeeperMove(x)
        /\ cf[s].term > m.term \/ cf'[s].hist = m.hist
    BY <1>1, <1>2, AdoptMove, AllSafekeepersIdle DEF ElectedIgnored
  <1>4. r \in Seq(ToProposer) /\ ToSet(r) = {}
    BY EmptySeq, SmallQueues
  <1>5. d => conn[k][p][s].dirty \/ "ProposerElected" = "AppendRequest"
    OBVIOUS
  <1> HIDE DEF r, d
  <1> QED BY <1>2, <1>3, <1>4, <1>5, HandledMove

\* handle_append_request, accepted or ignored.
LEMMA ReceiveAppendMove ==
  ASSUME TypeOK, NEW k \in Kinds, NEW p \in Proposers, NEW s \in Safekeepers,
         ReceiveAppend(k, p, s)
  PROVE  QuietMove
PROOF
  <1> DEFINE m == Message(k, p, s)
  <1>1. SafekeeperTypeOK /\ ConnOK /\ TypeOK'
    BY Parts, ReceiveMessageType DEF ReceiveMessage
  <1>2. FirstMessage(k, p, s, "AppendRequest") /\ UNCHANGED wpVars /\ UNCHANGED won
    BY DEF ReceiveAppend, history
  <1>3. m \in ToSafekeeper
    BY <1>1, <1>2, ReceivedType
  <1>4. ASSUME NEW r \in Seq(ToProposer), Handled(k, p, s, TRUE, r),
               \A x \in Safekeepers : SafekeeperMove(x),
               k = "live" => \A e \in ToSet(r) : NewAnswer(p, s, e)
        PROVE  QuietMove
    <2>1. "AppendRequest" # "ProposerElected"
      OBVIOUS
    <2> QED BY <1>2, <1>4, <2>1, HandledMove
  <1>5. CASE HandleAppendRequest(s, m)
    <2> DEFINE a == AppendReply(s)
               r == IF flushLsn'[s] = flushLsn[s] THEN <<>> ELSE <<a>>
    <2>1. (\A x \in Safekeepers : SafekeeperMove(x)) /\ cf'[s].term = cf[s].term
      BY <1>1, <1>2, <1>3, <1>5, AppendMove
    <2>2. a \in ToProposer
      BY <1>1, PartsNext, ReplyTypes
    <2>3. k = "live" => NewAnswer(p, s, a)
      BY <1>2, <2>1 DEF NewAnswer, AppendReply
    <2> HIDE DEF a
    <2>4. r \in Seq(ToProposer) /\ \A e \in ToSet(r) : e = a
      BY <2>2, EmptySeq, AddLast, SmallQueues
    <2>5. Handled(k, p, s, TRUE, r) \/ AppendIgnored(s, m)
      BY DEF ReceiveAppend, a
    <2>6. ~AppendIgnored(s, m)
      BY <1>5 DEF HandleAppendRequest
    <2> HIDE DEF r
    <2> QED BY <1>4, <2>1, <2>3, <2>4, <2>5, <2>6
  <1>6. CASE AppendIgnored(s, m) /\ Handled(k, p, s, TRUE, <<TermOnlyReply(s)>>) /\ UNCHANGED skVars
    <2> DEFINE a == TermOnlyReply(s)
               r == <<a>>
    <2>1. \A x \in Safekeepers : SafekeeperMove(x)
      BY <1>1, <1>6, AllSafekeepersIdle
    <2>2. a \in ToProposer /\ NewAnswer(p, s, a)
      BY <1>1, TermOnlyReplyType DEF NewAnswer, TermOnlyReply
    <2> HIDE DEF a
    <2>3. r \in Seq(ToProposer) /\ ToSet(r) = {a}
      BY <2>2, EmptySeq, AddLast, SmallQueues
    <2>4. Handled(k, p, s, TRUE, r)
      BY <1>6 DEF a
    <2> HIDE DEF r
    <2> QED BY <1>4, <2>1, <2>2, <2>3, <2>4
  <1> QED BY <1>5, <1>6 DEF ReceiveAppend

\* process_msg fails.
LEMMA RefuseMessageMove ==
  ASSUME TypeOK, NEW k \in Kinds, NEW p \in Proposers, NEW s \in Safekeepers,
         RefuseMessage(k, p, s)
  PROVE  QuietMove
PROOF
  <1> DEFINE m == Message(k, p, s)
  <1>1. SafekeeperTypeOK /\ ConnOK
    BY Parts
  <1>2. /\ conn' = [conn EXCEPT ![k][p][s] = Closed] /\ toWp' = toWp
        /\ UNCHANGED wpVars /\ UNCHANGED won
    BY DEF RefuseMessage, Refused, history
  <1>3. \A x \in Safekeepers : SafekeeperMove(x)
    <2>1. CASE UNCHANGED skVars
      BY <1>1, <2>1, AllSafekeepersIdle
    <2>2. CASE FirstMessage(k, p, s, "ProposerElected") /\ RefuseElected(s, m)
      <3>1. m.term \in Terms
        BY <1>1, <2>2, ReceivedType, MessageFacts
      <3> QED BY <1>1, <2>2, <3>1, RefuseElectedMove
    <2> QED BY <2>1, <2>2 DEF RefuseMessage
  <1>4. conn'[k][p][s] = Closed
    BY <1>1, <1>2 DEF ConnOK
  <1>5. ConnectionMove(k, p, s)
    BY <1>4 DEF ConnectionMove, Dropped, Closed
  <1>6. AnswerMove(p, s)
    BY <1>2, AnswersIdle
  <1> QED BY <1>2, <1>3, <1>5, <1>6, OneConnectionMoves

\* Written WAL is flushed and acknowledged.
LEMMA FlushWalMove ==
  ASSUME TypeOK, NEW k \in Kinds, NEW p \in Proposers, NEW s \in Safekeepers, FlushWal(k, p, s)
  PROVE  QuietMove
PROOF
  <1> DEFINE c == conn[k][p][s]
             n == IF k = "stale" /\ c.queue = <<>> THEN Closed ELSE [c EXCEPT !.dirty = FALSE]
             e == AppendReply(s)
             a == Append(toWp[p][s], e)
  <1>1. SafekeeperTypeOK /\ ConnOK /\ ToWpOK /\ WalProposerOK /\ TypeOK'
    BY Parts, FlushWalType
  <1>2. /\ conn' = [conn EXCEPT ![k][p][s] = n] /\ c.dirty
        /\ toWp' = IF k = "live" THEN [toWp EXCEPT ![p][s] = a] ELSE toWp
        /\ HandleFlush(s) /\ UNCHANGED wpVars /\ UNCHANGED won
    BY DEF FlushWal, history
  <1>3. (\A x \in Safekeepers : SafekeeperMove(x)) /\ UNCHANGED cf
    BY <1>1, <1>2, FlushMove
  <1>4. ConnectionMove(k, p, s)
    <2>1. conn'[k][p][s] = n
      BY <1>1, <1>2 DEF ConnOK
    <2>2. ~Activated(p, s)
      BY <1>1, <1>2, AllProposersIdle
    <2>3. c \in Connections
      BY <1>1, ConnectionFacts
    <2>4. n.queue = c.queue /\ (n.open => c.open) /\ (n.dirty => c.dirty)
      BY <2>3 DEF Connections, Closed
    <2> HIDE DEF n
    <2> QED BY <2>1, <2>2, <2>4 DEF ConnectionMove, SameQueue
  <1>5. AnswerMove(p, s)
    <2>1. CASE k # "live"
      BY <1>2, <2>1, AnswersIdle
    <2>2. CASE k = "live"
      <3>1. toWp'[p][s] = a
        BY <1>1, <1>2, <2>2 DEF ToWpOK
      <3>2. toWp[p][s] \in Seq(ToProposer) /\ e \in ToProposer
        BY <1>1, AnswerQueueFacts, PartsNext, ReplyTypes
      <3>3. NewAnswer(p, s, e)
        BY <1>2, <1>3, <2>2 DEF NewAnswer, AppendReply
      <3> HIDE DEF e
      <3>4. ToSet(a) = ToSet(toWp[p][s]) \cup {e}
        BY <3>2, QueueElements
      <3> HIDE DEF a
      <3> QED BY <3>1, <3>3, <3>4 DEF AnswerMove
    <2> QED BY <2>1, <2>2
  <1> HIDE DEF n, a
  <1>6. toWp' = toWp \/ toWp' = [toWp EXCEPT ![p][s] = a]
    BY <1>2
  <1> QED BY <1>2, <1>3, <1>4, <1>5, <1>6, OneConnectionMoves

\* The steps of a safekeeper that involve no connection.
LEMMA LocalStepMove ==
  ASSUME TypeOK, NEW s \in Safekeepers,
         \/ Publish(s) \/ PersistState(s) \/ BumpTerm(s) \/ SwitchMembership(s)
         \/ \E peer \in Safekeepers : ReceiveInfo(s, peer)
  PROVE  QuietMove
PROOF
  <1>1. SafekeeperTypeOK
    BY Parts
  <1>2. UNCHANGED wpVars /\ UNCHANGED netVars /\ UNCHANGED won
    BY DEF Publish, PersistState, BumpTerm, SwitchMembership, ReceiveInfo, history
  <1>3. \A x \in Safekeepers : SafekeeperMove(x)
    <2>1. CASE Publish(s)
      BY <1>1, <2>1, AllSafekeepersIdle DEF Publish
    <2>2. CASE PersistState(s)
      BY <1>1, <2>2, FilesKept, FileMove DEF PersistState, SaveControlFile
    <2>3. CASE BumpTerm(s)
      <3>1. cf[s].term + 1 \in Terms
        BY <1>1, <2>3, SafekeeperFacts, MaxTermAssumption DEF BumpTerm, Terms
      <3> QED BY <1>1, <2>3, <3>1, FilesKept, FileMove DEF BumpTerm, TermBump
    <2>4. CASE SwitchMembership(s)
      <3>1. MembershipSwitch(s, cf[s].gen + 1)
        BY <2>4 DEF SwitchMembership
      <3> QED BY <1>1, <3>1, GreetingMove
    <2>5. ASSUME NEW peer \in Safekeepers, ReceiveInfo(s, peer)
          PROVE  \A x \in Safekeepers : SafekeeperMove(x)
      <3>1. broker[peer].commit \in Lsns /\ broker[peer].horizon \in Lsns
        BY Parts DEF BrokerOK, Infos
      <3> QED BY <1>1, <2>5, <3>1, InfoMove DEF ReceiveInfo
    <2> QED BY <2>1, <2>2, <2>3, <2>4, <2>5
  <1> QED BY <1>2, <1>3, LocalMove

\* A crash takes the safekeeper's side of all its connections away.
LEMMA CrashMove ==
  ASSUME TypeOK, NEW s \in Safekeepers, Crash(s)
  PROVE  QuietMove
PROOF
  <1>1. SafekeeperTypeOK /\ ConnOK /\ WalProposerOK
    BY Parts
  <1>2. conn' = ConnectionsOf(s) /\ UNCHANGED wpVars /\ UNCHANGED toWp /\ UNCHANGED won
    BY DEF Crash, history
  <1>3. \A x \in Safekeepers : SafekeeperMove(x)
    <2>1. CASE CrashRestart(s)
      BY <1>1, <2>1, RestartMove
    <2>2. ASSUME NEW k \in Kinds, NEW p \in Proposers,
                 FirstMessage(k, p, s, "ProposerElected"), CrashInElected(s, Message(k, p, s))
          PROVE  \A x \in Safekeepers : SafekeeperMove(x)
      <3>1. Message(k, p, s).term \in Terms
        BY <1>1, <2>2, ReceivedType, MessageFacts
      <3> QED BY <1>1, <2>2, <3>1, CrashInElectedMove
    <2> QED BY <2>1, <2>2 DEF Crash
  <1>4. /\ \A q \in Proposers : ProposerMove(q)
        /\ \A q \in Proposers, x \in Safekeepers : ~Activated(q, x)
    BY <1>1, <1>2, AllProposersIdle
  <1>5. ASSUME NEW k \in Kinds, NEW p \in Proposers, NEW x \in Safekeepers
        PROVE  ConnectionMove(k, p, x)
    <2>1. conn'[k][p][x] = IF x = s THEN Closed ELSE conn[k][p][x]
      BY <1>1, <1>2 DEF ConnectionsOf, ConnOK
    <2>2. CASE x = s
      BY <2>1, <2>2 DEF ConnectionMove, Dropped, Closed
    <2>3. CASE x # s
      BY <1>4, <2>1, <2>3, ConnectionIdle
    <2> QED BY <2>2, <2>3
  <1>6. \A p \in Proposers, x \in Safekeepers : AnswerMove(p, x)
    BY <1>2, AnswersIdle
  <1> QED BY <1>2, <1>3, <1>4, <1>5, <1>6, NobodyWins DEF QuietMove, Moves

\* Messages on a stale connection are lost.
LEMMA LoseStaleMove ==
  ASSUME TypeOK, NEW p \in Proposers, NEW s \in Safekeepers, LoseStale(p, s)
  PROVE  QuietMove
PROOF
  <1> DEFINE c == conn["stale"][p][s]
             n == IF c.dirty THEN [c EXCEPT !.queue = <<>>] ELSE Closed
  <1>1. SafekeeperTypeOK /\ ConnOK /\ "stale" \in Kinds
    BY Parts DEF Kinds
  <1>2. /\ conn' = [conn EXCEPT !["stale"][p][s] = n] /\ toWp' = toWp
        /\ UNCHANGED skVars /\ UNCHANGED wpVars /\ UNCHANGED won
    BY DEF LoseStale, history
  <1>3. \A x \in Safekeepers : SafekeeperMove(x)
    BY <1>1, <1>2, AllSafekeepersIdle
  <1>4. ConnectionMove("stale", p, s)
    <2>1. conn'["stale"][p][s] = n /\ c \in Connections
      BY <1>1, <1>2, ConnectionFacts DEF ConnOK
    <2>2. n.queue = <<>>
      BY <2>1 DEF Connections, Closed
    <2> HIDE DEF n
    <2> QED BY <2>1, <2>2 DEF ConnectionMove, Dropped
  <1>5. AnswerMove(p, s)
    BY <1>2, AnswersIdle
  <1> HIDE DEF n
  <1> QED BY <1>1, <1>2, <1>3, <1>4, <1>5, OneConnectionMoves

-----------------------------------------------------------------------------
(* Steps of walproposers *)

\* Only p moves.
LEMMA OneProposerMoves ==
  ASSUME WalProposerOK, NEW p \in Proposers, NEW w, NEW k,
         wp' = [wp EXCEPT ![p] = w], sks' = [sks EXCEPT ![p] = k]
  PROVE  /\ wp'[p] = w /\ sks'[p] = k
         /\ \A q \in Proposers : q # p => wp'[q] = wp[q] /\ sks'[q] = sks[q]
         /\ \A q \in Proposers, x \in Safekeepers : q # p => ~Activated(q, x)
         /\ ProposerMove(p) => \A q \in Proposers : ProposerMove(q)
PROOF
  <1>1. /\ wp'[p] = w /\ sks'[p] = k
        /\ \A q \in Proposers : q # p => wp'[q] = wp[q] /\ sks'[q] = sks[q]
    BY OthersStay, ZenonT(60)
  <1>2. \A q \in Proposers : q # p => ProposerMove(q)
    BY <1>1, ProposerIdle
  <1> QED BY <1>1, <1>2 DEF Activated

\* An answer is taken and messages are sent: each follows from the state entered.
LEMMA AnsweredMove ==
  ASSUME TypeOK, WalProposerOK', NEW p \in Proposers, NEW s \in Safekeepers,
         toWp[p][s] # <<>>, Answered(p, s),
         \A q \in Proposers, x \in Safekeepers : q # p => ~Activated(q, x)
  PROVE  /\ \A k \in Kinds, q \in Proposers, x \in Safekeepers : ConnectionMove(k, q, x)
         /\ \A q \in Proposers, x \in Safekeepers : AnswerMove(q, x)
PROOF
  <1> DEFINE f == [x \in Safekeepers |-> Sent(conn["live"][p][x], Outgoing(p, x))]
  <1>1. ConnOK /\ ToWpOK /\ "live" \in Kinds /\ Kinds = {"live", "stale"}
    BY Parts DEF Kinds
  <1>2. conn' = [conn EXCEPT !["live"][p] = f] /\ toWp' = [toWp EXCEPT ![p][s] = Tail(toWp[p][s])]
    BY DEF Answered
  <1>3. ASSUME NEW k \in Kinds, NEW q \in Proposers, NEW x \in Safekeepers,
               k # "live" \/ q # p
        PROVE  ConnectionMove(k, q, x)
    <2>1. conn'[k][q][x] = conn[k][q][x]
      BY <1>1, <1>2, <1>3 DEF ConnOK
    <2>2. k = "live" => ~Activated(q, x)
      BY <1>3
    <2> QED BY <2>1, <2>2 DEF ConnectionMove, SameQueue
  <1>4. ASSUME NEW x \in Safekeepers PROVE ConnectionMove("live", p, x)
    <2> DEFINE c == conn["live"][p][x]
               out == Outgoing(p, x)
               n == Sent(c, out)
    <2>1. conn'["live"][p][x] = n
      BY <1>1, <1>2 DEF ConnOK
    <2>2. c \in Connections /\ c.queue \in Seq(ToSafekeeper) /\ out \in Seq(ToSafekeeper)
      BY <1>1, ConnectionFacts, OutgoingType
    <2>3. CASE ~c.open
      <3>1. n = c
        BY <2>3 DEF Sent
      <3> HIDE DEF n
      <3> QED BY <2>1, <2>3, <3>1 DEF ConnectionMove, SameQueue
    <2>4. CASE c.open
      <3>1. n.queue = c.queue \o out /\ n.open = c.open /\ n.dirty = c.dirty
        BY <2>2, <2>4 DEF Sent, Connections
      <3>2. \/ out = <<>> /\ ~Activated(p, x)
            \/ out = <<VoteRequest(wp'[p])>> /\ ~Activated(p, x)
            \/ out = <<ProposerElected(wp'[p], sks'[p][x])>> /\ sks'[p][x].state = "ACTIVE"
        BY DEF Outgoing, Activated
      <3> HIDE DEF n, out
      <3>3. CASE out = <<>> /\ ~Activated(p, x)
        <4>1. n.queue = c.queue
          BY <2>2, <3>1, <3>3, ConcatEmptySeq
        <4> QED BY <2>1, <3>1, <3>3, <4>1 DEF ConnectionMove, SameQueue
      <3>4. ASSUME NEW m, out = <<m>>, NewMessage(p, x, m),
                   Activated(p, x) => m.type = "ProposerElected"
            PROVE  ConnectionMove("live", p, x)
        <4>1. m \in ToSafekeeper
          <5>1. out[1] = m /\ 1 \in 1..Len(out)
            BY <3>4
          <5> QED BY <2>2, <5>1, SeqFacts
        <4>2. n.queue = Append(c.queue, m)
          BY <2>2, <3>1, <3>4, <4>1, AppendIsConcat
        <4>3. Sends("live", p, x, c, n)
          BY <2>4, <3>1, <3>4, <4>1, <4>2 DEF Sends
        <4> QED BY <2>1, <4>3 DEF ConnectionMove
      <3>5. CASE out = <<VoteRequest(wp'[p])>> /\ ~Activated(p, x)
        BY <3>4, <3>5 DEF NewMessage
      <3>6. CASE out = <<ProposerElected(wp'[p], sks'[p][x])>> /\ sks'[p][x].state = "ACTIVE"
        <4>1. ProposerElected(wp'[p], sks'[p][x]).type = "ProposerElected"
          BY DEF ProposerElected
        <4> QED BY <3>4, <3>6, <4>1 DEF NewMessage
      <3> QED BY <3>2, <3>3, <3>5, <3>6
    <2> QED BY <2>3, <2>4
  <1>5. ASSUME NEW q \in Proposers, NEW x \in Safekeepers PROVE AnswerMove(q, x)
    <2>1. CASE q = p /\ x = s
      <3>1. toWp'[p][s] = Tail(toWp[p][s]) /\ toWp[p][s] \in Seq(ToProposer)
        BY <1>1, <1>2, AnswerQueueFacts DEF ToWpOK
      <3>2. ToSet(Tail(toWp[p][s])) \in SUBSET ToSet(toWp[p][s])
        BY <3>1, QueueElements
      <3> QED BY <2>1, <3>1, <3>2 DEF AnswerMove
    <2>2. CASE ~(q = p /\ x = s)
      <3>1. toWp'[q][x] = toWp[q][x]
        BY <1>1, <1>2, <2>2 DEF ToWpOK
      <3> QED BY <3>1, AnswersIdle
    <2> QED BY <2>1, <2>2
  <1> QED BY <1>1, <1>3, <1>4, <1>5

\* Connections are given up; what p still sends on them is an AppendRequest.
LEMMA GiveUpMove ==
  ASSUME TypeOK, NEW p \in Proposers, NEW gone, NEW last, GiveUp(p, gone, last),
         \A q \in Proposers, x \in Safekeepers : q # p \/ x \notin gone => ~Activated(q, x),
         \A x \in Safekeepers : \/ last[x] = <<>>
                                \/ \E m \in ToSafekeeper : NewAppend(p, x, m) /\ last[x] = <<m>>
  PROVE  /\ \A k \in Kinds, q \in Proposers, x \in Safekeepers : ConnectionMove(k, q, x)
         /\ \A q \in Proposers, x \in Safekeepers : AnswerMove(q, x)
         /\ \A x \in Safekeepers \cap gone :
              conn'["live"][p][x] = Closed /\ ToSet(toWp'[p][x]) = {}
PROOF
  <1> DEFINE live == [s \in Safekeepers |-> IF s \in gone THEN Closed ELSE conn["live"][p][s]]
             left(x) == Abandoned(Sent(conn["live"][p][x], last[x]), conn["stale"][p][x])
             stale == [s \in Safekeepers |-> IF s \in gone THEN left(s) ELSE conn["stale"][p][s]]
             answers == [s \in Safekeepers |-> IF s \in gone THEN <<>> ELSE toWp[p][s]]
  <1>1. /\ ConnOK /\ ToWpOK /\ Kinds = {"live", "stale"} /\ "live" # "stale"
        /\ "live" \in Kinds /\ "stale" \in Kinds
    BY Parts DEF Kinds
  <1>2. conn' = [conn EXCEPT !["live"][p] = live, !["stale"][p] = stale]
    BY DEF GiveUp
  <1>3. toWp' = [toWp EXCEPT ![p] = answers]
    BY DEF GiveUp
  <1>4. ASSUME NEW q \in Proposers, NEW x \in Safekeepers
        PROVE  /\ conn'["live"][q][x] = IF q = p THEN live[x] ELSE conn["live"][q][x]
               /\ conn'["stale"][q][x] = IF q = p THEN stale[x] ELSE conn["stale"][q][x]
               /\ toWp'[q][x] = IF q = p THEN answers[x] ELSE toWp[q][x]
    <2> HIDE DEF live, stale, answers
    <2> QED BY <1>1, <1>2, <1>3 DEF ConnOK, ToWpOK
  <1>5. ASSUME NEW q \in Proposers, NEW x \in Safekeepers
        PROVE  ConnectionMove("live", q, x) /\ AnswerMove(q, x)
    <2>1. CASE q = p /\ x \in gone
      <3>1. conn'["live"][q][x] = Closed /\ toWp'[q][x] = <<>>
        BY <1>4, <2>1
      <3>2. ConnectionMove("live", q, x)
        BY <3>1 DEF ConnectionMove, Dropped, Closed
      <3> QED BY <3>1, <3>2, SmallQueues DEF AnswerMove
    <2>2. CASE ~(q = p /\ x \in gone)
      <3>1. conn'["live"][q][x] = conn["live"][q][x] /\ toWp'[q][x] = toWp[q][x]
        BY <1>4, <2>2
      <3> QED BY <2>2, <3>1, ConnectionIdle, AnswersIdle
    <2> QED BY <2>1, <2>2
  <1>6. ASSUME NEW q \in Proposers, NEW x \in Safekeepers
        PROVE  ConnectionMove("stale", q, x)
    <2>1. CASE q = p /\ x \in gone
      <3> DEFINE c == conn["live"][p][x]
                 n == Sent(c, last[x])
      <3>1. conn'["stale"][q][x] = conn["stale"][q][x] \/ conn'["stale"][q][x] = n
        <4>1. conn'["stale"][q][x] = left(x)
          BY <1>4, <2>1
        <4> QED BY <2>1, <4>1 DEF Abandoned
      <3>2. CASE conn'["stale"][q][x] = conn["stale"][q][x]
        BY <3>2, SMTT(60) DEF ConnectionMove, SameQueue
      <3>3. CASE conn'["stale"][q][x] = n
        <4>1. c \in Connections /\ c.queue \in Seq(ToSafekeeper)
          BY <1>1, ConnectionFacts
        <4>2. n.queue = c.queue \/ (c.open /\ n.queue = c.queue \o last[x])
          BY <4>1 DEF Sent, Connections
        <4>3. \/ n.queue = c.queue
              \/ /\ c.open
                 /\ \E m \in ToSafekeeper : NewAppend(p, x, m) /\ n.queue = Append(c.queue, m)
          <5>1. c.queue \o <<>> = c.queue
            BY <4>1, ConcatEmptySeq
          <5>2. \A m \in ToSafekeeper : c.queue \o <<m>> = Append(c.queue, m)
            BY <4>1, AppendIsConcat
          <5> HIDE DEF n, c
          <5> QED BY <4>2, <5>1, <5>2
        <4> HIDE DEF n
        <4> QED BY <2>1, <3>3, <4>3 DEF ConnectionMove, Leaves
      <3> QED BY <3>1, <3>2, <3>3
    <2>2. CASE ~(q = p /\ x \in gone)
      <3>1. conn'["stale"][q][x] = conn["stale"][q][x]
        BY <1>4, <2>2
      <3> QED BY <3>1 DEF ConnectionMove, SameQueue
    <2> QED BY <2>1, <2>2
  <1>7. \A x \in Safekeepers \cap gone : conn'["live"][p][x] = Closed /\ ToSet(toWp'[p][x]) = {}
    BY <1>4, SmallQueues
  <1> QED BY <1>1, <1>5, <1>6, <1>7

\* A process that exits, and what remains of its connections.
LEMMA ExitMove ==
  ASSUME TypeOK, NEW p \in Proposers, NEW state \in {"SYNCED", "DEAD"}, NEW lsn, NEW last,
         Exit(p, state, lsn), GiveUp(p, Safekeepers, last), UNCHANGED skVars,
         \A x \in Safekeepers : \/ last[x] = <<>>
                                \/ \E m \in ToSafekeeper : NewAppend(p, x, m) /\ last[x] = <<m>>
  PROVE  /\ Moves /\ (\A q \in Proposers : ProposerMove(q)) /\ wp'[p].state = state
PROOF
  <1> DEFINE w == Exited(state, lsn)
             k == [s \in Safekeepers |-> Offline]
  <1>1. SafekeeperTypeOK /\ WalProposerOK
    BY Parts
  <1>2. wp' = [wp EXCEPT ![p] = w] /\ sks' = [sks EXCEPT ![p] = k]
    BY DEF Exit
  <1>3. w.state = state /\ \A x \in Safekeepers : k[x] = Offline
    BY DEF Exited, NewProposer
  <1> HIDE DEF w, k
  <1>4. /\ wp'[p] = w /\ sks'[p] = k
        /\ \A q \in Proposers, x \in Safekeepers : q # p => ~Activated(q, x)
        /\ ProposerMove(p) => \A q \in Proposers : ProposerMove(q)
    BY <1>1, <1>2, OneProposerMoves, ZenonT(60)
  <1>5. \A q \in Proposers, x \in Safekeepers : q # p \/ x \notin Safekeepers => ~Activated(q, x)
    BY <1>4
  <1>6. /\ \A j \in Kinds, q \in Proposers, x \in Safekeepers : ConnectionMove(j, q, x)
        /\ \A q \in Proposers, x \in Safekeepers : AnswerMove(q, x)
        /\ \A x \in Safekeepers \cap Safekeepers :
             conn'["live"][p][x] = Closed /\ ToSet(toWp'[p][x]) = {}
    BY <1>5, GiveUpMove
  <1>7. Exits(p)
    BY <1>3, <1>4, <1>6 DEF Exits
  <1>8. \A x \in Safekeepers : SafekeeperMove(x)
    BY <1>1, AllSafekeepersIdle
  <1> QED BY <1>3, <1>4, <1>6, <1>7, <1>8 DEF Moves, ProposerMove

\* Nothing is sent on the connections.
LEMMA NoLastSends == \A x \in Safekeepers : NoLast[x] = <<>>
BY DEF NoLast

\* An answer that ends the process, or a kill.
LEMMA DieMove ==
  ASSUME TypeOK, NEW p \in Proposers, Die(p), GiveUp(p, Safekeepers, NoLast),
         UNCHANGED skVars, UNCHANGED won
  PROVE  QuietMove
PROOF
  <1>1. Exit(p, "DEAD", 0)
    BY DEF Die
  <1>2. Moves /\ \A q \in Proposers : ProposerMove(q)
    BY <1>1, ExitMove, NoLastSends
  <1> QED BY <1>2, NobodyWins DEF QuietMove

\* Only what p keeps of s changes, not so that streaming starts.
LEMMA OneRecordMoves ==
  ASSUME TypeOK, NEW p \in Proposers, NEW s \in Safekeepers, Alive(p), NEW sk,
         sks' = [sks EXCEPT ![p][s] = sk], UNCHANGED wp
  PROVE  /\ sks'[p][s] = sk
         /\ \A q \in Proposers, x \in Safekeepers : q # p \/ x # s => ~Activated(q, x)
         /\ SafekeeperRecordMove(p, s) => \A q \in Proposers : ProposerMove(q)
PROOF
  <1> DEFINE k == [sks[p] EXCEPT ![s] = sk]
  <1>1. WalProposerOK
    BY Parts
  <1>2. sks' = [sks EXCEPT ![p] = k]
    BY <1>1 DEF WalProposerOK, WalProposerTypeOK
  <1>3. \A x \in Safekeepers : k[x] = IF x = s THEN sk ELSE sks[p][x]
    BY <1>1, OneRecord
  <1> HIDE DEF k
  <1>4. sks'[p] = k /\ \A q \in Proposers : q # p => sks'[q] = sks[q]
    BY <1>1, <1>2 DEF WalProposerOK, WalProposerTypeOK
  <1>5. \A q \in Proposers : q # p => ProposerMove(q) /\ \A x \in Safekeepers : ~Activated(q, x)
    BY <1>1, <1>4, ProposerIdle DEF Activated
  <1>6. \A x \in Safekeepers : x # s => ~Activated(p, x) /\ SafekeeperRecordMove(p, x)
    BY <1>3, <1>4 DEF Activated, SafekeeperRecordMove
  <1>7. Campaigns(p) \/ Leads(p)
    <2>1. wp[p].avail \in Int
      BY <1>1, ProposerFacts, OptRanges DEF WalProposerOK, WalProposerTypeOK
    <2> QED BY <2>1 DEF Alive, Campaigns, Leads
  <1> QED BY <1>3, <1>4, <1>5, <1>6, <1>7 DEF ProposerMove

\* A connection is made and greeted.
LEMMA ConnectMove ==
  ASSUME TypeOK, NEW p \in Proposers, NEW s \in Safekeepers, Connect(p, s)
  PROVE  QuietMove
PROOF
  <1> DEFINE sk == [sks[p][s] EXCEPT !.state = "HANDSHAKE_RECV"]
             n == [Closed EXCEPT !.open = TRUE]
             g == GreetingReply(s)
  <1>1. SafekeeperTypeOK /\ ConnOK /\ ToWpOK /\ WalProposerOK /\ "live" \in Kinds
    BY Parts DEF Kinds
  <1>2. /\ sks' = [sks EXCEPT ![p][s] = sk] /\ UNCHANGED wp /\ Alive(p)
        /\ conn' = [conn EXCEPT !["live"][p][s] = n] /\ toWp' = [toWp EXCEPT ![p][s] = <<g>>]
        /\ UNCHANGED won /\ MembershipSwitch(s, wp[p].gen)
    BY DEF Connect, StartConnection, HandleGreeting, history
  <1>3. sk.state = "HANDSHAKE_RECV" /\ sk.flush = sks[p][s].flush
    BY <1>1, OneRecord DEF SafekeeperRecords
  <1>4. n.queue = <<>> /\ ~n.dirty /\ g.type = "Greeting"
    BY DEF Closed, GreetingReply
  <1> HIDE DEF sk, n, g
  <1>5. /\ sks'[p][s] = sk
        /\ \A q \in Proposers, x \in Safekeepers : q # p \/ x # s => ~Activated(q, x)
        /\ SafekeeperRecordMove(p, s) => \A q \in Proposers : ProposerMove(q)
    BY <1>2, OneRecordMoves
  <1>6. SafekeeperRecordMove(p, s)
    BY <1>3, <1>5 DEF SafekeeperRecordMove
  <1>7. ASSUME NEW k \in Kinds, NEW q \in Proposers, NEW x \in Safekeepers
        PROVE  ConnectionMove(k, q, x)
    <2>1. CASE k = "live" /\ q = p /\ x = s
      <3>1. conn'[k][q][x] = n
        BY <1>1, <1>2, <2>1 DEF ConnOK
      <3> QED BY <1>3, <1>4, <1>5, <2>1, <3>1 DEF ConnectionMove, Dropped
    <2>2. CASE ~(k = "live" /\ q = p /\ x = s)
      <3>1. conn'[k][q][x] = conn[k][q][x]
        BY <1>1, <1>2, <2>2 DEF ConnOK
      <3> QED BY <1>5, <2>2, <3>1 DEF ConnectionMove, SameQueue
    <2> QED BY <2>1, <2>2
  <1>8. ASSUME NEW q \in Proposers, NEW x \in Safekeepers PROVE AnswerMove(q, x)
    <2>1. toWp'[q][x] = toWp[q][x] \/ toWp'[q][x] = <<g>>
      BY <1>1, <1>2 DEF ToWpOK
    <2>2. ToSet(<<g>>) = {g} /\ NewAnswer(q, x, g)
      BY <1>4, SmallQueues DEF NewAnswer
    <2> QED BY <2>1, <2>2 DEF AnswerMove
  <1>9. \A x \in Safekeepers : SafekeeperMove(x)
    BY <1>1, <1>2, GreetingMove
  <1> QED BY <1>2, <1>5, <1>6, <1>7, <1>8, <1>9, NobodyWins DEF QuietMove, Moves

\* A connection is given up.
LEMMA DisconnectMove ==
  ASSUME TypeOK, NEW p \in Proposers, NEW s \in Safekeepers, Disconnect(p, s)
  PROVE  QuietMove
PROOF
  <1> DEFINE sk == [Offline EXCEPT !.flush = sks[p][s].flush, !.commit = sks[p][s].commit]
  <1>1. SafekeeperTypeOK /\ WalProposerOK
    BY Parts
  <1>2. /\ sks' = [sks EXCEPT ![p][s] = sk] /\ UNCHANGED wp /\ sks[p][s].state # "OFFLINE"
        /\ GiveUp(p, {s}, NoLast) /\ UNCHANGED skVars /\ UNCHANGED won
    BY DEF Disconnect, ShutdownConnection, history
  <1>3. sk.state = "OFFLINE" /\ sk.flush = sks[p][s].flush
    BY DEF Offline
  <1> HIDE DEF sk
  <1>4. Alive(p)
    BY <1>1, <1>2, OneRecord DEF Alive, SafekeeperPhase
  <1>5. /\ sks'[p][s] = sk
        /\ \A q \in Proposers, x \in Safekeepers : q # p \/ x # s => ~Activated(q, x)
        /\ SafekeeperRecordMove(p, s) => \A q \in Proposers : ProposerMove(q)
    BY <1>2, <1>4, OneRecordMoves
  <1>6. SafekeeperRecordMove(p, s)
    BY <1>3, <1>5 DEF SafekeeperRecordMove
  <1>7. \A q \in Proposers, x \in Safekeepers : q # p \/ x \notin {s} => ~Activated(q, x)
    BY <1>5
  <1>8. /\ \A k \in Kinds, q \in Proposers, x \in Safekeepers : ConnectionMove(k, q, x)
        /\ \A q \in Proposers, x \in Safekeepers : AnswerMove(q, x)
    BY <1>2, <1>7, GiveUpMove, NoLastSends
  <1>9. \A x \in Safekeepers : SafekeeperMove(x)
    BY <1>1, <1>2, AllSafekeepersIdle
  <1> QED BY <1>2, <1>5, <1>6, <1>8, <1>9, NobodyWins DEF QuietMove, Moves

\* RecvAcceptorGreeting
LEMMA ReceiveGreetingMove ==
  ASSUME TypeOK, NEW p \in Proposers, NEW s \in Safekeepers, ReceiveGreeting(p, s)
  PROVE  QuietMove
PROOF
  <1> DEFINE m == Answer(p, s)
             collecting == wp[p].state = "COLLECTING_TERMS"
             gen == Higher(wp[p].gen, m.gen)
             term == IF collecting THEN Higher(wp[p].term, m.term) ELSE wp[p].term
             collected == collecting /\ gen # 0 /\ HasQuorum(gen, Greeted(p, s))
             w == [wp[p] EXCEPT !.gen = gen, !.term = IF collected THEN term + 1 ELSE term,
                                !.state = IF collected THEN "CAMPAIGN" ELSE @]
             k == [x \in Safekeepers |->
                     IF x \in Greeted(p, s)
                     THEN [sks[p][x] EXCEPT !.state = IF collecting /\ ~collected
                                                      THEN "WAIT_VOTING" ELSE "WAIT_VERDICT"]
                     ELSE sks[p][x]]
  <1>1. /\ SafekeeperTypeOK /\ ConnOK /\ ToWpOK /\ WalProposerOK /\ TypeOK' /\ WalProposerOK'
    BY Parts, ReceiveGreetingType, PartsNext
  <1>2. /\ RecvAcceptorGreeting(p, s, m) /\ Answered(p, s) /\ toWp[p][s] # <<>>
        /\ UNCHANGED skVars /\ UNCHANGED won /\ m.term \in Terms
    BY <1>1, AnswerType, AnswerFacts DEF ReceiveGreeting, FirstAnswer, history
  <1>3. wp' = [wp EXCEPT ![p] = w] /\ sks' = [sks EXCEPT ![p] = k]
    BY <1>1, <1>2 DEF RecvAcceptorGreeting, WalProposerOK, WalProposerTypeOK
  <1>4. Alive(p)
    <2>1. sks[p][s].state = "HANDSHAKE_RECV"
      BY <1>2 DEF RecvAcceptorGreeting
    <2> QED BY <1>1, <2>1, OneRecord DEF Alive, SafekeeperPhase
  <1>5. /\ w.term = (IF collected THEN term + 1 ELSE term)
        /\ w.state = (IF collected THEN "CAMPAIGN" ELSE wp[p].state)
        /\ w.start = wp[p].start /\ w.hist = wp[p].hist /\ w.donor = wp[p].donor
        /\ w.avail = wp[p].avail /\ w.gen = gen
    BY <1>1, OneRecord DEF ProposerRecords
  <1>6. ASSUME NEW x \in Safekeepers
        PROVE  /\ k[x].flush = sks[p][x].flush
               /\ \/ k[x].state \in {"WAIT_VOTING", "WAIT_VERDICT"}
                  \/ k[x] = sks[p][x]
    <2>1. sks[p][x] \in SafekeeperRecords
      BY <1>1, OneRecord
    <2> HIDE DEF collected, collecting
    <2> QED BY <2>1 DEF SafekeeperRecords
  <1>7. ~GreetingFatal(p, m)
    BY <1>2 DEF RecvAcceptorGreeting
  <1>8. wp[p].term \in Nat /\ m.term \in Nat /\ term \in Nat
    <2>1. wp[p].term \in Nat /\ m.term \in Nat
      BY <1>1, <1>2, OneRecord, ProposerFacts, Ranges
    <2> QED BY <2>1, LowerHigher
  <1>9. wp[p].state = "ELECTED" => gen = wp[p].gen
    <2>1. wp[p].state = "ELECTED" => m.gen <= wp[p].gen
      <3>1. m.gen \in Int /\ wp[p].gen \in Int
        <4>1. m.gen \in DOMAIN Conf
          BY <1>1, AnswerType, AnswerFacts DEF ReceiveGreeting
        <4>2. wp[p].gen \in {0} \cup DOMAIN Conf
          BY <1>1, OneRecord, ProposerFacts
        <4> QED BY <4>1, <4>2, GenType
      <3> QED BY <1>7, <3>1 DEF GreetingFatal
    <2>2. m.gen \in Int /\ wp[p].gen \in Int
      <3>1. m.gen \in DOMAIN Conf
        BY <1>1, AnswerType, AnswerFacts DEF ReceiveGreeting
      <3>2. wp[p].gen \in {0} \cup DOMAIN Conf
        BY <1>1, OneRecord, ProposerFacts
      <3> QED BY <3>1, <3>2, GenType
    <2> QED BY <2>1, <2>2 DEF Higher
  <1> HIDE DEF w, k, term, gen
  <1>10. /\ wp'[p] = w /\ sks'[p] = k
         /\ \A q \in Proposers, x \in Safekeepers : q # p => ~Activated(q, x)
         /\ ProposerMove(p) => \A q \in Proposers : ProposerMove(q)
    BY <1>1, <1>3, OneProposerMoves, ZenonT(60)
  <1>11. \A x \in Safekeepers : SafekeeperRecordMove(p, x)
    BY <1>6, <1>10 DEF SafekeeperRecordMove
  <1>12. Campaigns(p) \/ Leads(p)
    <2>1. wp[p].avail \in Int
      BY <1>1, ProposerFacts, OptRanges DEF WalProposerOK, WalProposerTypeOK
    <2>2. term + 1 > 0
      BY <1>8
    <2>3. CASE wp[p].state = "ELECTED"
      BY <1>5, <1>9, <1>10, <2>1, <2>3 DEF Leads, term
    <2>4. CASE wp[p].state = "CAMPAIGN"
      BY <1>5, <1>10, <2>4 DEF Campaigns, term
    <2>5. CASE wp[p].state = "COLLECTING_TERMS"
      BY <1>5, <1>10, <2>2, <2>5 DEF Campaigns
    <2> QED BY <1>4, <2>3, <2>4, <2>5 DEF Alive
  <1>13. /\ \A j \in Kinds, q \in Proposers, x \in Safekeepers : ConnectionMove(j, q, x)
         /\ \A q \in Proposers, x \in Safekeepers : AnswerMove(q, x)
    BY <1>1, <1>2, <1>10, AnsweredMove
  <1>14. \A x \in Safekeepers : SafekeeperMove(x)
    BY <1>1, <1>2, AllSafekeepersIdle
  <1> QED BY <1>2, <1>10, <1>11, <1>12, <1>13, <1>14, NobodyWins
          DEF QuietMove, Moves, ProposerMove

\* The answer that is taken is one of those that came.
LEMMA AnswerCame ==
  ASSUME ToWpOK, NEW p \in Proposers, NEW s \in Safekeepers, NEW t, FirstAnswer(p, s, t)
  PROVE  Answer(p, s) \in ToSet(toWp[p][s])
PROOF
  <1>1. toWp[p][s] # <<>> /\ toWp[p][s] \in Seq(ToProposer)
    BY AnswerType, AnswerQueueFacts
  <1> QED BY <1>1, QueueElements DEF Answer

\* RecvVoteResponse, when it does not decide the election.
LEMMA ReceiveVoteMove ==
  ASSUME TypeOK, NEW p \in Proposers, NEW s \in Safekeepers, ReceiveVote(p, s)
  PROVE  QuietMove
PROOF
  <1> DEFINE m == Answer(p, s)
             counted == [sks[p][s] EXCEPT !.state = "WAIT_ELECTED", !.vote = VoteOf(m)]
             joined == Streaming(wp[p], sks[p][s], VoteOf(m))
  <1>1. SafekeeperTypeOK /\ ConnOK /\ ToWpOK /\ WalProposerOK /\ WalProposerOK'
    BY Parts, ReceiveGreetingType, PartsNext
  <1>2. /\ CountVote(p, s, m) \/ JoinElected(p, s, m)
        /\ Answered(p, s) /\ toWp[p][s] # <<>> /\ m.type = "Vote" /\ m \in ToSet(toWp[p][s])
        /\ UNCHANGED skVars /\ UNCHANGED won /\ UNCHANGED wp
    BY <1>1, AnswerCame DEF ReceiveVote, FirstAnswer, Answer, CountVote, JoinElected, history
  <1>3. sks[p][s] \in SafekeeperRecords
    BY <1>1, OneRecord
  <1>4. ASSUME NEW sk, sks' = [sks EXCEPT ![p][s] = sk], Alive(p),
               sks'[p][s] = sk => SafekeeperRecordMove(p, s)
        PROVE  QuietMove
    <2>1. /\ sks'[p][s] = sk
          /\ \A q \in Proposers, x \in Safekeepers : q # p \/ x # s => ~Activated(q, x)
          /\ SafekeeperRecordMove(p, s) => \A q \in Proposers : ProposerMove(q)
      BY <1>2, <1>4, OneRecordMoves
    <2>2. \A q \in Proposers, x \in Safekeepers : q # p => ~Activated(q, x)
      BY <2>1
    <2>3. /\ \A j \in Kinds, q \in Proposers, x \in Safekeepers : ConnectionMove(j, q, x)
          /\ \A q \in Proposers, x \in Safekeepers : AnswerMove(q, x)
      BY <1>1, <1>2, <2>2, AnsweredMove
    <2>4. \A x \in Safekeepers : SafekeeperMove(x)
      BY <1>1, <1>2, AllSafekeepersIdle
    <2> QED BY <1>2, <1>4, <2>1, <2>3, <2>4, NobodyWins DEF QuietMove, Moves
  <1>5. CASE CountVote(p, s, m)
    <2>1. sks' = [sks EXCEPT ![p][s] = counted]
      BY <1>1, <1>5 DEF CountVote, WalProposerOK, WalProposerTypeOK
    <2>2. /\ counted.state = "WAIT_ELECTED" /\ counted.vote = VoteOf(m)
          /\ counted.flush = sks[p][s].flush
      BY <1>3 DEF SafekeeperRecords
    <2>3. Given(m) /\ wp[p].state = "CAMPAIGN" /\ Alive(p)
      BY <1>2, <1>5 DEF CountVote, VoteFatal, Given, Alive
    <2> HIDE DEF counted, m
    <2>4. sks'[p][s] = counted => SafekeeperRecordMove(p, s)
      BY <1>2, <2>2, <2>3 DEF SafekeeperRecordMove
    <2> QED BY <1>4, <2>1, <2>3, <2>4
  <1>6. CASE JoinElected(p, s, m)
    <2>1. sks' = [sks EXCEPT ![p][s] = joined]
      BY <1>6 DEF JoinElected
    <2>2. /\ joined.state = "ACTIVE" /\ joined.flush = sks[p][s].flush
          /\ joined.streamingAt = StreamsFrom(wp[p], m)
      BY <1>3 DEF Streaming, SafekeeperRecords, StreamsFrom, VoteOf
    <2>3. ~VoteFatal(p, m) /\ wp[p].state = "ELECTED" /\ Alive(p)
      BY <1>6 DEF JoinElected, Alive
    <2> HIDE DEF joined, m
    <2>4. sks'[p][s] = joined => SafekeeperRecordMove(p, s)
      BY <1>2, <2>2, <2>3 DEF SafekeeperRecordMove
    <2> QED BY <1>4, <2>1, <2>3, <2>4
  <1> QED BY <1>2, <1>5, <1>6

\* Postgres writes WAL.
LEMMA NewWalMove ==
  ASSUME TypeOK, NEW p \in Proposers, NewWal(p)
  PROVE  QuietMove
PROOF
  <1> DEFINE w == [wp[p] EXCEPT !.avail = @ + 1]
             k == sks[p]
  <1>1. SafekeeperTypeOK /\ WalProposerOK
    BY Parts
  <1>2. /\ wp' = [wp EXCEPT ![p] = w] /\ UNCHANGED sks /\ wp[p].state = "ELECTED"
        /\ UNCHANGED skVars /\ UNCHANGED conn /\ UNCHANGED toWp /\ UNCHANGED won
    BY <1>1 DEF NewWal, GenerateWal, netVars, history, WalProposerOK, WalProposerTypeOK
  <1>3. /\ w.state = "ELECTED" /\ w.term = wp[p].term /\ w.start = wp[p].start
        /\ w.hist = wp[p].hist /\ w.donor = wp[p].donor /\ w.gen = wp[p].gen
        /\ w.avail >= wp[p].avail
    <2>1. wp[p].avail \in Int /\ wp[p] \in ProposerRecords
      BY <1>1, ProposerFacts, OptRanges DEF WalProposerOK, WalProposerTypeOK
    <2> QED BY <1>2, <2>1 DEF ProposerRecords
  <1> HIDE DEF w
  <1>4. wp'[p] = w /\ \A q \in Proposers : q # p => wp'[q] = wp[q]
    BY <1>1, <1>2 DEF WalProposerOK, WalProposerTypeOK
  <1>5. Leads(p) /\ \A x \in Safekeepers : SafekeeperRecordMove(p, x)
    BY <1>2, <1>3, <1>4 DEF Leads, SafekeeperRecordMove
  <1>6. \A q \in Proposers : ProposerMove(q)
    BY <1>1, <1>2, <1>4, <1>5, ProposerIdle DEF ProposerMove
  <1>7. \A q \in Proposers, x \in Safekeepers : ~Activated(q, x)
    BY <1>2 DEF Activated
  <1>8. /\ \A j \in Kinds, q \in Proposers, x \in Safekeepers : ConnectionMove(j, q, x)
        /\ \A q \in Proposers, x \in Safekeepers : AnswerMove(q, x)
    BY <1>2, <1>7, ConnectionIdle, AnswersIdle
  <1>9. \A x \in Safekeepers : SafekeeperMove(x)
    BY <1>1, <1>2, AllSafekeepersIdle
  <1> QED BY <1>2, <1>6, <1>8, <1>9, NobodyWins DEF QuietMove, Moves

\* SendAppendRequests
LEMMA SendAppendMove ==
  ASSUME TypeOK, NEW p \in Proposers, NEW s \in Safekeepers, SendAppend(p, s)
  PROVE  QuietMove
PROOF
  <1>1. SafekeeperTypeOK /\ ConnOK /\ ToWpOK /\ WalProposerOK /\ "live" \in Kinds
    BY Parts DEF Kinds
  <1>2. PICK donor \in Safekeepers :
          /\ SendAppendRequest(p, s, donor)
          /\ conn' = [conn EXCEPT !["live"][p][s] = Sent(@, <<AppendRequest(p, s, donor)>>)]
    BY DEF SendAppend
  <1> DEFINE a == AppendRequest(p, s, donor)
             c == conn["live"][p][s]
             n == Sent(c, <<a>>)
             sk == [sks[p][s] EXCEPT !.streamingAt = SendEnd(p, s),
                                     !.sent = <<wp[p].commit, wp[p].truncate>>]
  <1>3. /\ conn' = [conn EXCEPT !["live"][p][s] = n] /\ UNCHANGED toWp
        /\ UNCHANGED skVars /\ UNCHANGED won /\ UNCHANGED wp
        /\ sks[p][s].state = "ACTIVE" /\ CanRead(p, s, donor)
    BY <1>2 DEF SendAppend, SendAppendRequest, history
  <1>4. sks' = [sks EXCEPT ![p][s] = sk]
    BY <1>1, <1>2 DEF SendAppendRequest, WalProposerOK, WalProposerTypeOK
  <1>5. sk.state = "ACTIVE" /\ sk.flush = sks[p][s].flush /\ sk.streamingAt = SendEnd(p, s)
    BY <1>1, <1>3, OneRecord DEF SafekeeperRecords
  <1>6. wp[p].state = "ELECTED" /\ Alive(p)
    BY <1>1, <1>3, ActiveFacts DEF Alive
  <1> HIDE DEF sk
  <1>7. /\ sks'[p][s] = sk
        /\ \A q \in Proposers, x \in Safekeepers : q # p \/ x # s => ~Activated(q, x)
        /\ SafekeeperRecordMove(p, s) => \A q \in Proposers : ProposerMove(q)
    BY <1>3, <1>4, <1>6, OneRecordMoves
  <1>8. \A q \in Proposers, x \in Safekeepers : ~Activated(q, x)
    BY <1>3, <1>7 DEF Activated
  <1>9. SafekeeperRecordMove(p, s)
    BY <1>3, <1>5, <1>7 DEF SafekeeperRecordMove
  <1>10. a \in ToSafekeeper
    <2>1. a.wal \in Seq(Terms) /\ a.begin + Len(a.wal) <= MaxLsn
      BY <1>1, <1>2, AppendRequestType
    <2>2. /\ wp[p].gen \in Nat /\ wp[p].term \in Terms /\ sks[p][s].streamingAt \in Lsns
          /\ wp[p].commit \in OptLsns /\ wp[p].truncate \in OptLsns
      BY <1>1, <1>3, ActiveFacts, GenType, OneRecord, ProposerFacts
    <2>3. /\ a.begin = sks[p][s].streamingAt
          /\ a = [type |-> "AppendRequest", gen |-> wp[p].gen, term |-> wp[p].term,
                  begin |-> a.begin, wal |-> a.wal, commit |-> wp[p].commit,
                  truncate |-> wp[p].truncate]
      BY DEF AppendRequest
    <2> HIDE DEF a
    <2>4. [type |-> "AppendRequest", gen |-> wp[p].gen, term |-> wp[p].term,
           begin |-> a.begin, wal |-> a.wal, commit |-> wp[p].commit,
           truncate |-> wp[p].truncate] \in ToSafekeeper
      BY <2>1, <2>2, <2>3, AppendMessageType
    <2> QED BY <2>3, <2>4
  <1>11. NewAppend(p, s, a)
    <2>1. /\ a.type = "AppendRequest" /\ a.term = wp[p].term /\ a.begin = sks[p][s].streamingAt
          /\ a.commit = wp[p].commit /\ a.truncate = wp[p].truncate
      BY DEF AppendRequest
    <2> QED BY <1>3, <2>1 DEF NewAppend, NewsOf
  <1> HIDE DEF a
  <1>12. ConnectionMove("live", p, s)
    <2>1. conn'["live"][p][s] = n /\ c \in Connections /\ c.queue \in Seq(ToSafekeeper)
      BY <1>1, <1>3, ConnectionFacts DEF ConnOK
    <2>2. CASE ~c.open
      <3>1. n = c
        BY <2>2 DEF Sent
      <3> HIDE DEF n
      <3> QED BY <2>1, <2>2, <3>1 DEF ConnectionMove, SameQueue
    <2>3. CASE c.open
      <3>1. n.queue = c.queue \o <<a>> /\ n.open = c.open /\ n.dirty = c.dirty
        BY <2>1, <2>3 DEF Sent, Connections
      <3> HIDE DEF n
      <3>2. n.queue = Append(c.queue, a)
        BY <1>10, <2>1, <3>1, AppendIsConcat
      <3>3. Sends("live", p, s, c, n)
        BY <1>8, <1>10, <1>11, <2>3, <3>1, <3>2 DEF Sends, NewMessage
      <3> QED BY <2>1, <3>3, SMTT(60) DEF ConnectionMove
    <2> QED BY <2>2, <2>3
  <1> HIDE DEF n
  <1>13. ASSUME NEW k \in Kinds, NEW q \in Proposers, NEW x \in Safekeepers
         PROVE  ConnectionMove(k, q, x)
    <2>1. CASE k = "live" /\ q = p /\ x = s
      BY <1>12, <2>1
    <2>2. CASE ~(k = "live" /\ q = p /\ x = s)
      <3>1. conn'[k][q][x] = conn[k][q][x]
        BY <1>1, <1>3, <2>2 DEF ConnOK
      <3> QED BY <1>8, <3>1, ConnectionIdle
    <2> QED BY <2>1, <2>2
  <1>14. \A q \in Proposers, x \in Safekeepers : AnswerMove(q, x)
    BY <1>3, AnswersIdle
  <1>15. \A x \in Safekeepers : SafekeeperMove(x)
    BY <1>1, <1>3, AllSafekeepersIdle
  <1> QED BY <1>3, <1>7, <1>9, <1>13, <1>14, <1>15, NobodyWins DEF QuietMove, Moves

\* The last AppendRequests of sync-safekeepers carry no WAL.
LEMMA LastBroadcastSends ==
  ASSUME TypeOK, NEW p \in Proposers, NEW s \in Safekeepers, NEW m, m.flush \in OptLsns,
         ReceiveAppendResponse(p, s), Acknowledges(p, s), m = Answer(p, s), NEW x \in Safekeepers
  PROVE  LET last == LastBroadcast(p, s, m)
         IN  \/ last[x] = <<>>
             \/ \E e \in ToSafekeeper : NewAppend(p, x, e) /\ last[x] = <<e>>
PROOF
  <1> DEFINE w == Acknowledged(p, s, m)
             e == [type |-> "AppendRequest", gen |-> wp[p].gen, term |-> wp[p].term,
                   begin |-> sks[p][x].streamingAt, wal |-> <<>>,
                   commit |-> w.commit, truncate |-> w.truncate]
  <1>1. WalProposerOK
    BY Parts
  <1>2. LastBroadcast(p, s, m)[x] = IF sks[p][x].state # "ACTIVE" THEN <<>> ELSE <<e>>
    BY DEF LastBroadcast
  <1>3. CASE sks[p][x].state # "ACTIVE"
    BY <1>2, <1>3
  <1>4. CASE sks[p][x].state = "ACTIVE"
    <2>1. /\ wp[p].gen \in DOMAIN Conf /\ wp[p].gen \in Nat /\ wp[p].term \in Terms
          /\ sks[p][x].streamingAt \in Lsns
      BY <1>1, <1>4, ActiveFacts, GenType, OneRecord, ProposerFacts
    <2>2. w \in ProposerRecords
      BY <1>1, <2>1, AcknowledgedType
    <2>3. w.commit \in OptLsns /\ w.truncate \in OptLsns
      BY <2>2, ProposerFacts
    <2>7. w = Acknowledged(p, s, Answer(p, s))
      OBVIOUS
    <2> HIDE DEF w
    <2>4. sks[p][x].streamingAt + Len(<<>>) <= MaxLsn /\ <<>> \in Seq(Terms)
      BY <2>1, LsnRange, EmptySeq
    <2>5. e \in ToSafekeeper
      BY <2>1, <2>3, <2>4, AppendMessageType
    <2>6. NewAppend(p, x, e)
      <3>1. e.commit = w.commit /\ e.truncate = w.truncate
        OBVIOUS
      <3>2. NewsOf(p, e)
        <4> HIDE DEF e
        <4> QED BY <2>7, <3>1 DEF NewsOf
      <3> QED BY <1>4, <3>2 DEF NewAppend
    <2> HIDE DEF e
    <2> QED BY <1>2, <1>4, <2>5, <2>6
  <1> QED BY <1>3, <1>4

\* RecvAppendResponses: the answer is counted, or sync-safekeepers is done.
LEMMA ReceiveAppendResponseMove ==
  ASSUME TypeOK, NEW p \in Proposers, NEW s \in Safekeepers, ReceiveAppendResponse(p, s)
  PROVE  QuietMove
PROOF
  <1> DEFINE m == Answer(p, s)
             w == Acknowledged(p, s, m)
             sk == [sks[p][s] EXCEPT !.flush = m.flush, !.commit = m.commit]
             k == [sks[p] EXCEPT ![s] = sk]
             last == LastBroadcast(p, s, m)
  <1>1. SafekeeperTypeOK /\ ConnOK /\ ToWpOK /\ WalProposerOK /\ WalProposerOK'
    BY Parts, ReceiveAppendResponseType, PartsNext
  <1>2. /\ FirstAnswer(p, s, "AppendResponse") /\ RecvAppendResponse(p, s, m)
        /\ IF wp'[p].state = "ELECTED" THEN Answered(p, s) ELSE GiveUp(p, Safekeepers, last)
        /\ UNCHANGED skVars /\ UNCHANGED won
    BY DEF ReceiveAppendResponse
  <1>3. /\ m \in ToSet(toWp[p][s]) /\ m.type = "AppendResponse" /\ m.flush \in OptLsns
        /\ toWp[p][s] # <<>>
    BY <1>1, <1>2, AnswerCame, AnswerType, AnswerFacts
  <1>4. sks[p][s].state = "ACTIVE" /\ ~ResponseFatal(p, m) /\ Acknowledges(p, s)
    BY <1>2 DEF RecvAppendResponse, Acknowledges
  <1>5. wp[p].state = "ELECTED" /\ wp[p].gen \in DOMAIN Conf
    BY <1>1, <1>4, ActiveFacts
  <1>6. CASE Exit(p, "SYNCED", wp[p].start)
    <2>1. wp'[p] = Exited("SYNCED", wp[p].start)
      BY <1>1, <1>6, OthersStay DEF Exit
    <2>2. wp'[p].state = "SYNCED"
      BY <2>1 DEF Exited, NewProposer
    <2>3. GiveUp(p, Safekeepers, last)
      BY <1>2, <2>2
    <2>4. \A x \in Safekeepers :
            \/ last[x] = <<>>
            \/ \E e \in ToSafekeeper : NewAppend(p, x, e) /\ last[x] = <<e>>
      <3>1. ASSUME NEW x \in Safekeepers
            PROVE  \/ last[x] = <<>>
                   \/ \E e \in ToSafekeeper : NewAppend(p, x, e) /\ last[x] = <<e>>
        BY <1>3, <1>4, LastBroadcastSends
      <3> HIDE DEF last
      <3> QED BY <3>1
    <2> HIDE DEF last
    <2>5. Moves /\ \A q \in Proposers : ProposerMove(q)
      BY <1>2, <1>6, <2>3, <2>4, ExitMove
    <2> QED BY <1>2, <2>5, NobodyWins DEF QuietMove
  <1>7. CASE /\ wp' = [wp EXCEPT ![p] = w]
             /\ sks' = [sks EXCEPT ![p][s].flush = m.flush, ![p][s].commit = m.commit]
    <2>0. wp' = [wp EXCEPT ![p] = w]
      BY <1>7
    <2>1. sks' = [sks EXCEPT ![p] = k]
      BY <1>1, <1>7 DEF WalProposerOK, WalProposerTypeOK
    <2>2. /\ w.state = wp[p].state /\ w.gen = wp[p].gen /\ w.start = wp[p].start
          /\ w.avail = wp[p].avail /\ w.hist = wp[p].hist /\ w.term = wp[p].term
      BY <1>1, <1>3, <1>5, AcknowledgedType
    <2>3. w.donor = wp[p].donor
      BY <1>1, OneRecord DEF Acknowledged, ProposerRecords
    <2>4. ASSUME NEW x \in Safekeepers
          PROVE  /\ k[x].state = sks[p][x].state /\ k[x].vote = sks[p][x].vote
                 /\ k[x].streamingAt = sks[p][x].streamingAt
                 /\ k[x].flush = sks[p][x].flush \/ (x = s /\ k[x].flush = m.flush)
      <3>1. sk.state = sks[p][s].state /\ sk.vote = sks[p][s].vote /\ sk.flush = m.flush
            /\ sk.streamingAt = sks[p][s].streamingAt
        BY <1>1, OneRecord DEF SafekeeperRecords
      <3>2. k[x] = IF x = s THEN sk ELSE sks[p][x]
        BY <1>1, OneRecord
      <3> HIDE DEF sk
      <3> QED BY <3>1, <3>2
    <2> HIDE DEF w, k
    <2>5. /\ wp'[p] = w /\ sks'[p] = k
          /\ \A q \in Proposers, x \in Safekeepers : q # p => ~Activated(q, x)
          /\ ProposerMove(p) => \A q \in Proposers : ProposerMove(q)
      BY <1>1, <2>0, <2>1, OneProposerMoves, ZenonT(60)
    <2>6. Leads(p)
      <3>1. wp[p].avail \in Int
        BY <1>1, ProposerFacts, OptRanges DEF WalProposerOK, WalProposerTypeOK
      <3> QED BY <1>5, <2>2, <2>3, <2>5, <3>1 DEF Leads
    <2> HIDE DEF m
    <2>7. \A x \in Safekeepers : SafekeeperRecordMove(p, x)
      BY <1>3, <1>4, <1>5, <2>4, <2>5 DEF SafekeeperRecordMove
    <2>8. /\ \A j \in Kinds, q \in Proposers, x \in Safekeepers : ConnectionMove(j, q, x)
          /\ \A q \in Proposers, x \in Safekeepers : AnswerMove(q, x)
      BY <1>1, <1>2, <1>3, <1>5, <2>2, <2>5, AnsweredMove
    <2>9. \A x \in Safekeepers : SafekeeperMove(x)
      BY <1>1, <1>2, AllSafekeepersIdle
    <2> QED BY <1>2, <2>5, <2>6, <2>7, <2>8, <2>9, NobodyWins DEF QuietMove, Moves, ProposerMove
  <1> QED BY <1>2, <1>6, <1>7 DEF RecvAppendResponse

\* The vote that decides the election; sync-safekeepers may have nothing to do.
LEMMA BecomeElectedMove ==
  ASSUME TypeOK, NEW p \in Proposers, NEW s \in Safekeepers, BecomeElected(p, s)
  PROVE  QuietMove \/ WinMove
PROOF
  <1> DEFINE m == Answer(p, s)
  <1>1. /\ SafekeeperTypeOK /\ ConnOK /\ ToWpOK /\ WalProposerOK /\ WalProposerOK'
        /\ HistoryOK
    BY Parts, BecomeElectedType, PartsNext
  <1>2. PICK donor \in Safekeepers : WinElection(p, s, m, donor)
    BY DEF BecomeElected
  <1> DEFINE w == ElectedProposer(p, s, m, donor)
             k == [x \in Safekeepers |->
                     IF x = s \/ sks[p][x].state = "WAIT_ELECTED"
                     THEN Streaming(w, sks[p][x], VoteWith(p, s, m, x))
                     ELSE sks[p][x]]
  <1>3. /\ FirstAnswer(p, s, "Vote")
        /\ IF wp'[p].state = "ELECTED" THEN Answered(p, s) ELSE GiveUp(p, Safekeepers, NoLast)
        /\ won' = won \cup {<<p, wp[p].term>>} /\ UNCHANGED skVars
    BY DEF BecomeElected
  <1>4. m.type = "Vote" /\ toWp[p][s] # <<>> /\ m.flush \in Lsns /\ m.truncate \in Lsns
        /\ m.hist \in Seq(TermSwitches)
    BY <1>1, <1>3, AnswerType, AnswerFacts
  <1>5. /\ ~VoteFatal(p, m) /\ wp[p].state = "CAMPAIGN" /\ HasQuorum(wp[p].gen, Voters(p, s))
        /\ donor \in Voters(p, s)
        /\ \A x \in Voters(p, s) : VoteAtLeast(VoteWith(p, s, m, donor), VoteWith(p, s, m, x))
    BY <1>2 DEF WinElection
  <1>6. \A x \in Safekeepers : SafekeeperMove(x)
    BY <1>1, <1>3, AllSafekeepersIdle
  <1>7. CASE Exit(p, "SYNCED", w.start)
    <2> DEFINE l == w.start
    <2>1. wp'[p] = Exited("SYNCED", l)
      BY <1>1, <1>7, OthersStay DEF Exit
    <2>2. wp'[p].state = "SYNCED"
      BY <2>1 DEF Exited, NewProposer
    <2>3. GiveUp(p, Safekeepers, NoLast)
      BY <1>3, <2>2
    <2>4. Exit(p, "SYNCED", l)
      BY <1>7
    <2> HIDE DEF l
    <2>5. Moves /\ \A q \in Proposers : ProposerMove(q)
      BY <1>3, <2>3, <2>4, ExitMove, NoLastSends
    <2>6. WonMove
      <3>1. ASSUME NEW e \in won', e \notin won PROVE wp'[e[1]].state \in {"SYNCED", "DEAD"}
        <4>1. e = <<p, wp[p].term>>
          BY <1>3, <3>1
        <4>2. e[1] = p
          BY <4>1
        <4> QED BY <2>2, <4>2
      <3>2. won \in SUBSET won'
        BY <1>3
      <3> QED BY <3>1, <3>2 DEF WonMove
    <2> QED BY <2>5, <2>6 DEF QuietMove
  <1>8. CASE wp' = [wp EXCEPT ![p] = w] /\ sks' = [sks EXCEPT ![p] = k]
    <2>1. w.state = "ELECTED"
      BY <1>1, <1>4, <1>5, ElectedProposerType
    <2>2. \A x \in Safekeepers :
            k[x] = IF x = s \/ sks[p][x].state = "WAIT_ELECTED"
                   THEN Streaming(w, sks[p][x], VoteWith(p, s, m, x))
                   ELSE sks[p][x]
      OBVIOUS
    <2> HIDE DEF w, k
    <2>3. /\ wp'[p] = w /\ sks'[p] = k
          /\ \A q \in Proposers : q # p => wp'[q] = wp[q] /\ sks'[q] = sks[q]
          /\ \A q \in Proposers, x \in Safekeepers : q # p => ~Activated(q, x)
      BY <1>1, <1>8, OneProposerMoves, ZenonT(60)
    <2>4. /\ \A j \in Kinds, q \in Proposers, x \in Safekeepers : ConnectionMove(j, q, x)
          /\ \A q \in Proposers, x \in Safekeepers : AnswerMove(q, x)
      BY <1>1, <1>3, <1>4, <2>1, <2>3, AnsweredMove
    <2>5. Given(m)
      BY <1>4, <1>5 DEF VoteFatal, Given
    <2>6. Wins(p, s, donor)
      BY <1>3, <1>5, <2>2, <2>3, <2>5 DEF Wins, w
    <2> QED BY <1>6, <2>4, <2>6 DEF WinMove, Moves
  <1> QED BY <1>2, <1>7, <1>8 DEF WinElection

\* Every step is one of these.
LEMMA StepCases ==
  ASSUME TypeOK, [Next]_vars
  PROVE  QuietMove \/ WinMove
PROOF
  <1>1. ASSUME NEW s \in Safekeepers, SafekeeperStep(s) \/ PersistState(s) \/ Publish(s)
        PROVE  QuietMove
    BY <1>1, ReceiveVoteRequestMove, ReceiveElectedMove, ReceiveAppendMove, RefuseMessageMove,
       FlushWalMove, LocalStepMove DEF SafekeeperStep, ReceiveMessage
  <1>2. ASSUME NEW p \in Proposers, NEW s \in Safekeepers, Fatal(p, s) \/ Kill(p)
        PROVE  QuietMove
    <2>1. Die(p) /\ GiveUp(p, Safekeepers, NoLast) /\ UNCHANGED skVars /\ UNCHANGED won
      BY <1>2 DEF Fatal, Kill, history
    <2> QED BY <2>1, DieMove
  <1>3. ASSUME NEW p \in Proposers, ProposerStep(p)
        PROVE  QuietMove \/ WinMove
    BY <1>2, <1>3, ConnectMove, ReceiveGreetingMove, ReceiveVoteMove, BecomeElectedMove,
       ReceiveAppendResponseMove, SendAppendMove, NewWalMove, DisconnectMove
       DEF ProposerStep, ReceiveAnswer, SendWal, NoticeClosed
  <1>4. ASSUME NEW p \in Proposers, NEW s \in Safekeepers, Heartbeat(p, s)
        PROVE  QuietMove
    BY <1>4, SendAppendMove DEF Heartbeat
  <1>5. ASSUME NEW p \in Proposers, Kill(p)
        PROVE  QuietMove
    <2>1. Die(p) /\ GiveUp(p, Safekeepers, NoLast) /\ UNCHANGED skVars /\ UNCHANGED won
      BY <1>5 DEF Kill, history
    <2> QED BY <2>1, DieMove
  <1>6. CASE Failure
    BY <1>5, <1>6, CrashMove, LocalStepMove, DisconnectMove, LoseStaleMove DEF Failure
  <1>7. CASE UNCHANGED vars
    <2>1. UNCHANGED skVars /\ UNCHANGED wpVars /\ UNCHANGED netVars /\ UNCHANGED won
      BY <1>7 DEF vars, history
    <2> QED BY <2>1, Parts, AllSafekeepersIdle, LocalMove
  <1> QED BY <1>1, <1>3, <1>4, <1>6, <1>7 DEF Next

-----------------------------------------------------------------------------
(* What a step does, from the point of view of one of those involved *)

Step == QuietMove \/ WinMove

\* A walproposer makes a move of its own, or wins.
LEMMA ProposerCases ==
  ASSUME TypeOK, Step, NEW p \in Proposers
  PROVE  Moves /\ (ProposerMove(p) \/ \E s, donor \in Safekeepers : Wins(p, s, donor))
PROOF
  <1>1. CASE QuietMove
    BY <1>1 DEF QuietMove
  <1>2. CASE WinMove
    <2>1. PICK q \in Proposers, s \in Safekeepers, donor \in Safekeepers : Wins(q, s, donor)
      BY <1>2 DEF WinMove
    <2>2. CASE q # p
      <3>1. wp'[p] = wp[p] /\ sks'[p] = sks[p]
        BY <2>1, <2>2 DEF Wins
      <3> QED BY <1>2, <3>1, Parts, ProposerIdle DEF WinMove
    <2>3. CASE q = p
      BY <1>2, <2>1, <2>3 DEF WinMove
    <2> QED BY <2>2, <2>3
  <1> QED BY <1>1, <1>2 DEF Step

\* Who has won goes on or exits.
LEMMA LeadersMove ==
  ASSUME TypeOK, Step, NEW p \in Proposers, wp[p].state = "ELECTED"
  PROVE  \/ Leads(p) /\ \A s \in Safekeepers : SafekeeperRecordMove(p, s)
         \/ Exits(p) /\ wp'[p].state # "ELECTED"
BY ProposerCases DEF ProposerMove, Rests, Exits, Alive, Campaigns, Wins

\* Who campaigns goes on in the same term, wins or exits.
LEMMA CandidatesMove ==
  ASSUME TypeOK, Step, NEW p \in Proposers, wp[p].state = "CAMPAIGN"
  PROVE  \/ /\ wp'[p].state = "CAMPAIGN" /\ wp'[p].term = wp[p].term
            /\ \A s \in Safekeepers : SafekeeperRecordMove(p, s)
         \/ \E s, donor \in Safekeepers : Wins(p, s, donor)
         \/ Exits(p) /\ wp'[p].state \notin {"CAMPAIGN", "ELECTED"}
BY ProposerCases DEF ProposerMove, Rests, Exits, Alive, Campaigns, Leads

\* A winner keeps the term it campaigned in; its history ends in it.
LEMMA WinnersTerm ==
  ASSUME TypeOK, NEW p \in Proposers, NEW s \in Safekeepers, NEW donor \in Safekeepers,
         Wins(p, s, donor)
  PROVE  LET v == VoteWith(p, s, Answer(p, s), donor)
         IN  /\ wp'[p].state = "ELECTED" /\ wp'[p].term = wp[p].term
             /\ wp'[p].hist = Append(v.hist, [term |-> wp[p].term, lsn |-> v.flush])
             /\ wp'[p].start = v.flush /\ wp'[p].avail = v.flush /\ wp'[p].donor = donor
PROOF
  <1>1. wp[p] \in ProposerRecords
    BY Parts, OneRecord
  <1>2. wp'[p] = ElectedProposer(p, s, Answer(p, s), donor)
    BY DEF Wins
  <1> QED BY <1>1, <1>2 DEF ElectedProposer, ProposerRecords

\* Who has not won and is elected now has won with this step, or had before.
LEMMA ElectedMoves ==
  ASSUME TypeOK, Step, NEW p \in Proposers, wp'[p].state = "ELECTED"
  PROVE  \/ wp[p].state = "ELECTED" /\ Leads(p) /\ \A s \in Safekeepers : SafekeeperRecordMove(p, s)
         \/ wp[p].state = "CAMPAIGN" /\ \E s, donor \in Safekeepers : Wins(p, s, donor)
BY ProposerCases DEF ProposerMove, Rests, Exits, Alive, Campaigns, Leads, Wins

\* Messages in a queue were there before, or on the live connection it replaces, or
\* are new.
LEMMA QueueMoves ==
  ASSUME TypeOK, Moves, NEW k \in Kinds, NEW p \in Proposers, NEW s \in Safekeepers,
         NEW m \in ToSet(conn'[k][p][s].queue)
  PROVE  \/ m \in ToSet(conn[k][p][s].queue)
         \/ k = "stale" /\ m \in ToSet(conn["live"][p][s].queue)
         \/ m \in ToSafekeeper /\ NewMessage(p, s, m)
PROOF
  <1> DEFINE c == conn[k][p][s]
             n == conn'[k][p][s]
             l == conn["live"][p][s]
  <1>1. c.queue \in Seq(ToSafekeeper) /\ l.queue \in Seq(ToSafekeeper)
    BY Parts, ConnectionFacts DEF Kinds
  <1>2. ConnectionMove(k, p, s)
    BY DEF Moves
  <1>3. /\ c.queue # <<>> => ToSet(Tail(c.queue)) \in SUBSET ToSet(c.queue)
        /\ \A e \in ToSafekeeper : ToSet(Append(c.queue, e)) = ToSet(c.queue) \cup {e}
        /\ \A e \in ToSafekeeper : ToSet(Append(l.queue, e)) = ToSet(l.queue) \cup {e}
        /\ ToSet(<<>>) = {}
    BY <1>1, QueueElements, SmallQueues
  <1>4. CASE SameQueue(k, p, s, c, n)
    BY <1>4 DEF SameQueue
  <1>5. CASE Dropped(k, p, s, c, n)
    BY <1>3, <1>5 DEF Dropped
  <1>6. CASE Consumes(k, p, s, c, n)
    BY <1>3, <1>6, SMTT(60) DEF Consumes
  <1>7. CASE Sends(k, p, s, c, n)
    BY <1>3, <1>7, SMTT(60) DEF Sends
  <1>8. CASE Leaves(k, p, s, c, n)
    BY <1>3, <1>8, ZenonT(60) DEF Leaves, NewMessage
  <1> QED BY <1>2, <1>4, <1>5, <1>6, <1>7, <1>8 DEF ConnectionMove

\* The elements of a sequence.
LEMMA RangeFacts ==
  ASSUME NEW S, NEW q \in Seq(S)
  PROVE  /\ \A e \in ToSet(q) : e \in S /\ \E i \in 1..Len(q) : e = q[i]
         /\ \A i \in 1..Len(q) : q[i] \in ToSet(q)
PROOF
  <1>1. DOMAIN q = 1..Len(q) /\ \A i \in 1..Len(q) : q[i] \in S
    BY LenProperties, SeqFacts
  <1> QED BY <1>1 DEF ToSet

\* A message that is queued is one its handler accepts.
LEMMA QueuedType ==
  ASSUME TypeOK, NEW k \in Kinds, NEW p \in Proposers, NEW s \in Safekeepers,
         NEW m \in ToSet(conn[k][p][s].queue)
  PROVE  m \in ToSafekeeper
PROOF
  <1>1. conn[k][p][s].queue \in Seq(ToSafekeeper)
    BY Parts, ConnectionFacts
  <1> QED BY <1>1, RangeFacts

\* An answer that is on its way is one walproposer accepts.
LEMMA AnsweringType ==
  ASSUME TypeOK, NEW p \in Proposers, NEW s \in Safekeepers, NEW m \in ToSet(toWp[p][s])
  PROVE  m \in ToProposer
PROOF
  <1>1. toWp[p][s] \in Seq(ToProposer)
    BY Parts, AnswerQueueFacts
  <1> QED BY <1>1, RangeFacts

\* The message a handler takes is one that was queued.
LEMMA MessageCame ==
  ASSUME TypeOK, NEW k \in Kinds, NEW p \in Proposers, NEW s \in Safekeepers, NEW t,
         FirstMessage(k, p, s, t)
  PROVE  /\ Message(k, p, s) \in ToSet(conn[k][p][s].queue) /\ Message(k, p, s) \in ToSafekeeper
         /\ Message(k, p, s).type = t
PROOF
  <1>1. conn[k][p][s].queue # <<>> /\ conn[k][p][s].queue \in Seq(ToSafekeeper)
    BY Parts, ReceivedType, ConnectionFacts
  <1> QED BY <1>1, Parts, ReceivedType, QueueElements DEF Message


-----------------------------------------------------------------------------
(* Histories as sequences *)

\* A part of a history, from its beginning.
LEMMA CutFacts ==
  ASSUME NEW S, NEW h \in Seq(S), NEW k \in 0..Len(h)
  PROVE  /\ SubSeq(h, 1, k) \in Seq(S) /\ Len(SubSeq(h, 1, k)) = k
         /\ \A i \in 1..k : SubSeq(h, 1, k)[i] = h[i]
         /\ SubSeq(h, 1, Len(h)) = h
PROOF
  <1>1. Len(h) \in Nat /\ k \in Int /\ k <= Len(h) /\ 0 <= k
    OBVIOUS
  <1>2. /\ SubSeq(h, 1, k) \in Seq(S)
        /\ Len(SubSeq(h, 1, k)) = k
        /\ \A i \in 1..k : SubSeq(h, 1, k)[i] = h[i]
    <2>1. \A i \in 1..k : h[i] \in S
      BY <1>1
    <2> QED BY <1>1, <2>1, SubSeqProperties
  <1>3. SubSeq(h, 1, Len(h)) = h
    BY <1>1
  <1> QED BY <1>2, <1>3

\* Two parts of the same length.
LEMMA SameCut ==
  ASSUME NEW S, NEW h \in Seq(S), NEW g \in Seq(S), NEW k \in 0..Len(h), k <= Len(g),
         \A i \in 1..k : h[i] = g[i]
  PROVE  SubSeq(h, 1, k) = SubSeq(g, 1, k)
PROOF
  <1>1. k \in 0..Len(g)
    OBVIOUS
  <1>2. /\ SubSeq(h, 1, k) \in Seq(S) /\ Len(SubSeq(h, 1, k)) = k
        /\ SubSeq(g, 1, k) \in Seq(S) /\ Len(SubSeq(g, 1, k)) = k
        /\ \A i \in 1..k : SubSeq(h, 1, k)[i] = SubSeq(g, 1, k)[i]
    BY <1>1, CutFacts
  <1> QED BY <1>2, SeqEqual

\* A part of a part.
LEMMA CutOfCut ==
  ASSUME NEW S, NEW h \in Seq(S), NEW k \in 0..Len(h), NEW j \in 0..k
  PROVE  SubSeq(SubSeq(h, 1, k), 1, j) = SubSeq(h, 1, j)
PROOF
  <1> DEFINE g == SubSeq(h, 1, k)
  <1>1. g \in Seq(S) /\ Len(g) = k /\ \A i \in 1..k : g[i] = h[i]
    BY CutFacts
  <1>2. j \in 0..Len(g) /\ j <= Len(h) /\ \A i \in 1..j : g[i] = h[i]
    BY <1>1
  <1> HIDE DEF g
  <1>3. SubSeq(g, 1, j) = SubSeq(h, 1, j)
    BY <1>1, <1>2, SameCut
  <1> QED BY <1>3 DEF g

\* What a history says about an LSN, its entries say that begin before it: the
\* others may be cut off.
LEMMA UpToOfCut ==
  ASSUME NEW S, NEW h \in Seq(S), \A i \in 1..Len(h) : h[i].lsn \in Int,
         NEW k \in 0..Len(h), NEW l \in Int, k = Len(h) \/ h[k + 1].lsn > l
  PROVE  UpTo(SubSeq(h, 1, k), l) = UpTo(h, l)
PROOF
  <1> DEFINE g == SubSeq(h, 1, k)
  <1>1. g \in Seq(S) /\ Len(g) = k /\ \A i \in 1..k : g[i] = h[i]
    BY CutFacts
  <1>2. \A i \in 1..Len(g) : g[i].lsn \in Int
    BY <1>1
  <1>3. PICK a \in 0..Len(h) : /\ UpTo(h, l) = SubSeq(h, 1, a)
                               /\ \A i \in 1..a : h[i].lsn <= l
                               /\ a < Len(h) => h[a + 1].lsn > l
    BY UpToProperties
  <1> HIDE DEF g
  <1>4. PICK b \in 0..Len(g) : /\ UpTo(g, l) = SubSeq(g, 1, b)
                               /\ \A i \in 1..b : g[i].lsn <= l
                               /\ b < Len(g) => g[b + 1].lsn > l
    BY <1>1, <1>2, UpToProperties
  <1>5. Len(h) \in Nat
    OBVIOUS
  <1>6. a <= k
    BY <1>3, <1>5
  <1>7. a = b
    <2>1. CASE a < b
      <3>1. a + 1 \in 1..b /\ a + 1 \in 1..k /\ a < Len(h)
        BY <1>1, <1>5, <2>1
      <3>2. h[a + 1].lsn <= l /\ h[a + 1].lsn > l /\ h[a + 1].lsn \in Int
        BY <1>1, <1>3, <1>4, <1>5, <3>1
      <3> QED BY <3>2
    <2>2. CASE b < a
      <3>1. b + 1 \in 1..a /\ b + 1 \in 1..k /\ b < Len(g) /\ b + 1 \in 1..Len(h)
        BY <1>1, <1>5, <1>6, <2>2
      <3>2. h[b + 1].lsn <= l /\ h[b + 1].lsn > l /\ h[b + 1].lsn \in Int
        BY <1>1, <1>3, <1>4, <3>1
      <3> QED BY <3>2
    <2> QED BY <1>1, <1>5, <2>1, <2>2
  <1>8. UpTo(g, l) = UpTo(h, l)
    BY <1>1, <1>3, <1>4, <1>5, <1>6, <1>7, CutOfCut DEF g
  <1> QED BY <1>8 DEF g

-----------------------------------------------------------------------------
(* Well-formed histories that agree *)

\* A history starts where the timeline starts, and its terms and LSNs grow.
WellFormed(h) ==
  /\ h \in Histories(Terms, Lsns)
  /\ h # <<>> /\ h[1] = [term |-> 0, lsn |-> StartLsn]
  /\ \A i, j \in 1..Len(h) : i < j => h[i].term < h[j].term /\ h[i].lsn <= h[j].lsn

\* Two histories that have a term in common are the same up to that term.
Agree(h, g) ==
  \A i \in 1..Len(h), j \in 1..Len(g) :
    h[i].term = g[j].term => i = j /\ \A k \in 1..i : h[k] = g[k]

\* The entries of a well-formed history.
LEMMA WellFormedFacts ==
  ASSUME NEW h, WellFormed(h)
  PROVE  /\ h \in Seq(TermSwitches) /\ Len(h) \in Nat /\ Len(h) >= 1 /\ h # <<>>
         /\ \A i \in 1..Len(h) : /\ h[i].term \in Nat /\ h[i].term \in Terms
                                 /\ h[i].lsn \in Nat /\ h[i].lsn \in Lsns
                                 /\ h[i].lsn \in Int /\ h[i].term \in Int
         /\ h[1].term = 0 /\ h[1].lsn = StartLsn
         /\ HighestTerm(h) = h[Len(h)].term /\ Last(h) = h[Len(h)]
         /\ \A i, j \in 1..Len(h) : i < j => h[i].term < h[j].term /\ h[i].lsn <= h[j].lsn
         /\ \A i \in 1..Len(h) : h[i].term <= HighestTerm(h)
PROOF
  <1>1. h \in Seq([term : Terms, lsn : Lsns]) /\ h # <<>>
    BY DEF WellFormed, Histories
  <1>2. Len(h) \in Nat /\ Len(h) >= 1 /\ \A i \in 1..Len(h) : h[i].term \in Terms /\ h[i].lsn \in Lsns
    BY <1>1, HistoryFacts
  <1>3. h[1].term = 0 /\ h[1].lsn = StartLsn
    BY DEF WellFormed
  <1>4. HighestTerm(h) = h[Len(h)].term /\ Last(h) = h[Len(h)]
    BY <1>1 DEF HighestTerm, Last
  <1>5. \A i \in 1..Len(h) : /\ h[i].term \in Nat /\ h[i].lsn \in Nat
                            /\ h[i].lsn \in Int /\ h[i].term \in Int
    <2>1. \A t \in Terms : t \in Nat /\ t \in Int
      BY Ranges
    <2>2. \A l \in Lsns : l \in Nat /\ l \in Int
      BY Ranges
    <2> QED BY <1>2, <2>1, <2>2
  <1>6. \A i, j \in 1..Len(h) : i < j => h[i].term < h[j].term /\ h[i].lsn <= h[j].lsn
    BY DEF WellFormed
  <1>7. \A i \in 1..Len(h) : h[i].term <= HighestTerm(h)
    <2> SUFFICES ASSUME NEW i \in 1..Len(h) PROVE h[i].term <= h[Len(h)].term
      BY <1>4
    <2>1. i < Len(h) \/ i = Len(h)
      BY <1>2
    <2>2. Len(h) \in 1..Len(h)
      BY <1>2
    <2> QED BY <1>5, <1>6, <2>1, <2>2
  <1> QED BY <1>1, <1>2, <1>3, <1>4, <1>5, <1>6, <1>7 DEF TermSwitches

\* Cutting off the end leaves a well-formed history.
LEMMA WellFormedCut ==
  ASSUME NEW h, WellFormed(h), NEW k \in 1..Len(h)
  PROVE  WellFormed(SubSeq(h, 1, k))
PROOF
  <1> DEFINE g == SubSeq(h, 1, k)
  <1>1. h \in Seq(TermSwitches) /\ Len(h) \in Nat
    BY WellFormedFacts
  <1>2. g \in Seq(TermSwitches) /\ Len(g) = k /\ \A i \in 1..k : g[i] = h[i]
    BY <1>1, CutFacts
  <1> HIDE DEF g
  <1>3. g # <<>> /\ g[1] = h[1]
    BY <1>2
  <1>4. g \in Histories(Terms, Lsns)
    BY <1>2 DEF Histories, TermSwitches
  <1>5. \A i, j \in 1..Len(g) : i < j => g[i].term < g[j].term /\ g[i].lsn <= g[j].lsn
    BY <1>1, <1>2 DEF WellFormed
  <1>6. WellFormed(g)
    BY <1>3, <1>4, <1>5 DEF WellFormed
  <1> QED BY <1>6 DEF g

\* Agreement is symmetric.
LEMMA AgreeSymmetric ==
  ASSUME NEW h, NEW g, Agree(h, g)
  PROVE  Agree(g, h)
BY DEF Agree

\* Cutting off the end of one of them leaves histories that agree.
LEMMA AgreeCut ==
  ASSUME NEW h, NEW g, WellFormed(h), Agree(h, g), NEW k \in 1..Len(h)
  PROVE  Agree(SubSeq(h, 1, k), g)
PROOF
  <1> DEFINE c == SubSeq(h, 1, k)
  <1>1. h \in Seq(TermSwitches) /\ Len(h) \in Nat
    BY WellFormedFacts
  <1>2. Len(c) = k /\ \A i \in 1..k : c[i] = h[i]
    BY <1>1, CutFacts
  <1> HIDE DEF c
  <1>3. Agree(c, g)
    BY <1>1, <1>2, SMTT(60) DEF Agree
  <1> QED BY <1>3 DEF c

\* Agreeing histories that end in the same term are the same.
LEMMA SameTermSameHistory ==
  ASSUME NEW h, NEW g, WellFormed(h), WellFormed(g), Agree(h, g),
         NEW j \in 1..Len(g), g[j].term = HighestTerm(h)
  PROVE  h = SubSeq(g, 1, j) /\ j = Len(h)
PROOF
  <1>1. /\ h \in Seq(TermSwitches) /\ Len(h) \in Nat /\ Len(h) >= 1
        /\ g \in Seq(TermSwitches) /\ Len(g) \in Nat /\ HighestTerm(h) = h[Len(h)].term
    BY WellFormedFacts
  <1>2. Len(h) \in 1..Len(h)
    BY <1>1
  <1>3. j = Len(h) /\ \A k \in 1..j : h[k] = g[k]
    BY <1>1, <1>2 DEF Agree
  <1>4. SubSeq(h, 1, Len(h)) = h /\ j \in 0..Len(h) /\ j <= Len(g)
    BY <1>1, <1>3, CutFacts
  <1>5. SubSeq(h, 1, j) = SubSeq(g, 1, j)
    BY <1>1, <1>3, <1>4, SameCut
  <1> QED BY <1>3, <1>4, <1>5

\* In particular when it is the last term of both.
LEMMA SameHighestTerm ==
  ASSUME NEW h, NEW g, WellFormed(h), WellFormed(g), Agree(h, g),
         HighestTerm(g) = HighestTerm(h)
  PROVE  h = g
PROOF
  <1>1. /\ g \in Seq(TermSwitches) /\ Len(g) \in Nat /\ Len(g) >= 1
        /\ HighestTerm(g) = g[Len(g)].term
    BY WellFormedFacts
  <1>2. Len(g) \in 1..Len(g) /\ SubSeq(g, 1, Len(g)) = g
    BY <1>1, CutFacts
  <1> QED BY <1>1, <1>2, SameTermSameHistory

\* The part of a history that describes flushed WAL.
LEMMA FlushedPart ==
  ASSUME NEW h, WellFormed(h), NEW f \in Int, StartLsn <= f
  PROVE  \E k \in 1..Len(h) : /\ UpTo(h, f) = SubSeq(h, 1, k)
                              /\ \A i \in 1..k : h[i].lsn <= f
                              /\ k < Len(h) => h[k + 1].lsn > f
                              /\ Last(UpTo(h, f)).lsn <= f
                              /\ HighestTerm(UpTo(h, f)) <= HighestTerm(h)
PROOF
  <1>1. /\ h \in Seq(TermSwitches) /\ Len(h) \in Nat /\ Len(h) >= 1
        /\ \A i \in 1..Len(h) : h[i].lsn \in Int
        /\ h[1].lsn = StartLsn
        /\ \A i \in 1..Len(h) : h[i].term <= HighestTerm(h)
    BY WellFormedFacts
  <1>2. PICK k \in 0..Len(h) : /\ UpTo(h, f) = SubSeq(h, 1, k)
                               /\ \A i \in 1..k : h[i].lsn <= f
                               /\ k < Len(h) => h[k + 1].lsn > f
    BY <1>1, UpToProperties
  <1>3. k # 0
    <2> SUFFICES ASSUME k = 0 PROVE FALSE
      OBVIOUS
    <2>1. h[1].lsn > f
      BY <1>1, <1>2
    <2> QED BY <1>1, <2>1, Ranges
  <1>4. k \in 1..Len(h)
    BY <1>1, <1>3
  <1> DEFINE g == SubSeq(h, 1, k)
  <1>5. Len(g) = k /\ g[k] = h[k] /\ WellFormed(g)
    BY <1>1, <1>4, CutFacts, WellFormedCut
  <1> HIDE DEF g
  <1>6. Last(g) = h[k] /\ HighestTerm(g) = h[k].term
    BY <1>5, WellFormedFacts
  <1> QED BY <1>1, <1>2, <1>4, <1>6 DEF g

\* What a history says about an LSN does not depend on later entries.
LEMMA TermAtOfCut ==
  ASSUME NEW h, WellFormed(h), NEW k \in 1..Len(h), NEW l \in Int,
         k = Len(h) \/ h[k + 1].lsn > l
  PROVE  TermAt(SubSeq(h, 1, k), l) = TermAt(h, l)
PROOF
  <1>1. h \in Seq(TermSwitches) /\ \A i \in 1..Len(h) : h[i].lsn \in Int
    BY WellFormedFacts
  <1>2. k \in 0..Len(h)
    OBVIOUS
  <1>3. UpTo(SubSeq(h, 1, k), l) = UpTo(h, l)
    BY <1>1, <1>2, UpToOfCut
  <1> QED BY <1>3 DEF TermAt, LastLogTerm

\* The point where handle_elected cuts WAL, in terms of the first k entries, which
\* the two histories have in common.
LEMMA TruncationFacts ==
  ASSUME NEW p, WellFormed(p), NEW q, WellFormed(q), Agree(p, q), NEW f \in Lsns
  PROVE  LET x == ExpectedTruncation(p, UpTo(q, f), f)
         IN  /\ x \in Lsns /\ x <= f
             /\ \E k \in 1..Len(p) :
                  /\ k <= Len(q) /\ \A i \in 1..k : p[i] = q[i]
                  /\ k = Len(p) => x = f
                  /\ k < Len(p) => x <= p[k + 1].lsn
                  /\ k < Len(p) /\ k < Len(q) => x <= q[k + 1].lsn
                  /\ \/ x = f
                     \/ k < Len(p) /\ x = p[k + 1].lsn
                     \/ k < Len(q) /\ x = q[k + 1].lsn
                  /\ k = Len(q) \/ q[k + 1].lsn > f \/ k = Len(p) \/ p[k + 1].term # q[k + 1].term
PROOF
  <1> DEFINE u == UpTo(q, f)
             k == CommonEntries(p, u)
             x == ExpectedTruncation(p, u, f)
             skEnd == IF k < Len(u) THEN u[k + 1].lsn ELSE f
             end == IF k = Len(p) THEN f ELSE Lower(p[k + 1].lsn, skEnd)
  <1>1. /\ p \in Seq(TermSwitches) /\ Len(p) \in Nat /\ Len(p) >= 1 /\ p[1].term = 0
        /\ \A i \in 1..Len(p) : p[i].lsn \in Lsns /\ p[i].lsn \in Int
    BY WellFormedFacts
  <1>2. /\ q \in Seq(TermSwitches) /\ Len(q) \in Nat /\ Len(q) >= 1 /\ q[1].term = 0
        /\ \A i \in 1..Len(q) : q[i].lsn \in Lsns /\ q[i].lsn \in Int
    BY WellFormedFacts
  <1>3. f \in Int /\ StartLsn <= f
    BY LsnRange
  <1>4. PICK n \in 1..Len(q) : /\ u = SubSeq(q, 1, n) /\ \A i \in 1..n : q[i].lsn <= f
                               /\ n < Len(q) => q[n + 1].lsn > f
    BY <1>3, FlushedPart
  <1>5. u \in Seq(TermSwitches) /\ Len(u) = n /\ \A i \in 1..n : u[i] = q[i]
    BY <1>2, <1>4, CutFacts
  <1> HIDE DEF u
  <1>6. /\ k \in Nat /\ k <= Len(p) /\ k <= n
        /\ \A i \in 1..k : p[i].term = u[i].term
        /\ k < Len(p) /\ k < n => p[k + 1].term # u[k + 1].term
    BY <1>1, <1>5, CommonEntriesProperties
  <1> HIDE DEF k
  <1>7. k >= 1
    <2> SUFFICES ASSUME k = 0 PROVE FALSE
      BY <1>6
    <2>1. 0 < Len(p) /\ 0 < n
      BY <1>1, <1>4
    <2>2. p[1].term # u[1].term
      BY <1>6, <2>1
    <2>3. u[1] = q[1]
      BY <1>4, <1>5, <2>1
    <2> QED BY <1>1, <1>2, <2>2, <2>3
  <1>8. \A i \in 1..k : p[i] = q[i]
    <2>1. k \in 1..Len(p) /\ k \in 1..Len(q) /\ k \in 1..n /\ k \in 1..k
      BY <1>1, <1>2, <1>4, <1>6, <1>7
    <2>2. p[k].term = q[k].term
      BY <1>5, <1>6, <2>1
    <2> QED BY <2>1, <2>2 DEF Agree
  <1>9. skEnd \in Lsns /\ skEnd \in Int /\ skEnd <= f
    <2>1. CASE k < Len(u)
      <3>1. k + 1 \in 1..n /\ k + 1 \in 1..Len(q)
        BY <1>2, <1>4, <1>5, <1>6, <1>7, <2>1
      <3> QED BY <1>2, <1>4, <1>5, <2>1, <3>1
    <2>2. CASE ~(k < Len(u))
      BY <1>3, <2>2
    <2> QED BY <2>1, <2>2
  <1>10. /\ end \in Lsns /\ end <= f /\ (k = Len(p) => end = f)
         /\ k < Len(p) => end <= p[k + 1].lsn /\ end <= skEnd /\ (end = p[k + 1].lsn \/ end = skEnd)
    <2> HIDE DEF skEnd
    <2>1. CASE k = Len(p)
      BY <1>3, <2>1
    <2>2. CASE k < Len(p)
      <3>1. k + 1 \in 1..Len(p)
        BY <1>1, <1>6, <1>7, <2>2
      <3>2. p[k + 1].lsn \in Lsns /\ p[k + 1].lsn \in Int
        BY <1>1, <3>1
      <3>3. end = Lower(p[k + 1].lsn, skEnd)
        BY <2>2, <1>1
      <3> QED BY <1>3, <1>9, <2>2, <3>2, <3>3 DEF Lower
    <2> QED BY <1>1, <1>6, <2>1, <2>2
  <1>11. x = end
    <2>1. FindHighestCommonPoint(p, u, f) = [term |-> p[k].term, lsn |-> end]
      BY <1>6, <1>7 DEF FindHighestCommonPoint, k
    <2>2. end # 0
      BY <1>10, OptRanges
    <2> HIDE DEF end
    <2>3. FindHighestCommonPoint(p, u, f) # NoPoint
      BY <2>1, <2>2 DEF NoPoint
    <2> QED BY <2>1, <2>3 DEF ExpectedTruncation
  <1>12. /\ k < n => skEnd = q[k + 1].lsn /\ k < Len(q)
         /\ ~(k < n) => k = n /\ skEnd = f /\ (k < Len(q) => q[k + 1].lsn > f)
    <2>1. k < n => k + 1 \in 1..n
      BY <1>4, <1>6, <1>7
    <2> QED BY <1>2, <1>4, <1>5, <1>6, <2>1
  <1>13. k < Len(p) /\ k < Len(q) => end <= q[k + 1].lsn
    <2>0. SUFFICES ASSUME k < Len(p), k < Len(q) PROVE end <= q[k + 1].lsn
      OBVIOUS
    <2>1. k + 1 \in 1..Len(q)
      BY <1>2, <1>6, <2>0
    <2>2. q[k + 1].lsn \in Int /\ end \in Int
      BY <1>2, <1>10, <2>1, Ranges
    <2> HIDE DEF end, skEnd
    <2> QED BY <1>3, <1>6, <1>9, <1>10, <1>12, <2>0, <2>2
  <1>14. k = Len(q) \/ q[k + 1].lsn > f \/ k = Len(p) \/ p[k + 1].term # q[k + 1].term
    <2>1. CASE k < n
      <3>1. k + 1 \in 1..n
        BY <1>4, <1>6, <1>7, <2>1
      <3> QED BY <1>1, <1>5, <1>6, <2>1, <3>1
    <2>2. CASE ~(k < n)
      BY <1>2, <1>4, <1>6, <1>12, <2>2
    <2> QED BY <2>1, <2>2
  <1>15. end = f \/ (k < Len(p) /\ end = p[k + 1].lsn) \/ (k < Len(q) /\ end = q[k + 1].lsn)
    <2> HIDE DEF end, skEnd
    <2> QED BY <1>1, <1>6, <1>10, <1>12
  <1>16. k \in 1..Len(p) /\ k <= Len(q)
    BY <1>1, <1>2, <1>4, <1>6, <1>7
  <1> HIDE DEF end, x
  <1>17. /\ x \in Lsns /\ x <= f
         /\ k <= Len(q) /\ \A i \in 1..k : p[i] = q[i]
         /\ k = Len(p) => x = f
         /\ k < Len(p) => x <= p[k + 1].lsn
         /\ k < Len(p) /\ k < Len(q) => x <= q[k + 1].lsn
         /\ \/ x = f
            \/ k < Len(p) /\ x = p[k + 1].lsn
            \/ k < Len(q) /\ x = q[k + 1].lsn
         /\ k = Len(q) \/ q[k + 1].lsn > f \/ k = Len(p) \/ p[k + 1].term # q[k + 1].term
    BY <1>8, <1>10, <1>11, <1>13, <1>14, <1>15, <1>16
  <1> QED BY <1>16, <1>17 DEF x, u

\* Cutting WAL there leaves WAL that both histories describe alike, as long as the
\* history of walproposer does not end in an older term.
LEMMA TruncationKeepsTerms ==
  ASSUME NEW p, WellFormed(p), NEW q, WellFormed(q), Agree(p, q), NEW f \in Lsns,
         HighestTerm(q) <= HighestTerm(p), NEW l \in Int,
         l < ExpectedTruncation(p, UpTo(q, f), f)
  PROVE  TermAt(p, l) = TermAt(q, l)
PROOF
  <1> DEFINE x == ExpectedTruncation(p, UpTo(q, f), f)
  <1>1. x \in Lsns /\ x <= f
    BY TruncationFacts
  <1>2. PICK k \in 1..Len(p) : /\ k <= Len(q) /\ \A i \in 1..k : p[i] = q[i]
                               /\ k < Len(p) => x <= p[k + 1].lsn
                               /\ k < Len(p) /\ k < Len(q) => x <= q[k + 1].lsn
    BY TruncationFacts
  <1> HIDE DEF x
  <1>3. /\ p \in Seq(TermSwitches) /\ Len(p) \in Nat /\ HighestTerm(p) = p[Len(p)].term
        /\ \A i \in 1..Len(p) : p[i].lsn \in Int /\ p[i].term \in Int
    BY WellFormedFacts
  <1>4. /\ q \in Seq(TermSwitches) /\ Len(q) \in Nat /\ HighestTerm(q) = q[Len(q)].term
        /\ \A i \in 1..Len(q) : q[i].lsn \in Int /\ q[i].term \in Int
        /\ \A i, j \in 1..Len(q) : i < j => q[i].term < q[j].term
    BY WellFormedFacts
  <1>5. x \in Int /\ l < x
    BY <1>1, Ranges DEF x
  <1>6. k \in 1..Len(q) /\ k \in 0..Len(p)
    BY <1>2, <1>3, <1>4
  <1>7. SubSeq(p, 1, k) = SubSeq(q, 1, k)
    BY <1>2, <1>3, <1>4, <1>6, SameCut
  <1>8. k = Len(p) \/ p[k + 1].lsn > l
    <2>1. k < Len(p) => k + 1 \in 1..Len(p)
      BY <1>3
    <2> QED BY <1>2, <1>3, <1>5, <2>1
  <1>9. k = Len(q) \/ q[k + 1].lsn > l
    <2>1. CASE k < Len(p)
      <3>1. k < Len(q) => k + 1 \in 1..Len(q)
        BY <1>4, <1>6
      <3> QED BY <1>2, <1>4, <1>5, <2>1, <3>1
    <2>2. CASE k = Len(p)
      <3> SUFFICES ASSUME k < Len(q) PROVE FALSE
        BY <1>2, <1>4
      <3>1. Len(q) \in 1..Len(q) /\ p[k] = q[k] /\ k \in 1..k
        BY <1>2, <1>4, <1>6
      <3>2. q[k].term < q[Len(q)].term /\ q[k].term \in Int /\ q[Len(q)].term \in Int
        BY <1>4, <1>6, <3>1
      <3> QED BY <1>3, <1>4, <2>2, <3>1, <3>2
    <2> QED BY <1>2, <1>3, <2>1, <2>2
  <1> QED BY <1>6, <1>7, <1>8, <1>9, TermAtOfCut

\* A safekeeper that has the history of walproposer already is not told to cut
\* flushed WAL.
LEMMA SameHistoryNotCut ==
  ASSUME NEW p, WellFormed(p), NEW f \in Lsns
  PROVE  ExpectedTruncation(p, UpTo(p, f), f) = f
PROOF
  <1> DEFINE x == ExpectedTruncation(p, UpTo(p, f), f)
  <1>1. Agree(p, p)
    <2> SUFFICES ASSUME NEW i \in 1..Len(p), NEW j \in 1..Len(p), p[i].term = p[j].term
                 PROVE  i = j
      BY DEF Agree
    <2>1. i < j \/ j < i \/ i = j
      BY WellFormedFacts
    <2> QED BY <2>1, WellFormedFacts
  <1>2. x \in Lsns /\ x <= f
    BY <1>1, TruncationFacts
  <1>3. PICK k \in 1..Len(p) : /\ k = Len(p) => x = f
                               /\ x = f \/ (k < Len(p) /\ x = p[k + 1].lsn)
                               /\ k = Len(p) \/ p[k + 1].lsn > f \/ p[k + 1].term # p[k + 1].term
    BY <1>1, TruncationFacts
  <1>4. x \in Int /\ f \in Int
    BY <1>2, Ranges
  <1> HIDE DEF x
  <1>5. x = f
    BY <1>2, <1>3, <1>4
  <1> QED BY <1>5 DEF x

-----------------------------------------------------------------------------
(* Histories that safekeepers, walproposers and messages hold *)

Won(t) == \E q \in Proposers : <<q, t>> \in won

TermsWon(h) == \A i \in 1..Len(h) : h[i].term = 0 \/ Won(h[i].term)

IsKnown(h) ==
  \/ \E s \in Safekeepers : h = cf[s].hist
  \/ \E p \in Proposers : wp[p].state = "ELECTED" /\ h = wp[p].hist
  \/ \E k \in Kinds, p \in Proposers, s \in Safekeepers : \E m \in ToSet(conn[k][p][s].queue) :
       m.type = "ProposerElected" /\ h = m.hist
  \/ \E p \in Proposers, s \in Safekeepers : \E m \in ToSet(toWp[p][s]) :
       m.type = "Vote" /\ h = m.hist
  \/ \E p \in Proposers, s \in Safekeepers :
       sks[p][s].state = "WAIT_ELECTED" /\ h = sks[p][s].vote.hist

KnownAreSound == \A h : IsKnown(h) => WellFormed(h) /\ TermsWon(h)

KnownAgree == \A h, g : IsKnown(h) /\ IsKnown(g) => Agree(h, g)

\* A candidate has a term that is not 0, and has not won yet; who is elected has won.
CandidatesHaveTerms == \A p \in Proposers : wp[p].state = "CAMPAIGN" => wp[p].term > 0

WinnersHaveWon ==
  /\ \A e \in won : wp[e[1]].state \notin {"COLLECTING_TERMS", "CAMPAIGN"}
  /\ \A p \in Proposers : wp[p].state = "ELECTED" => <<p, wp[p].term>> \in won

\* The term of a safekeeper is not below its history.
HistoriesWithinTerm == \A s \in Safekeepers : HighestTerm(cf[s].hist) <= cf[s].term

MessagesAreWinners ==
  \A k \in Kinds, p \in Proposers, s \in Safekeepers : \A m \in ToSet(conn[k][p][s].queue) :
    /\ m.type = "ProposerElected" => m.term = HighestTerm(m.hist)
    /\ m.type = "AppendRequest" => Won(m.term)

\* A vote that is given comes from WAL of lower terms.
VoteIsSound(w, m) ==
  /\ Campaigning(w)
  /\ m.term >= w.term
  /\ m.given => HighestTerm(m.hist) < w.term /\ m.term = w.term
  /\ HighestTerm(m.hist) <= m.term
  /\ Last(m.hist).lsn <= m.flush

CountedIsSound(w, vote) ==
  w.state = "CAMPAIGN" /\ HighestTerm(vote.hist) < w.term /\ Last(vote.hist).lsn <= vote.flush

VotesAreSound ==
  \A p \in Proposers, s \in Safekeepers :
    /\ sks[p][s].state = "WAIT_ELECTED" => CountedIsSound(wp[p], sks[p][s].vote)
    /\ \A m \in ToSet(toWp[p][s]) : m.type = "Vote" => VoteIsSound(wp[p], m)

HistoryInv ==
  /\ ElectionInv
  /\ KnownAreSound
  /\ KnownAgree
  /\ CandidatesHaveTerms
  /\ WinnersHaveWon
  /\ HistoriesWithinTerm
  /\ MessagesAreWinners
  /\ VotesAreSound

-----------------------------------------------------------------------------
(* Where histories come from *)

PartOf(h, g) == \E k \in 1..Len(g) : h = SubSeq(g, 1, k)

\* A history is a part of itself.
LEMMA WholeIsPart ==
  ASSUME NEW h, WellFormed(h)
  PROVE  PartOf(h, h)
PROOF
  <1>1. h \in Seq(TermSwitches) /\ Len(h) \in Nat /\ Len(h) >= 1
    BY WellFormedFacts
  <1>2. Len(h) \in 1..Len(h) /\ SubSeq(h, 1, Len(h)) = h
    BY <1>1, CutFacts
  <1> QED BY <1>2 DEF PartOf

\* What has been won stays won.
LEMMA WonStays ==
  ASSUME Step
  PROVE  won \subseteq won' /\ \A t : Won(t) => Won(t)'
PROOF
  <1>1. won \subseteq won'
    BY DEF Step, QuietMove, WinMove, WonMove, Wins
  <1> QED BY <1>1 DEF Won

\* The file's history stays, or is one that was announced.
LEMMA FileHistoryMoves ==
  ASSUME TypeOK, Moves, NEW s \in Safekeepers
  PROVE  IsKnown(cf'[s].hist)
PROOF
  <1>1. SafekeeperMove(s)
    BY DEF Moves
  <1>2. CASE cf'[s].hist = cf[s].hist
    BY <1>2 DEF IsKnown
  <1>3. CASE \E k \in Kinds, p \in Proposers :
               FirstMessage(k, p, s, "ProposerElected") /\ Adopts(s, Message(k, p, s))
    <2>1. PICK k \in Kinds, p \in Proposers :
                 FirstMessage(k, p, s, "ProposerElected") /\ Adopts(s, Message(k, p, s))
      BY <1>3
    <2>2. cf'[s].hist = Message(k, p, s).hist
      BY <2>1 DEF Adopts
    <2>3. /\ Message(k, p, s) \in ToSet(conn[k][p][s].queue)
          /\ Message(k, p, s).type = "ProposerElected"
      BY <2>1, MessageCame
    <2> QED BY <2>2, <2>3 DEF IsKnown
  <1> QED BY <1>1, <1>2, <1>3 DEF SafekeeperMove, Keeps, Restarts, Appends, RestartsIn

\* The history of an elected walproposer stays, or is new.
LEMMA ProposerHistoryMoves ==
  ASSUME TypeOK, Step, NEW p \in Proposers, wp'[p].state = "ELECTED"
  PROVE  IsKnown(wp'[p].hist) \/ \E s, donor \in Safekeepers : Wins(p, s, donor)
BY ElectedMoves DEF IsKnown, Leads

\* The history in a ProposerElected was announced before, or is that of its sender.
LEMMA MessageHistoryMoves ==
  ASSUME TypeOK, TypeOK', Step, NEW k \in Kinds, NEW p \in Proposers, NEW s \in Safekeepers,
         NEW m \in ToSet(conn'[k][p][s].queue), m.type = "ProposerElected"
  PROVE  \/ IsKnown(m.hist)
         \/ wp'[p].state = "ELECTED" /\ m.hist = wp'[p].hist /\ m.term = wp'[p].term
PROOF
  <1>1. Moves
    BY DEF Step, QuietMove, WinMove
  <1>2. CASE m \in ToSet(conn[k][p][s].queue) \/ m \in ToSet(conn["live"][p][s].queue)
    BY <1>2 DEF IsKnown, Kinds
  <1>3. CASE NewMessage(p, s, m)
    <2>1. m = ProposerElected(wp'[p], sks'[p][s]) /\ sks'[p][s].state = "ACTIVE"
      BY <1>3 DEF NewMessage, NewAppend, VoteRequest
    <2>2. m.hist = wp'[p].hist /\ m.term = wp'[p].term
      BY <2>1 DEF ProposerElected
    <2>3. wp'[p].state = "ELECTED"
      BY <2>1 DEF TypeOK, WalProposerPhases, SafekeeperPhase
    <2> QED BY <2>2, <2>3
  <1> QED BY <1>1, <1>2, <1>3, QueueMoves

\* A vote that is on its way was before, or answers a request on the live connection.
LEMMA VoteCame ==
  ASSUME TypeOK, Moves, NEW p \in Proposers, NEW s \in Safekeepers,
         NEW m \in ToSet(toWp'[p][s]), m.type = "Vote", m \notin ToSet(toWp[p][s])
  PROVE  LET r == Message("live", p, s)
         IN  /\ FirstMessage("live", p, s, "VoteRequest") /\ NewVote(s, r, m)
             /\ m.hist = UpTo(cf[s].hist, m.flush) /\ m.flush = WriteLsn(s)
             /\ m.term = cf'[s].term /\ (m.given <=> cf[s].term < r.term)
             /\ m.flush = flushLsn'[s]
PROOF
  <1> DEFINE r == Message("live", p, s)
  <1>1. FirstMessage("live", p, s, "VoteRequest") /\ NewVote(s, r, m)
    BY DEF Moves, AnswerMove, NewAnswer
  <1> HIDE DEF r
  <1>2. m = VoteReply(s, r) /\ flushLsn'[s] = WriteLsn(s)
    BY <1>1 DEF NewVote
  <1>3. /\ m.hist = UpTo(cf[s].hist, m.flush) /\ m.flush = flushLsn'[s]
        /\ m.term = cf'[s].term /\ m.given = (cf[s].term < r.term)
    BY <1>2 DEF VoteReply
  <1> QED BY <1>1, <1>2, <1>3 DEF r

\* A vote that a walproposer has counted was counted before, or was on its way.
LEMMA CountedCame ==
  ASSUME TypeOK, Step, NEW p \in Proposers, NEW s \in Safekeepers,
         sks'[p][s].state = "WAIT_ELECTED"
  PROVE  \/ /\ sks[p][s].state = "WAIT_ELECTED" /\ sks'[p][s].vote = sks[p][s].vote
            /\ wp'[p].state = wp[p].state /\ wp'[p].term = wp[p].term
         \/ /\ wp[p].state = "CAMPAIGN" /\ wp'[p].state = "CAMPAIGN" /\ wp'[p].term = wp[p].term
            /\ \E m \in ToSet(toWp[p][s]) : Given(m) /\ sks'[p][s].vote = VoteOf(m)
PROOF
  <1>1. CASE Rests(p)
    BY <1>1 DEF Rests
  <1>2. CASE Exits(p)
    BY <1>2 DEF Exits, Offline
  <1>3. CASE (Campaigns(p) \/ Leads(p)) /\ SafekeeperRecordMove(p, s)
    <2>1. SafekeeperPhase(wp[p], sks[p][s])
      BY Parts, OneRecord
    <2> QED BY <1>3, <2>1 DEF Campaigns, Leads, SafekeeperRecordMove, SafekeeperPhase
  <1>4. ASSUME NEW x \in Safekeepers, NEW donor \in Safekeepers, Wins(p, x, donor)
        PROVE  FALSE
    <2>1. sks[p][s] \in SafekeeperRecords
      BY Parts, OneRecord
    <2>2. CASE s = x \/ sks[p][s].state = "WAIT_ELECTED"
      <3>1. sks'[p][s].state = "ACTIVE"
        BY <1>4, <2>1, <2>2 DEF Wins, Streaming, SafekeeperRecords
      <3> QED BY <3>1
    <2>3. CASE ~(s = x \/ sks[p][s].state = "WAIT_ELECTED")
      BY <1>4, <2>3 DEF Wins
    <2> QED BY <2>2, <2>3
  <1> QED BY <1>1, <1>2, <1>3, <1>4, ProposerCases DEF ProposerMove

\* Every history after a step is a part of one before it, or that of the winner.
LEMMA KnownMoves ==
  ASSUME HistoryInv, TypeOK', Step, NEW h, IsKnown(h)'
  PROVE  \/ \E g : IsKnown(g) /\ PartOf(h, g)
         \/ \E p \in Proposers, s, donor \in Safekeepers : Wins(p, s, donor) /\ h = wp'[p].hist
PROOF
  <1>1. TypeOK /\ Moves
    BY DEF Step, QuietMove, WinMove, HistoryInv, ElectionInv
  <1>2. ASSUME NEW g, IsKnown(g) PROVE \E x : IsKnown(x) /\ PartOf(g, x)
    BY <1>2, WholeIsPart DEF HistoryInv, KnownAreSound
  <1>3. CASE \E s \in Safekeepers : h = cf'[s].hist
    BY <1>1, <1>2, <1>3, FileHistoryMoves
  <1>4. ASSUME NEW p \in Proposers, wp'[p].state = "ELECTED", h = wp'[p].hist
        PROVE  \/ \E g : IsKnown(g) /\ PartOf(h, g)
               \/ \E s, donor \in Safekeepers : Wins(p, s, donor) /\ h = wp'[p].hist
    BY <1>1, <1>2, <1>4, ProposerHistoryMoves
  <1>5. ASSUME NEW k \in Kinds, NEW p \in Proposers, NEW s \in Safekeepers,
               NEW m \in ToSet(conn'[k][p][s].queue), m.type = "ProposerElected", h = m.hist
        PROVE  IsKnown(h) \/ (wp'[p].state = "ELECTED" /\ h = wp'[p].hist)
    BY <1>1, <1>5, MessageHistoryMoves
  <1>6. ASSUME NEW p \in Proposers, NEW s \in Safekeepers, NEW m \in ToSet(toWp'[p][s]),
               m.type = "Vote", h = m.hist
        PROVE  \E g : IsKnown(g) /\ PartOf(h, g)
    <2>1. CASE m \in ToSet(toWp[p][s])
      <3>1. IsKnown(h)
        BY <1>6, <2>1 DEF IsKnown
      <3> QED BY <1>2, <3>1
    <2>2. CASE m \notin ToSet(toWp[p][s])
      <3>1. h = UpTo(cf[s].hist, m.flush) /\ m.flush = WriteLsn(s)
        BY <1>1, <1>6, <2>2, VoteCame
      <3>2. m.flush \in Lsns
        BY <1>1, <3>1, Parts, SafekeeperFacts
      <3>3. m.flush \in Int /\ StartLsn <= m.flush
        BY <3>2, LsnRange
      <3>4. IsKnown(cf[s].hist)
        BY DEF IsKnown
      <3>5. WellFormed(cf[s].hist)
        BY <3>4 DEF HistoryInv, KnownAreSound
      <3>6. PartOf(h, cf[s].hist)
        BY <3>1, <3>3, <3>5, FlushedPart DEF PartOf
      <3> QED BY <3>4, <3>6
    <2> QED BY <2>1, <2>2
  <1>7. ASSUME NEW p \in Proposers, NEW s \in Safekeepers, sks'[p][s].state = "WAIT_ELECTED",
               h = sks'[p][s].vote.hist
        PROVE  IsKnown(h)
    <2>1. CASE sks[p][s].state = "WAIT_ELECTED" /\ sks'[p][s].vote = sks[p][s].vote
      BY <1>7, <2>1 DEF IsKnown
    <2>2. CASE \E m \in ToSet(toWp[p][s]) : Given(m) /\ sks'[p][s].vote = VoteOf(m)
      BY <1>7, <2>2 DEF IsKnown, Given, VoteOf
    <2> QED BY <1>1, <1>7, <2>1, <2>2, CountedCame
  <1> QED BY <1>2, <1>3, <1>4, <1>5, <1>6, <1>7 DEF IsKnown

\* A part of a sound history is sound.
LEMMA PartSound ==
  ASSUME NEW g, WellFormed(g), NEW h, PartOf(h, g)
  PROVE  /\ WellFormed(h) /\ (TermsWon(g) => TermsWon(h))
         /\ \A x : Agree(g, x) => Agree(h, x)
PROOF
  <1>1. PICK k \in 1..Len(g) : h = SubSeq(g, 1, k)
    BY DEF PartOf
  <1>2. g \in Seq(TermSwitches) /\ Len(g) \in Nat
    BY WellFormedFacts
  <1>3. Len(h) = k /\ \A i \in 1..k : h[i] = g[i]
    BY <1>1, <1>2, CutFacts
  <1>4. TermsWon(g) => TermsWon(h)
    BY <1>2, <1>3 DEF TermsWon
  <1> QED BY <1>1, <1>4, WellFormedCut, AgreeCut

\* A history with one more entry.
LEMMA OneMoreEntry ==
  ASSUME NEW h, WellFormed(h), NEW t \in Terms, NEW l \in Lsns,
         HighestTerm(h) < t, Last(h).lsn <= l
  PROVE  LET n == Append(h, [term |-> t, lsn |-> l])
         IN  /\ WellFormed(n) /\ Len(n) = Len(h) + 1 /\ n[Len(n)] = [term |-> t, lsn |-> l]
             /\ \A i \in 1..Len(h) : n[i] = h[i]
             /\ HighestTerm(n) = t /\ Front(n) = h
PROOF
  <1> DEFINE e == [term |-> t, lsn |-> l]
             n == Append(h, e)
  <1>1. /\ h \in Seq(TermSwitches) /\ Len(h) \in Nat /\ Len(h) >= 1
        /\ \A i \in 1..Len(h) : h[i].term \in Int /\ h[i].lsn \in Int
        /\ HighestTerm(h) = h[Len(h)].term /\ Last(h) = h[Len(h)]
        /\ \A i, j \in 1..Len(h) : i < j => h[i].term < h[j].term /\ h[i].lsn <= h[j].lsn
        /\ \A i \in 1..Len(h) : h[i].term <= HighestTerm(h)
    BY WellFormedFacts
  <1>2. e \in TermSwitches /\ e.term = t /\ e.lsn = l /\ t \in Int /\ l \in Int
    BY Ranges DEF TermSwitches
  <1> HIDE DEF e
  <1>3. /\ n \in Seq(TermSwitches) /\ Len(n) = Len(h) + 1 /\ n[Len(n)] = e
        /\ \A i \in 1..Len(h) : n[i] = h[i]
    BY <1>1, <1>2, AppendProperties
  <1> HIDE DEF n
  <1>4. \A i \in 1..Len(h) : h[i].lsn <= l /\ h[i].term < t
    <2> SUFFICES ASSUME NEW i \in 1..Len(h) PROVE h[i].lsn <= l /\ h[i].term < t
      OBVIOUS
    <2>1. Len(h) \in 1..Len(h) /\ (i < Len(h) \/ i = Len(h))
      BY <1>1
    <2>2. h[i].lsn <= h[Len(h)].lsn
      BY <1>1, <2>1
    <2>3. h[i].lsn \in Int /\ h[i].term \in Int /\ h[Len(h)].lsn \in Int /\ h[Len(h)].term \in Int
      BY <1>1, <2>1
    <2>4. h[Len(h)].lsn <= l /\ h[Len(h)].term < t /\ h[i].term <= h[Len(h)].term
      BY <1>1
    <2> QED BY <1>2, <2>2, <2>3, <2>4
  <1>5. \A i, j \in 1..Len(n) : i < j => n[i].term < n[j].term /\ n[i].lsn <= n[j].lsn
    <2> SUFFICES ASSUME NEW i \in 1..Len(n), NEW j \in 1..Len(n), i < j
                 PROVE  n[i].term < n[j].term /\ n[i].lsn <= n[j].lsn
      OBVIOUS
    <2>1. i \in 1..Len(h) /\ (j \in 1..Len(h) \/ j = Len(n))
      BY <1>1, <1>3
    <2>2. CASE j \in 1..Len(h)
      BY <1>1, <1>3, <2>1, <2>2
    <2>3. CASE j = Len(n)
      BY <1>2, <1>3, <1>4, <2>1, <2>3
    <2> QED BY <2>1, <2>2, <2>3
  <1>6. n # <<>> /\ n[1] = h[1]
    <2>1. Len(n) # 0 /\ 1 \in 1..Len(h)
      BY <1>1, <1>3
    <2> QED BY <1>3, <2>1, SeqFacts
  <1>7. WellFormed(n)
    BY <1>3, <1>5, <1>6 DEF WellFormed, Histories, TermSwitches
  <1>8. HighestTerm(n) = t
    BY <1>2, <1>3, <1>7, WellFormedFacts
  <1>9. Front(n) = h
    <2>1. Front(n) = SubSeq(n, 1, Len(h))
      BY <1>1, <1>3 DEF Front
    <2>2. SubSeq(n, 1, Len(h)) = SubSeq(h, 1, Len(h)) /\ SubSeq(h, 1, Len(h)) = h
      <3>1. Len(h) \in 0..Len(n) /\ Len(h) <= Len(h) /\ Len(h) \in 0..Len(h)
        BY <1>1, <1>3
      <3>2. SubSeq(n, 1, Len(h)) = SubSeq(h, 1, Len(h))
        BY <1>1, <1>3, <3>1, SameCut
      <3> QED BY <1>1, <3>1, <3>2, CutFacts
    <2> QED BY <2>1, <2>2
  <1> QED BY <1>3, <1>7, <1>8, <1>9 DEF n, e

\* Terms that were won stay won.
LEMMA TermsStayWon ==
  ASSUME Step, NEW h, TermsWon(h)
  PROVE  TermsWon(h)'
BY WonStays DEF TermsWon

\* A vote a winner has is sound, and from a lower term.
LEMMA WinnersVote ==
  ASSUME HistoryInv, NEW p \in Proposers, NEW s \in Safekeepers, NEW donor \in Safekeepers,
         Wins(p, s, donor), NEW x \in Safekeepers, x = s \/ sks[p][x].state = "WAIT_ELECTED"
  PROVE  LET v == VoteWith(p, s, Answer(p, s), x)
         IN  /\ IsKnown(v.hist) /\ HighestTerm(v.hist) < wp[p].term
             /\ Last(v.hist).lsn <= v.flush /\ v.flush \in Lsns
             /\ HasVote(p, x)
PROOF
  <1>0. TypeOK /\ VotesAreSound /\ WalProposerOK
    BY Parts DEF HistoryInv, ElectionInv
  <1>1. CASE x = s
    <2>1. /\ Answer(p, s) \in ToSet(toWp[p][s]) /\ Given(Answer(p, s))
          /\ Answer(p, s) \in ToProposer
      <3>1. FirstAnswer(p, s, "Vote") /\ Given(Answer(p, s))
        BY DEF Wins
      <3>2. Answer(p, s) \in ToSet(toWp[p][s])
        BY <1>0, <3>1, Parts, AnswerCame
      <3> QED BY <1>0, <3>1, <3>2, AnsweringType
    <2>2. VoteWith(p, s, Answer(p, s), x) = VoteOf(Answer(p, s))
      BY <1>1 DEF VoteWith
    <2>3. VoteIsSound(wp[p], Answer(p, s)) /\ Answer(p, s).type = "Vote" /\ Answer(p, s).given
      BY <1>0, <2>1 DEF VotesAreSound, Given
    <2>4. Answer(p, s).flush \in Lsns
      BY <2>1, <2>3 DEF ToProposer
    <2>5. IsKnown(Answer(p, s).hist)
      BY <2>1, <2>3 DEF IsKnown
    <2> QED BY <1>1, <2>1, <2>2, <2>3, <2>4, <2>5 DEF VoteIsSound, VoteOf, HasVote
  <1>2. CASE x # s
    <2>1. sks[p][x].state = "WAIT_ELECTED"
      BY <1>2
    <2>2. VoteWith(p, s, Answer(p, s), x) = sks[p][x].vote
      BY <1>2 DEF VoteWith
    <2>3. CountedIsSound(wp[p], sks[p][x].vote)
      BY <1>0, <2>1 DEF VotesAreSound
    <2>4. sks[p][x].vote.flush \in Lsns
      <3>1. sks[p][x].vote.flush # 0 /\ sks[p][x].vote.flush \in OptLsns
        BY <1>0, <2>1, OneRecord DEF SafekeeperPhase, SafekeeperRecords, Votes
      <3> QED BY <3>1 DEF OptLsns
    <2>5. IsKnown(sks[p][x].vote.hist)
      BY <2>1 DEF IsKnown
    <2> QED BY <2>1, <2>2, <2>3, <2>4, <2>5 DEF CountedIsSound, HasVote
  <1> QED BY <1>1, <1>2

\* Those it counts, the one it recovers from among them, are members.
LEMMA DonorsVote ==
  ASSUME HistoryInv, NEW p \in Proposers, NEW s \in Safekeepers, NEW donor \in Safekeepers,
         Wins(p, s, donor), NEW x \in Voters(p, s)
  PROVE  LET v == VoteWith(p, s, Answer(p, s), x)
         IN  /\ IsKnown(v.hist) /\ HighestTerm(v.hist) < wp[p].term
             /\ Last(v.hist).lsn <= v.flush /\ v.flush \in Lsns
             /\ x \in Safekeepers /\ HasVote(p, x)
PROOF
  <1>0. TypeOK /\ WalProposerOK
    BY Parts DEF HistoryInv, ElectionInv
  <1>1. x \in Safekeepers
    <2>1. wp[p].gen \in {0} \cup DOMAIN Conf /\ wp[p].state = "CAMPAIGN" /\ ProposerPhase(wp[p])
      BY <1>0, OneRecord DEF Wins, ProposerRecords
    <2>2. wp[p].gen \in DOMAIN Conf
      BY <2>1 DEF ProposerPhase
    <2> QED BY <2>2, ConfAssumption DEF Voters, Members
  <1>2. x = s \/ sks[p][x].state = "WAIT_ELECTED"
    BY DEF Voters
  <1> QED BY <1>1, <1>2, WinnersVote

\* The term of the winner is not in any history yet.
LEMMA FreshTerm ==
  ASSUME HistoryInv, ElectionInv', NEW p \in Proposers, NEW s \in Safekeepers,
         NEW donor \in Safekeepers, Wins(p, s, donor)
  PROVE  /\ wp[p].term \in Terms /\ wp[p].term # 0 /\ ~Won(wp[p].term)
         /\ \A g : IsKnown(g) => \A i \in 1..Len(g) : g[i].term # wp[p].term
PROOF
  <1>0. TypeOK /\ CandidatesHaveTerms /\ WinnersHaveWon /\ ElectionSafety' /\ KnownAreSound
    BY DEF HistoryInv, ElectionInv
  <1>1. wp[p].term \in Terms
    BY <1>0, Parts, OneRecord DEF ProposerRecords
  <1>2. wp[p].term # 0
    <2>1. wp[p].term > 0
      BY <1>0 DEF CandidatesHaveTerms, Wins
    <2> QED BY <1>1, <2>1, TermsAreInts
  <1>3. ~Won(wp[p].term)
    <2> SUFFICES ASSUME NEW q \in Proposers, <<q, wp[p].term>> \in won PROVE FALSE
      BY DEF Won
    <2>1. <<q, wp[p].term>> \in won' /\ <<p, wp[p].term>> \in won'
      BY DEF Wins
    <2>2. <<q, wp[p].term>> = <<p, wp[p].term>>
      BY <1>0, <2>1 DEF ElectionSafety
    <2>3. <<p, wp[p].term>> \in won
      BY <2>2
    <2>4. wp[<<p, wp[p].term>>[1]].state \notin {"COLLECTING_TERMS", "CAMPAIGN"}
      BY <1>0, <2>3 DEF WinnersHaveWon
    <2> QED BY <2>4 DEF Wins
  <1>4. \A g : IsKnown(g) => \A i \in 1..Len(g) : g[i].term # wp[p].term
    BY <1>0, <1>2, <1>3 DEF KnownAreSound, TermsWon
  <1> QED BY <1>1, <1>2, <1>3, <1>4

\* The history of the winner.
LEMMA WinnersHistory ==
  ASSUME HistoryInv, ElectionInv', NEW p \in Proposers, NEW s \in Safekeepers,
         NEW donor \in Safekeepers, Wins(p, s, donor)
  PROVE  LET v == VoteWith(p, s, Answer(p, s), donor)
             n == wp'[p].hist
         IN  /\ WellFormed(n) /\ Agree(n, n) /\ HighestTerm(n) = wp[p].term
             /\ Front(n) = v.hist /\ Len(n) = Len(v.hist) + 1
             /\ n[Len(n)] = [term |-> wp[p].term, lsn |-> v.flush]
             /\ \A i \in 1..Len(v.hist) : n[i] = v.hist[i]
             /\ \A g : IsKnown(g) => Agree(n, g)
             /\ \A i \in 1..Len(n) : n[i].term = 0 \/ Won(n[i].term) \/ n[i].term = wp[p].term
PROOF
  <1> DEFINE v == VoteWith(p, s, Answer(p, s), donor)
             n == wp'[p].hist
             t == wp[p].term
  <1>0. TypeOK /\ KnownAreSound /\ KnownAgree
    BY DEF HistoryInv, ElectionInv
  <1>1. donor \in Voters(p, s)
    BY DEF Wins
  <1>2. IsKnown(v.hist) /\ HighestTerm(v.hist) < t /\ Last(v.hist).lsn <= v.flush /\ v.flush \in Lsns
    BY <1>1, DonorsVote
  <1>3. n = Append(v.hist, [term |-> t, lsn |-> v.flush])
    BY <1>0, WinnersTerm
  <1>4. /\ t \in Terms /\ t # 0 /\ ~Won(t)
        /\ \A g : IsKnown(g) => \A i \in 1..Len(g) : g[i].term # t
    BY FreshTerm
  <1>5. WellFormed(v.hist) /\ TermsWon(v.hist)
    BY <1>0, <1>2 DEF KnownAreSound
  <1> HIDE DEF v, n, t
  <1>6. /\ WellFormed(n) /\ Len(n) = Len(v.hist) + 1 /\ HighestTerm(n) = t /\ Front(n) = v.hist
        /\ n[Len(n)] = [term |-> t, lsn |-> v.flush]
        /\ \A i \in 1..Len(v.hist) : n[i] = v.hist[i]
    BY <1>2, <1>3, <1>4, <1>5, OneMoreEntry
  <1>7. Len(v.hist) \in Nat /\ \A i \in 1..Len(n) : i \in 1..Len(v.hist) \/ i = Len(n)
    BY <1>5, <1>6, WellFormedFacts
  <1>8. ASSUME NEW g, IsKnown(g) PROVE Agree(n, g)
    <2> SUFFICES ASSUME NEW i \in 1..Len(n), NEW j \in 1..Len(g), n[i].term = g[j].term
                 PROVE  i = j /\ \A a \in 1..i : n[a] = g[a]
      BY DEF Agree
    <2>1. i \in 1..Len(v.hist)
      BY <1>4, <1>6, <1>7, <1>8
    <2>2. Agree(v.hist, g)
      BY <1>0, <1>2, <1>8 DEF KnownAgree
    <2>3. i = j /\ \A a \in 1..i : v.hist[a] = g[a]
      BY <1>6, <2>1, <2>2 DEF Agree
    <2>4. \A a \in 1..i : a \in 1..Len(v.hist)
      BY <1>7, <2>1
    <2> QED BY <1>6, <2>3, <2>4
  <1>9. Agree(n, n)
    <2> SUFFICES ASSUME NEW i \in 1..Len(n), NEW j \in 1..Len(n), n[i].term = n[j].term
                 PROVE  i = j
      BY DEF Agree
    <2>1. i < j \/ j < i \/ i = j
      BY <1>6, WellFormedFacts
    <2> QED BY <1>6, <2>1, WellFormedFacts
  <1>10. \A i \in 1..Len(n) : n[i].term = 0 \/ Won(n[i].term) \/ n[i].term = t
    BY <1>5, <1>6, <1>7 DEF TermsWon
  <1> QED BY <1>6, <1>8, <1>9, <1>10 DEF v, n, t

-----------------------------------------------------------------------------
(* Every step keeps the invariant *)

\* Only one walproposer wins in a step.
LEMMA OneWinner ==
  ASSUME TypeOK,
         NEW p \in Proposers, NEW s \in Safekeepers, NEW d \in Safekeepers, Wins(p, s, d),
         NEW q \in Proposers, NEW x \in Safekeepers, NEW e \in Safekeepers, Wins(q, x, e)
  PROVE  p = q
PROOF
  <1> SUFFICES ASSUME p # q PROVE FALSE
    OBVIOUS
  <1>1. wp'[p] = wp[p] /\ wp[p].state = "CAMPAIGN"
    BY DEF Wins
  <1> QED BY <1>1, WinnersTerm

\* Histories stay sound and go on agreeing.
LEMMA KnownStep ==
  ASSUME HistoryInv, ElectionInv', Step
  PROVE  KnownAreSound' /\ KnownAgree'
PROOF
  <1>0. TypeOK /\ TypeOK' /\ KnownAreSound /\ KnownAgree
    BY DEF HistoryInv, ElectionInv
  <1>1. ASSUME NEW h, IsKnown(h)'
        PROVE  \/ \E g : IsKnown(g) /\ PartOf(h, g)
               \/ \E p \in Proposers, s, donor \in Safekeepers : Wins(p, s, donor) /\ h = wp'[p].hist
    BY <1>0, <1>1, KnownMoves
  <1>2. ASSUME NEW h, NEW g, IsKnown(g), PartOf(h, g)
        PROVE  /\ WellFormed(h) /\ TermsWon(h)' /\ \A x : IsKnown(x) => Agree(h, x)
    <2>1. WellFormed(g) /\ TermsWon(g) /\ \A x : IsKnown(x) => Agree(g, x)
      BY <1>0, <1>2 DEF KnownAreSound, KnownAgree
    <2>2. WellFormed(h) /\ TermsWon(h) /\ \A x : IsKnown(x) => Agree(h, x)
      BY <1>2, <2>1, PartSound
    <2> QED BY <2>2, TermsStayWon
  <1>3. ASSUME NEW p \in Proposers, NEW s \in Safekeepers, NEW donor \in Safekeepers,
               Wins(p, s, donor), NEW h, h = wp'[p].hist
        PROVE  /\ WellFormed(h) /\ TermsWon(h)' /\ Agree(h, h)
               /\ \A x : IsKnown(x) => Agree(h, x)
    <2>1. /\ WellFormed(h) /\ Agree(h, h) /\ \A x : IsKnown(x) => Agree(h, x)
          /\ \A i \in 1..Len(h) : h[i].term = 0 \/ Won(h[i].term) \/ h[i].term = wp[p].term
      BY <1>3, WinnersHistory
    <2>2. ASSUME NEW t, t = wp[p].term PROVE Won(t)'
      BY <1>3, <2>2 DEF Wins, Won
    <2>3. TermsWon(h)'
      BY <2>1, <2>2, WonStays DEF TermsWon
    <2> QED BY <2>1, <2>3
  <1>4. KnownAreSound'
    <2> SUFFICES ASSUME NEW h, IsKnown(h)' PROVE WellFormed(h) /\ TermsWon(h)'
      BY DEF KnownAreSound
    <2> QED BY <1>1, <1>2, <1>3
  <1>5. ASSUME NEW h, NEW g, IsKnown(g), PartOf(h, g), NEW x, IsKnown(x)'
        PROVE  Agree(h, x)
    <2>1. CASE \E y : IsKnown(y) /\ PartOf(x, y)
      <3>1. PICK y : IsKnown(y) /\ PartOf(x, y)
        BY <2>1
      <3>2. Agree(x, g) /\ WellFormed(g)
        BY <1>0, <1>2, <1>5, <3>1 DEF KnownAreSound
      <3>3. Agree(g, x)
        BY <3>2, AgreeSymmetric
      <3> QED BY <1>5, <3>2, <3>3, PartSound
    <2>2. ASSUME NEW p \in Proposers, NEW s \in Safekeepers, NEW donor \in Safekeepers,
                 Wins(p, s, donor), x = wp'[p].hist
          PROVE  Agree(h, x)
      <3>1. Agree(x, g) /\ WellFormed(g)
        BY <1>0, <1>3, <1>5, <2>2 DEF KnownAreSound
      <3>2. Agree(g, x)
        BY <3>1, AgreeSymmetric
      <3> QED BY <1>5, <3>1, <3>2, PartSound
    <2> QED BY <1>1, <1>5, <2>1, <2>2
  <1>6. KnownAgree'
    <2> SUFFICES ASSUME NEW h, NEW x, IsKnown(h)', IsKnown(x)' PROVE Agree(h, x)
      BY DEF KnownAgree
    <2>1. CASE \E g : IsKnown(g) /\ PartOf(h, g)
      BY <1>5, <2>1
    <2>2. CASE \E g : IsKnown(g) /\ PartOf(x, g)
      <3>1. Agree(x, h)
        BY <1>5, <2>2
      <3> QED BY <3>1, AgreeSymmetric
    <2>3. ASSUME NEW p \in Proposers, NEW s \in Safekeepers, NEW d \in Safekeepers,
                 Wins(p, s, d), h = wp'[p].hist,
                 NEW q \in Proposers, NEW y \in Safekeepers, NEW e \in Safekeepers,
                 Wins(q, y, e), x = wp'[q].hist
          PROVE  Agree(h, x)
      <3>1. p = q
        BY <1>0, <2>3, OneWinner
      <3> QED BY <1>3, <2>3, <3>1
    <2> QED BY <1>1, <2>1, <2>2, <2>3
  <1> QED BY <1>4, <1>6

\* Candidates and winners.
LEMMA WinnersStep ==
  ASSUME HistoryInv, Step
  PROVE  CandidatesHaveTerms' /\ WinnersHaveWon'
PROOF
  <1>0. TypeOK /\ CandidatesHaveTerms /\ WinnersHaveWon
    BY DEF HistoryInv, ElectionInv
  <1>1. ASSUME NEW p \in Proposers, wp'[p].state = "CAMPAIGN" PROVE wp'[p].term > 0
    <2>1. ProposerMove(p) \/ \E s, donor \in Safekeepers : Wins(p, s, donor)
      BY <1>0, ProposerCases
    <2>2. CASE ProposerMove(p)
      BY <1>0, <1>1, <2>2 DEF ProposerMove, Rests, Exits, Campaigns, Leads, CandidatesHaveTerms, Alive
    <2>3. ASSUME NEW s \in Safekeepers, NEW donor \in Safekeepers, Wins(p, s, donor) PROVE FALSE
      BY <1>0, <1>1, <2>3, WinnersTerm
    <2> QED BY <2>1, <2>2, <2>3
  <1>2. ASSUME NEW p \in Proposers, wp[p].state \notin {"COLLECTING_TERMS", "CAMPAIGN"}
        PROVE  wp'[p].state \notin {"COLLECTING_TERMS", "CAMPAIGN"}
    <2>1. ProposerMove(p) \/ \E s, donor \in Safekeepers : Wins(p, s, donor)
      BY <1>0, ProposerCases
    <2> QED BY <1>2, <2>1 DEF ProposerMove, Rests, Exits, Campaigns, Leads, Wins, Alive
  <1>3. ASSUME NEW e \in won' PROVE wp'[e[1]].state \notin {"COLLECTING_TERMS", "CAMPAIGN"}
    <2>1. CASE e \in won
      <3>1. e[1] \in Proposers
        BY <1>0, <2>1, TermTypes
      <3> QED BY <1>0, <1>2, <2>1, <3>1 DEF WinnersHaveWon
    <2>2. CASE e \notin won /\ QuietMove
      BY <1>3, <2>2 DEF QuietMove, WonMove
    <2>3. CASE e \notin won /\ WinMove
      <3>1. PICK p \in Proposers, s \in Safekeepers, donor \in Safekeepers : Wins(p, s, donor)
        BY <2>3 DEF WinMove
      <3>2. e = <<p, wp[p].term>>
        BY <1>3, <2>3, <3>1 DEF Wins
      <3>3. wp'[p].state = "ELECTED"
        BY <1>0, <3>1, WinnersTerm
      <3> QED BY <3>2, <3>3
    <2> QED BY <2>1, <2>2, <2>3 DEF Step
  <1>4. ASSUME NEW p \in Proposers, wp'[p].state = "ELECTED" PROVE <<p, wp'[p].term>> \in won'
    <2>1. CASE wp[p].state = "ELECTED" /\ Leads(p)
      BY <1>0, <2>1, WonStays DEF Leads, WinnersHaveWon
    <2>2. ASSUME NEW s \in Safekeepers, NEW donor \in Safekeepers, Wins(p, s, donor)
          PROVE <<p, wp'[p].term>> \in won'
      <3>1. wp'[p].term = wp[p].term
        BY <1>0, <2>2, WinnersTerm
      <3> QED BY <2>2, <3>1 DEF Wins
    <2> QED BY <1>0, <1>4, <2>1, <2>2, ElectedMoves
  <1> QED BY <1>1, <1>3, <1>4 DEF CandidatesHaveTerms, WinnersHaveWon

\* The term of a control file and its history.
LEMMA FilesStep ==
  ASSUME HistoryInv, TypeOK', Step
  PROVE  HistoriesWithinTerm' /\ \A s \in Safekeepers : cf'[s].term >= cf[s].term
PROOF
  <1>0. TypeOK /\ Moves /\ HistoriesWithinTerm /\ MessagesAreWinners /\ KnownAreSound
    BY DEF HistoryInv, ElectionInv, Step, QuietMove, WinMove
  <1> SUFFICES ASSUME NEW s \in Safekeepers
               PROVE  HighestTerm(cf'[s].hist) <= cf'[s].term /\ cf'[s].term >= cf[s].term
    BY DEF HistoriesWithinTerm
  <1>1. cf[s].term \in Int /\ cf'[s].term \in Int
    <2>1. cf'[s].term \in Terms
      BY PartsNext DEF SafekeeperTypeOK, ControlFiles
    <2> QED BY <1>0, <2>1, TermsAreInts, TermTypes
  <1>2. HighestTerm(cf[s].hist) \in Int /\ HighestTerm(cf[s].hist) <= cf[s].term
    <2>1. WellFormed(cf[s].hist)
      BY <1>0 DEF KnownAreSound, IsKnown
    <2>2. Len(cf[s].hist) \in 1..Len(cf[s].hist)
      BY <2>1, WellFormedFacts
    <2> QED BY <1>0, <2>1, <2>2, WellFormedFacts DEF HistoriesWithinTerm
  <1>3. SafekeeperMove(s)
    BY <1>0 DEF Moves
  <1>4. CASE cf'[s].hist = cf[s].hist /\ cf'[s].term >= cf[s].term
    BY <1>1, <1>2, <1>4
  <1>5. ASSUME NEW k \in Kinds, NEW p \in Proposers,
               FirstMessage(k, p, s, "ProposerElected"), Adopts(s, Message(k, p, s))
        PROVE  HighestTerm(cf'[s].hist) <= cf'[s].term /\ cf'[s].term >= cf[s].term
    <2>1. /\ Message(k, p, s) \in ToSet(conn[k][p][s].queue)
          /\ Message(k, p, s).type = "ProposerElected"
      BY <1>0, <1>5, MessageCame
    <2>2. Message(k, p, s).term = HighestTerm(Message(k, p, s).hist)
      BY <1>0, <2>1 DEF MessagesAreWinners
    <2> QED BY <1>1, <1>5, <2>2 DEF Adopts, ElectedAccepted, ElectedExpected
  <1>6. Keeps(s) \/ Restarts(s) => cf'[s].hist = cf[s].hist /\ cf'[s].term >= cf[s].term
    BY <1>1 DEF Keeps, Restarts
  <1>7. ASSUME NEW m, Appends(s, m) \/ RestartsIn(s, m)
        PROVE  cf'[s].hist = cf[s].hist /\ cf'[s].term >= cf[s].term
    <2>1. CASE Appends(s, m)
      BY <1>1, <2>1 DEF Appends
    <2>2. CASE RestartsIn(s, m)
      <3>1. cf'[s].hist = cf[s].hist /\ cf'[s].term = m.term /\ ElectedAccepted(s, m)
        BY <2>2 DEF RestartsIn
      <3>2. cf[s].term <= m.term
        BY <3>1 DEF ElectedAccepted, ElectedExpected
      <3> QED BY <1>1, <3>1, <3>2
    <2> QED BY <1>7, <2>1, <2>2
  <1> QED BY <1>3, <1>4, <1>5, <1>6, <1>7 DEF SafekeeperMove

\* Announcements carry the history of their term; only winners send WAL.
LEMMA WinnersMessagesStep ==
  ASSUME HistoryInv, TypeOK', Step
  PROVE  MessagesAreWinners'
PROOF
  <1>0. TypeOK /\ Moves /\ MessagesAreWinners /\ WinnersHaveWon
    BY DEF HistoryInv, ElectionInv, Step, QuietMove, WinMove
  <1> SUFFICES ASSUME NEW k \in Kinds, NEW p \in Proposers, NEW s \in Safekeepers,
                      NEW m \in ToSet(conn'[k][p][s].queue)
               PROVE  /\ m.type = "ProposerElected" => m.term = HighestTerm(m.hist)
                      /\ m.type = "AppendRequest" => Won(m.term)'
    BY DEF MessagesAreWinners
  <1>1. CASE m \in ToSet(conn[k][p][s].queue) \/ m \in ToSet(conn["live"][p][s].queue)
    BY <1>0, <1>1, WonStays DEF MessagesAreWinners, Kinds
  <1>2. CASE NewMessage(p, s, m)
    <2>1. CASE m = VoteRequest(wp'[p])
      BY <2>1 DEF VoteRequest
    <2>2. CASE m = ProposerElected(wp'[p], sks'[p][s]) /\ sks'[p][s].state = "ACTIVE"
      <3>1. m.term = wp'[p].term /\ m.hist = wp'[p].hist /\ m.type = "ProposerElected"
        BY <2>2 DEF ProposerElected
      <3>2. wp'[p].hist # <<>> /\ Last(wp'[p].hist).term = wp'[p].term
        BY <2>2 DEF TypeOK, WalProposerPhases, SafekeeperPhase, ProposerPhase
      <3> QED BY <3>1, <3>2 DEF HighestTerm
    <2>3. CASE NewAppend(p, s, m)
      <3>1. m.type = "AppendRequest" /\ m.term = wp[p].term /\ sks[p][s].state = "ACTIVE"
        BY <2>3 DEF NewAppend
      <3>2. wp[p].state = "ELECTED"
        BY <1>0, <3>1, Parts, OneRecord DEF SafekeeperPhase
      <3>3. Won(m.term)
        BY <1>0, <3>1, <3>2 DEF WinnersHaveWon, Won
      <3> QED BY <3>1, <3>3, WonStays
    <2> QED BY <1>2, <2>1, <2>2, <2>3 DEF NewMessage
  <1> QED BY <1>0, <1>1, <1>2, QueueMoves

\* Who campaigns or leads and still gets answers does so in the same term.
LEMMA CampaignersMove ==
  ASSUME TypeOK, Step, NEW p \in Proposers, Campaigning(wp[p]), NEW s \in Safekeepers,
         NEW m \in ToSet(toWp'[p][s])
  PROVE  Campaigning(wp'[p]) /\ wp'[p].term = wp[p].term
PROOF
  <1>1. CASE wp[p].state = "ELECTED"
    BY <1>1, LeadersMove DEF Leads, Exits, Campaigning
  <1>2. CASE wp[p].state = "CAMPAIGN"
    BY <1>2, CandidatesMove, WinnersTerm DEF Exits, Campaigning
  <1> QED BY <1>1, <1>2 DEF Campaigning

\* A vote that s has just sent p.
LEMMA NewVoteIsSound ==
  ASSUME HistoryInv, TypeOK', Step, NEW p \in Proposers, NEW s \in Safekeepers,
         NEW m \in ToSet(toWp'[p][s]), m.type = "Vote", m \notin ToSet(toWp[p][s])
  PROVE  VoteIsSound(wp[p], m) /\ m.flush \in Lsns
PROOF
  <1>0. TypeOK /\ Moves /\ RequestsAreOwn /\ HistoriesWithinTerm /\ KnownAreSound
    BY DEF HistoryInv, ElectionInv, Step, QuietMove, WinMove
  <1> DEFINE r == Message("live", p, s)
             h == cf[s].hist
  <1>1. /\ FirstMessage("live", p, s, "VoteRequest") /\ NewVote(s, r, m)
        /\ m.hist = UpTo(h, m.flush) /\ m.flush = WriteLsn(s) /\ m.term = cf'[s].term
        /\ (m.given <=> cf[s].term < r.term)
    BY <1>0, VoteCame
  <1>2. Campaigning(wp[p]) /\ r.term = wp[p].term
    <2>1. r \in ToSet(conn["live"][p][s].queue) /\ r.type = "VoteRequest"
      BY <1>0, <1>1, MessageCame DEF Kinds
    <2> QED BY <1>0, <2>1 DEF RequestsAreOwn
  <1>3. WellFormed(h) /\ HighestTerm(h) <= cf[s].term
    BY <1>0 DEF KnownAreSound, IsKnown, HistoriesWithinTerm
  <1>4. m.flush \in Lsns /\ m.flush \in Int /\ StartLsn <= m.flush
    BY <1>0, <1>1, Parts, SafekeeperFacts, LsnRange
  <1>5. /\ Last(m.hist).lsn <= m.flush /\ HighestTerm(m.hist) <= HighestTerm(h)
        /\ HighestTerm(m.hist) \in Int /\ HighestTerm(h) \in Int
    <2> HIDE DEF h
    <2>1. PICK k \in 1..Len(h) : m.hist = SubSeq(h, 1, k)
      BY <1>1, <1>3, <1>4, FlushedPart
    <2>2. WellFormed(m.hist)
      BY <1>3, <2>1, WellFormedCut
    <2>3. \A g : WellFormed(g) => HighestTerm(g) \in Int
      <3> SUFFICES ASSUME NEW g, WellFormed(g) PROVE HighestTerm(g) \in Int
        OBVIOUS
      <3>1. Len(g) \in 1..Len(g)
        BY WellFormedFacts
      <3> QED BY <3>1, WellFormedFacts
    <2> QED BY <1>1, <1>3, <1>4, <2>2, <2>3, FlushedPart
  <1>6. cf[s].term \in Int /\ wp[p].term \in Int
    BY <1>0, TermTypes
  <1>7. m.term = IF cf[s].term < wp[p].term THEN wp[p].term ELSE cf[s].term
    <2>1. cf'[s] = RaisedTerm(s, wp[p].term)
      BY <1>1, <1>2 DEF NewVote
    <2>2. cf[s] \in ControlFiles
      BY <1>0, Parts, SafekeeperFacts
    <2> QED BY <1>1, <2>1, <2>2 DEF RaisedTerm, StartChange, ControlFiles
  <1> HIDE DEF r, h
  <1> QED BY <1>1, <1>2, <1>3, <1>4, <1>5, <1>6, <1>7 DEF VoteIsSound

\* Votes are sound, on their way and when they are counted.
LEMMA VotesStep ==
  ASSUME HistoryInv, TypeOK', Step
  PROVE  VotesAreSound'
PROOF
  <1>0. TypeOK /\ Moves /\ VotesAreSound
    BY DEF HistoryInv, ElectionInv, Step, QuietMove, WinMove
  <1>1. ASSUME NEW p \in Proposers, NEW s \in Safekeepers, sks'[p][s].state = "WAIT_ELECTED"
        PROVE  CountedIsSound(wp'[p], sks'[p][s].vote)
    <2>1. CASE /\ sks[p][s].state = "WAIT_ELECTED" /\ sks'[p][s].vote = sks[p][s].vote
               /\ wp'[p].state = wp[p].state /\ wp'[p].term = wp[p].term
      BY <1>0, <2>1 DEF VotesAreSound, CountedIsSound
    <2>2. ASSUME wp'[p].state = "CAMPAIGN", wp'[p].term = wp[p].term,
                 NEW m \in ToSet(toWp[p][s]), Given(m), sks'[p][s].vote = VoteOf(m)
          PROVE  CountedIsSound(wp'[p], sks'[p][s].vote)
      BY <1>0, <2>2 DEF VotesAreSound, VoteIsSound, CountedIsSound, Given, VoteOf
    <2> QED BY <1>0, <1>1, <2>1, <2>2, CountedCame
  <1>2. ASSUME NEW p \in Proposers, NEW s \in Safekeepers, NEW m \in ToSet(toWp'[p][s]),
               m.type = "Vote"
        PROVE  VoteIsSound(wp'[p], m)
    <2>1. VoteIsSound(wp[p], m)
      BY <1>0, <1>2, NewVoteIsSound DEF VotesAreSound
    <2>2. Campaigning(wp'[p]) /\ wp'[p].term = wp[p].term
      BY <1>0, <1>2, <2>1, CampaignersMove DEF VoteIsSound
    <2> QED BY <2>1, <2>2 DEF VoteIsSound
  <1> QED BY <1>1, <1>2 DEF VotesAreSound

\* Every history is the first one.
LEMMA HistoryInit == Init => HistoryInv
PROOF
  <1> SUFFICES ASSUME Init PROVE HistoryInv
    OBVIOUS
  <1> DEFINE first == <<[term |-> 0, lsn |-> StartLsn]>>
  <1>1. ElectionInv /\ TypeOK
    BY ElectionInit DEF ElectionInv
  <1>2. /\ \A k \in Kinds, p \in Proposers, s \in Safekeepers : ToSet(conn[k][p][s].queue) = {}
        /\ \A p \in Proposers, s \in Safekeepers :
             ToSet(toWp[p][s]) = {} /\ sks[p][s].state = "OFFLINE"
        /\ \A p \in Proposers : wp[p].state = "COLLECTING_TERMS"
        /\ won = {}
        /\ \A s \in Safekeepers : cf[s].hist = first /\ cf[s].term = 0
    BY SmallQueues DEF Init, SafekeeperInit, WalProposerInit, Closed, Offline, NewProposer
  <1>3. first \in Histories(Terms, Lsns) /\ Len(first) = 1 /\ first[1] = [term |-> 0, lsn |-> StartLsn]
    BY Ranges DEF Histories
  <1>4. WellFormed(first) /\ Agree(first, first)
    BY <1>3 DEF WellFormed, Agree
  <1>5. HighestTerm(first) = 0
    BY <1>3, <1>4, WellFormedFacts
  <1> HIDE DEF first
  <1>6. \A h : IsKnown(h) => h = first
    BY <1>2 DEF IsKnown
  <1>7. TermsWon(first)
    BY <1>3 DEF TermsWon
  <1>8. KnownAreSound /\ KnownAgree
    BY <1>4, <1>6, <1>7 DEF KnownAreSound, KnownAgree
  <1>9. CandidatesHaveTerms /\ WinnersHaveWon /\ MessagesAreWinners /\ VotesAreSound
    BY <1>2 DEF CandidatesHaveTerms, WinnersHaveWon, MessagesAreWinners, VotesAreSound
  <1>10. HistoriesWithinTerm
    BY <1>2, <1>5 DEF HistoriesWithinTerm
  <1> QED BY <1>1, <1>8, <1>9, <1>10 DEF HistoryInv

\* Every step keeps the invariant, ...
LEMMA HistoryNext ==
  ASSUME QuorumsIntersect, HistoryInv, [Next]_vars
  PROVE  HistoryInv' /\ Step /\ TypeOK /\ TypeOK'
PROOF
  <1>1. ElectionInv /\ TypeOK
    BY DEF HistoryInv, ElectionInv
  <1>2. ElectionInv' /\ TypeOK'
    BY <1>1, ElectionNext DEF ElectionInv
  <1>3. Step
    BY <1>1, StepCases DEF Step
  <1> QED BY <1>1, <1>2, <1>3, KnownStep, WinnersStep, FilesStep, WinnersMessagesStep, VotesStep
          DEF HistoryInv

\* The histories of any two safekeepers.
SafekeepersAgree == \A s, x \in Safekeepers : Agree(cf[s].hist, cf[x].hist)

\* ... so that whatever terms two control files have in common, and however they came
\* to have them, they have the same entries up to there: the WAL of a term is one.
THEOREM HistoriesAgree == QuorumsIntersect => (Spec => []SafekeepersAgree)
PROOF
  <1> SUFFICES ASSUME QuorumsIntersect PROVE Spec => []SafekeepersAgree
    OBVIOUS
  <1>1. Init => HistoryInv
    BY HistoryInit
  <1>2. HistoryInv /\ [Next]_vars => HistoryInv'
    BY HistoryNext
  <1>3. HistoryInv => SafekeepersAgree
    BY DEF HistoryInv, KnownAgree, IsKnown, SafekeepersAgree
  <1> QED BY <1>1, <1>2, <1>3, PTL DEF Spec

=============================================================================
