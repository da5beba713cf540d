---------------------------- MODULE CommitProofs ----------------------------
(***************************************************************************)
(* What is committed stays committed.  WAL below an LSN that a quorum has  *)
(* acknowledged is in every history that is or will be known with a term   *)
(* not below that of the walproposer which committed it, and on the disks  *)
(* of that quorum: every later winner gets a vote from one that has it.    *)
(*                                                                         *)
(* The acknowledgements come one by one, and another walproposer may win   *)
(* in between.  So the argument is made for every LSN that an elected      *)
(* walproposer may still commit: each member of some quorum has            *)
(* acknowledged it, or has not entered a higher term yet.                  *)
(*                                                                         *)
(* From there: the commit_lsn of safekeepers, whoever told them; the       *)
(* refinement of WalService; and the horizons below which WAL is deleted.  *)
(***************************************************************************)
EXTENDS WalProofs

-----------------------------------------------------------------------------
(* Histories that have the WAL of another one *)

\* h begins with the entries of g; those it adds begin at c or later.
Covers(h, g, c) ==
  /\ Len(g) <= Len(h) /\ \A i \in 1..Len(g) : h[i] = g[i]
  /\ Len(g) < Len(h) => h[Len(g) + 1].lsn >= c

\* The two describe the same WAL below c.
LEMMA CoversTerms ==
  ASSUME NEW g, WellFormed(g), NEW h, WellFormed(h), NEW c \in Int, Covers(h, g, c),
         NEW l \in Int, l < c
  PROVE  TermAt(h, l) = TermAt(g, l)
<1>1. /\ g \in Seq(TermSwitches) /\ h \in Seq(TermSwitches) /\ Len(g) \in Nat /\ Len(h) \in Nat
      /\ Len(g) >= 1
  BY WellFormedFacts
<1>2. Len(g) \in 1..Len(h) /\ Len(g) \in 0..Len(h) /\ Len(g) \in 0..Len(g)
  BY <1>1 DEF Covers
<1>3. SubSeq(h, 1, Len(g)) = SubSeq(g, 1, Len(g))
  BY <1>1, <1>2, SameCut DEF Covers
<1>4. SubSeq(g, 1, Len(g)) = g
  BY <1>1, <1>2, CutFacts
<1>5. Len(g) = Len(h) \/ h[Len(g) + 1].lsn > l
  <2>1. CASE Len(g) = Len(h) BY <2>1
  <2>2. CASE Len(g) < Len(h)
    <3>1. Len(g) + 1 \in 1..Len(h) BY <1>1, <2>2
    <3>2. h[Len(g) + 1].lsn \in Int BY <3>1, WellFormedFacts
    <3> QED BY <2>2, <3>2 DEF Covers
  <2> QED BY <1>1, <1>2, <2>1, <2>2
<1> QED BY <1>2, <1>3, <1>4, <1>5, TermAtOfCut

\* handle_elected does not cut WAL that both histories have.
LEMMA CommonWalNotCut ==
  ASSUME NEW p, WellFormed(p), NEW q, WellFormed(q), Agree(p, q), NEW g, WellFormed(g),
         NEW c \in Int, Covers(p, g, c), Covers(q, g, c), NEW f \in Lsns,
         NEW e \in Int, e <= c, e <= f
  PROVE  ExpectedTruncation(p, UpTo(q, f), f) >= e
<1> DEFINE x == ExpectedTruncation(p, UpTo(q, f), f)
<1>1. x \in Lsns /\ x <= f /\ x \in Int /\ f \in Int
  BY TruncationFacts, Ranges
<1>2. PICK k \in 1..Len(p) :
        /\ k <= Len(q)
        /\ k < Len(p) /\ k < Len(q) => x <= q[k + 1].lsn
        /\ \/ x = f
           \/ k < Len(p) /\ x = p[k + 1].lsn
           \/ k < Len(q) /\ x = q[k + 1].lsn
        /\ k = Len(q) \/ q[k + 1].lsn > f \/ k = Len(p) \/ p[k + 1].term # q[k + 1].term
  BY TruncationFacts
<1> HIDE DEF x
<1>3. Len(p) \in Nat /\ Len(q) \in Nat /\ Len(g) \in Nat /\ Len(g) <= Len(p) /\ Len(g) <= Len(q)
  BY WellFormedFacts DEF Covers
<1>4. CASE k < Len(g)
  <2>1. k + 1 \in 1..Len(g) /\ k + 1 \in 1..Len(q) BY <1>3, <1>4
  <2>2. p[k + 1] = q[k + 1] BY <2>1 DEF Covers
  <2>3. q[k + 1].lsn \in Int BY <2>1, WellFormedFacts
  <2>4. q[k + 1].lsn > f BY <1>2, <1>3, <1>4, <2>2
  <2>5. x = f BY <1>1, <1>2, <2>2, <2>3, <2>4
  <2> QED BY <1>1, <2>5 DEF x
<1>5. CASE k >= Len(g)
  <2>1. ASSUME NEW h, WellFormed(h), Covers(h, g, c), k < Len(h)
        PROVE  h[k + 1].lsn \in Int /\ h[k + 1].lsn >= c
    <3>1. /\ Len(h) \in Nat /\ Len(g) + 1 \in 1..Len(h) /\ k + 1 \in 1..Len(h)
          /\ Len(g) + 1 <= k + 1 /\ Len(g) < Len(h)
      BY <1>3, <1>5, <2>1, WellFormedFacts
    <3>2. h[k + 1].lsn \in Int /\ h[Len(g) + 1].lsn \in Int BY <3>1, <2>1, WellFormedFacts
    <3>3. h[Len(g) + 1].lsn <= h[k + 1].lsn
      <4>1. CASE k = Len(g) BY <3>2, <4>1
      <4>2. CASE Len(g) + 1 < k + 1 BY <3>1, <2>1, <4>2, WellFormedFacts
      <4> QED BY <1>3, <1>5, <4>1, <4>2
    <3> QED BY <2>1, <3>1, <3>2, <3>3, SMTT(60) DEF Covers
  <2>2. x = f \/ x >= c BY <1>2, <2>1
  <2> QED BY <1>1, <2>2 DEF x
<1> QED BY <1>3, <1>4, <1>5

\* The longer history has the higher term.
LEMMA CoversTermOrder ==
  ASSUME NEW g, WellFormed(g), NEW h, WellFormed(h), NEW c, Covers(h, g, c)
  PROVE  /\ h[Len(g)].term = HighestTerm(g) /\ Len(g) \in 1..Len(h)
         /\ \A k \in 1..Len(h) : h[k].term >= HighestTerm(g) => k >= Len(g)
         /\ Len(h) # Len(g) => HighestTerm(h) > HighestTerm(g)
<1>1. Len(g) \in Nat /\ Len(h) \in Nat /\ Len(g) >= 1 /\ Len(h) >= 1 BY WellFormedFacts
<1>2. Len(g) \in 1..Len(h) /\ Len(g) \in 1..Len(g) /\ Len(h) \in 1..Len(h) BY <1>1 DEF Covers
<1>3. h[Len(g)].term = HighestTerm(g) BY <1>2, WellFormedFacts DEF Covers
<1>4. ASSUME NEW k \in 1..Len(h), h[k].term >= HighestTerm(g)
      PROVE  k >= Len(g)
  <2>1. k < Len(g) => h[k].term < h[Len(g)].term BY <1>2, WellFormedFacts
  <2>2. h[k].term \in Int /\ h[Len(g)].term \in Int BY <1>2, WellFormedFacts
  <2> QED BY <1>1, <1>3, <1>4, <2>1, <2>2
<1>5. ASSUME Len(h) # Len(g)
      PROVE  HighestTerm(h) > HighestTerm(g)
  <2>1. Len(g) < Len(h) BY <1>1, <1>2, <1>5
  <2>2. h[Len(g)].term < h[Len(h)].term BY <1>2, <2>1, WellFormedFacts
  <2>3. HighestTerm(h) = h[Len(h)].term BY WellFormedFacts
  <2> QED BY <1>2, <1>3, <2>2, <2>3, WellFormedFacts
<1> QED BY <1>2, <1>3, <1>4, <1>5

\* A part of such a history, if its term is high enough.
LEMMA CoversPart ==
  ASSUME NEW g, WellFormed(g), NEW h, WellFormed(h), NEW c, Covers(h, g, c),
         NEW x, PartOf(x, h), HighestTerm(x) >= HighestTerm(g)
  PROVE  Covers(x, g, c)
<1>1. PICK k \in 1..Len(h) : x = SubSeq(h, 1, k) BY DEF PartOf
<1>2. h \in Seq(TermSwitches) /\ Len(h) \in Nat /\ Len(g) \in Nat /\ k \in 0..Len(h)
  BY WellFormedFacts
<1>3. Len(x) = k /\ \A i \in 1..k : x[i] = h[i] BY <1>1, <1>2, CutFacts
<1>4. WellFormed(x) BY <1>1, WellFormedCut
<1>5. HighestTerm(x) = h[k].term BY <1>3, <1>4, WellFormedFacts
<1>6. k >= Len(g) BY <1>5, CoversTermOrder
<1>7. k > Len(g) => Len(g) + 1 \in 1..k BY <1>2
<1> QED BY <1>2, <1>3, <1>6, <1>7 DEF Covers

\* The flushed part of such a history, if WAL is flushed as far as c.
LEMMA CoversFlushed ==
  ASSUME NEW g, WellFormed(g), NEW h, WellFormed(h), NEW c \in Int, Covers(h, g, c),
         Last(g).lsn <= c, NEW f \in Int, StartLsn <= f, f >= c
  PROVE  HighestTerm(UpTo(h, f)) >= HighestTerm(g)
<1>1. PICK k \in 1..Len(h) : /\ UpTo(h, f) = SubSeq(h, 1, k)
                             /\ k < Len(h) => h[k + 1].lsn > f
  BY FlushedPart
<1>2. /\ h \in Seq(TermSwitches) /\ Len(h) \in Nat /\ Len(g) \in Nat /\ k \in 0..Len(h)
      /\ Len(g) \in 1..Len(h) /\ Len(g) \in 1..Len(g) /\ h[Len(g)].term = HighestTerm(g)
  BY WellFormedFacts, CoversTermOrder
<1>3. WellFormed(SubSeq(h, 1, k)) /\ Len(SubSeq(h, 1, k)) = k /\ SubSeq(h, 1, k)[k] = h[k]
  BY <1>2, WellFormedCut, CutFacts
<1>4. HighestTerm(UpTo(h, f)) = h[k].term BY <1>1, <1>3, WellFormedFacts
<1>5. k >= Len(g)
  <2> SUFFICES ASSUME k < Len(g) PROVE FALSE BY <1>2
  <2>1. k + 1 \in 1..Len(g) /\ k < Len(h) BY <1>2
  <2>2. g[k + 1].lsn > f BY <1>1, <2>1 DEF Covers
  <2>3. g[k + 1].lsn \in Int /\ Last(g).lsn \in Int /\ Last(g) = g[Len(g)] BY <1>2, <2>1, WellFormedFacts
  <2>4. g[k + 1].lsn <= Last(g).lsn
    <3>1. CASE k + 1 = Len(g) BY <2>3, <3>1
    <3>2. CASE k + 1 < Len(g) BY <1>2, <2>1, <2>3, <3>2, WellFormedFacts
    <3> QED BY <1>2, <2>1, <3>1, <3>2
  <2> QED BY <2>2, <2>3, <2>4
<1>6. h[k].term >= h[Len(g)].term
  <2>1. h[k].term \in Int BY WellFormedFacts
  <2>2. CASE k = Len(g) BY <2>1, <2>2
  <2>3. CASE Len(g) < k
    <3>1. h[Len(g)].term < h[k].term BY <1>2, <2>3, WellFormedFacts
    <3> QED BY <1>2, <2>1, <3>1, WellFormedFacts
  <2> QED BY <1>2, <1>5, <2>2, <2>3
<1> QED BY <1>2, <1>4, <1>6
-----------------------------------------------------------------------------
(* WAL that outlasts its walproposer *)

\* Every history that is known with a term not below that of g has its WAL below c.
Shared(g, c) == \A h : IsKnown(h) /\ HighestTerm(h) >= HighestTerm(g) => Covers(h, g, c)

\* s has WAL up to f on its disk, and a history that is not older than g.
Holds(g, s, f) == flushLsn[s] >= f /\ HighestTerm(cf[s].hist) >= HighestTerm(g)

VoteHolds(g, c, vote) == vote.flush >= c /\ HighestTerm(vote.hist) >= HighestTerm(g)

\* So do the votes that s has given in higher terms say.
VotesHold(g, c, s) ==
  \A p \in Proposers :
    wp[p].term > HighestTerm(g) =>
      /\ sks[p][s].state = "WAIT_ELECTED" => VoteHolds(g, c, sks[p][s].vote)
      /\ \A m \in ToSet(toWp[p][s]) : Given(m) => VoteHolds(g, c, VoteOf(m))

Protects(g, c, s) == Holds(g, s, c) /\ VotesHold(g, c, s)

\* g is the history of a walproposer that has won, and whose own WAL begins by c.
Rooted(g, c) ==
  WellFormed(g) /\ Last(g).lsn <= c /\ (HighestTerm(g) = 0 \/ Won(HighestTerm(g)))

Outlasts(g, c) == Rooted(g, c) /\ Shared(g, c)

\* A history does not go away.
LEMMA RootedStays ==
  ASSUME Step, NEW g, NEW c, Rooted(g, c)
  PROVE  Rooted(g, c)'
<1>1. ASSUME NEW t, Won(t) PROVE Won(t)' BY <1>1, WonStays
<1> QED BY <1>1 DEF Rooted

\* A ProposerElected that s accepts does not cut what it has of g.
LEMMA AcceptedNotCut ==
  ASSUME HistoryInv, NEW g, NEW c \in Int, WellFormed(g), Shared(g, c),
         NEW s \in Safekeepers, NEW f \in Int, f <= c, Holds(g, s, f),
         NEW k \in Kinds, NEW p \in Proposers, NEW m \in ToSet(conn[k][p][s].queue),
         m.type = "ProposerElected", ElectedAccepted(s, m)
  PROVE  m.start >= f /\ HighestTerm(m.hist) >= HighestTerm(g)
<1>0. TypeOK /\ KnownAreSound /\ KnownAgree /\ MessagesAreWinners /\ HistoriesWithinTerm
  BY DEF HistoryInv, ElectionInv
<1>1. IsKnown(m.hist) /\ IsKnown(cf[s].hist)
  BY DEF IsKnown
<1>2. WellFormed(m.hist) /\ WellFormed(cf[s].hist) /\ Agree(m.hist, cf[s].hist)
  BY <1>0, <1>1 DEF KnownAreSound, KnownAgree
<1>3. /\ HighestTerm(m.hist) \in Int /\ HighestTerm(cf[s].hist) \in Int /\ HighestTerm(g) \in Int
      /\ cf[s].term \in Int /\ m.term \in Int
  BY <1>0, <1>2, HistoryTerm, TermTypes DEF MessagesAreWinners
<1>4. m.term = HighestTerm(m.hist) /\ cf[s].term <= m.term /\ HighestTerm(cf[s].hist) <= cf[s].term
  BY <1>0 DEF MessagesAreWinners, HistoriesWithinTerm, ElectedAccepted, ElectedExpected
<1>5. HighestTerm(cf[s].hist) >= HighestTerm(g) /\ flushLsn[s] >= f
  BY DEF Holds
<1>6. HighestTerm(m.hist) >= HighestTerm(g)
  BY <1>3, <1>4, <1>5
<1>7. Covers(m.hist, g, c) /\ Covers(cf[s].hist, g, c)
  BY <1>1, <1>5, <1>6 DEF Shared
<1>8. flushLsn[s] \in Lsns /\ flushLsn[s] \in Int
  BY <1>0, Parts, SafekeeperFacts, Ranges
<1>9. ExpectedTruncation(m.hist, UpTo(cf[s].hist, flushLsn[s]), flushLsn[s]) >= f
  BY <1>2, <1>5, <1>7, <1>8, CommonWalNotCut
<1> QED BY <1>6, <1>9 DEF ElectedAccepted, ElectedExpected, TruncationPoint

\* So s goes on having it.
LEMMA HoldsOn ==
  ASSUME HistoryInv, TypeOK', Step, NEW g, NEW c \in Int, WellFormed(g), Shared(g, c),
         NEW s \in Safekeepers, NEW f \in Int, f <= c, Holds(g, s, f)
  PROVE  Holds(g, s, f)'
<1>0. TypeOK /\ Moves
  BY DEF HistoryInv, ElectionInv, Step, QuietMove, WinMove
<1>1. SafekeeperMove(s)
  BY <1>0 DEF Moves
<1>2. flushLsn[s] \in Int /\ WriteLsn(s) \in Int
  BY <1>0, Parts, SafekeeperNumbers
<1>3. flushLsn'[s] \in Int
  <2>1. flushLsn'[s] \in Lsns BY PartsNext DEF SafekeeperTypeOK
  <2> QED BY <2>1, Ranges
<1>4. HighestTerm(cf[s].hist) >= HighestTerm(g) /\ flushLsn[s] >= f
  BY DEF Holds
<1>5. CASE Keeps(s)
  BY <1>2, <1>3, <1>4, <1>5 DEF Keeps, Holds
<1>6. CASE Restarts(s)
  <2>1. PICK lsn \in flushLsn[s]..WriteLsn(s) : flushLsn'[s] = lsn
    BY <1>6 DEF Restarts
  <2>2. flushLsn'[s] >= f BY <1>2, <1>4, <2>1
  <2> QED BY <1>4, <1>6, <2>2 DEF Restarts, Holds
<1>7. ASSUME NEW m, Appends(s, m) PROVE Holds(g, s, f)'
  BY <1>2, <1>3, <1>4, <1>7 DEF Appends, Holds
<1>8. ASSUME NEW k \in Kinds, NEW p \in Proposers, FirstMessage(k, p, s, "ProposerElected"),
             Adopts(s, Message(k, p, s)) \/ RestartsIn(s, Message(k, p, s))
      PROVE  Holds(g, s, f)'
  <2> DEFINE m == Message(k, p, s)
  <2>1. m \in ToSet(conn[k][p][s].queue) /\ m.type = "ProposerElected" /\ m \in ToSafekeeper
    BY <1>0, <1>8, MessageCame
  <2> HIDE DEF m
  <2>2. ElectedAccepted(s, m)
    BY <1>8 DEF m, Adopts, RestartsIn
  <2>3. m.start >= f /\ HighestTerm(m.hist) >= HighestTerm(g)
    BY <2>1, <2>2, AcceptedNotCut
  <2>4. m.start \in Int
    <3>1. m.start \in Lsns BY <2>1, MessageFacts
    <3> QED BY <3>1, Ranges
  <2>5. CASE Adopts(s, m)
    BY <2>3, <2>5 DEF Adopts, Holds
  <2>6. CASE RestartsIn(s, m)
    <3>1. PICK lsn \in m.start..WriteLsn(s) : flushLsn'[s] = lsn
      BY <2>6 DEF RestartsIn
    <3>2. flushLsn'[s] >= f BY <1>2, <2>3, <2>4, <3>1
    <3> QED BY <1>4, <2>6, <3>2 DEF RestartsIn, Holds
  <2> QED BY <1>8, <2>5, <2>6 DEF m
<1> QED BY <1>1, <1>5, <1>6, <1>7, <1>8 DEF SafekeeperMove

\* A vote that s gives says so.
LEMMA NewVoteHolds ==
  ASSUME HistoryInv, TypeOK', Step, NEW g, NEW c \in Int, Outlasts(g, c),
         NEW s \in Safekeepers, Holds(g, s, c), NEW p \in Proposers,
         NEW m \in ToSet(toWp'[p][s]), m.type = "Vote", m \notin ToSet(toWp[p][s])
  PROVE  VoteHolds(g, c, VoteOf(m))
<1>0. TypeOK /\ Moves /\ KnownAreSound
  BY DEF HistoryInv, ElectionInv, Step, QuietMove, WinMove
<1>1. m.hist = UpTo(cf[s].hist, m.flush) /\ m.flush = WriteLsn(s)
  BY <1>0, VoteCame
<1>2. IsKnown(cf[s].hist) BY DEF IsKnown
<1>3. WellFormed(cf[s].hist) /\ WellFormed(g) /\ Last(g).lsn <= c /\ Covers(cf[s].hist, g, c)
  BY <1>0, <1>2 DEF KnownAreSound, Outlasts, Rooted, Shared, Holds
<1>4. WriteLsn(s) \in Lsns /\ flushLsn[s] \in Lsns /\ flushLsn[s] <= WriteLsn(s)
  BY <1>0, Parts, SafekeeperFacts
<1>5. m.flush \in Int /\ StartLsn <= m.flush /\ flushLsn[s] \in Int
  BY <1>1, <1>4, LsnRange
<1>6. m.flush >= c
  BY <1>1, <1>4, <1>5 DEF Holds
<1>7. HighestTerm(m.hist) >= HighestTerm(g)
  BY <1>1, <1>3, <1>5, <1>6, CoversFlushed
<1> QED BY <1>6, <1>7 DEF VoteHolds, VoteOf

\* The votes of s go on saying so.
LEMMA VotesHoldOn ==
  ASSUME HistoryInv, TypeOK', Step, NEW g, NEW c \in Int, Outlasts(g, c),
         NEW s \in Safekeepers, Protects(g, c, s)
  PROVE  VotesHold(g, c, s)'
<1>0. TypeOK /\ Moves /\ VotesAreSound /\ VotesHold(g, c, s) /\ Holds(g, s, c)
  BY DEF HistoryInv, ElectionInv, Step, QuietMove, WinMove, Protects
<1> SUFFICES ASSUME NEW p \in Proposers, wp'[p].term > HighestTerm(g)
             PROVE  /\ sks'[p][s].state = "WAIT_ELECTED" => VoteHolds(g, c, sks'[p][s].vote)
                    /\ \A m \in ToSet(toWp'[p][s]) : Given(m) => VoteHolds(g, c, VoteOf(m))
  BY DEF VotesHold, VoteHolds
<1>1. ASSUME sks'[p][s].state = "WAIT_ELECTED"
      PROVE  VoteHolds(g, c, sks'[p][s].vote)
  <2>1. CASE /\ sks[p][s].state = "WAIT_ELECTED" /\ sks'[p][s].vote = sks[p][s].vote
             /\ wp'[p].term = wp[p].term
    BY <1>0, <2>1 DEF VotesHold
  <2>2. CASE /\ wp'[p].term = wp[p].term
             /\ \E m \in ToSet(toWp[p][s]) : Given(m) /\ sks'[p][s].vote = VoteOf(m)
    BY <1>0, <2>2 DEF VotesHold
  <2> QED BY <1>0, <1>1, <2>1, <2>2, CountedCame
<1>2. ASSUME NEW m \in ToSet(toWp'[p][s]), Given(m)
      PROVE  VoteHolds(g, c, VoteOf(m))
  <2>1. CASE m \in ToSet(toWp[p][s])
    <3>1. Campaigning(wp[p])
      BY <1>0, <1>2, <2>1 DEF VotesAreSound, VoteIsSound, Given
    <3>2. wp'[p].term = wp[p].term
      BY <1>0, <3>1, CampaignersMove
    <3> QED BY <1>0, <1>2, <2>1, <3>2 DEF VotesHold
  <2>2. CASE m \notin ToSet(toWp[p][s])
    BY <1>0, <1>2, <2>2, NewVoteHolds DEF Given
  <2> QED BY <2>1, <2>2
<1> QED BY <1>1, <1>2

\* Who is elected in a higher term has a vote from one that has the WAL of g.
Elects(A, g) ==
  \A p \in Proposers, s, d \in Safekeepers :
    Wins(p, s, d) /\ wp[p].term > HighestTerm(g) => Voters(p, s) \cap A # {}

\* Then its history has that WAL.
LEMMA WinnerContains ==
  ASSUME HistoryInv, ElectionInv', NEW g, NEW c \in Int, Outlasts(g, c),
         NEW p \in Proposers, NEW s \in Safekeepers, NEW d \in Safekeepers, Wins(p, s, d),
         wp[p].term > HighestTerm(g), NEW x \in Voters(p, s), VotesHold(g, c, x),
         NEW n, n = wp'[p].hist
  PROVE  Covers(n, g, c)
<1>0. TypeOK /\ KnownAreSound
  BY DEF HistoryInv, ElectionInv
<1> DEFINE v == VoteWith(p, s, Answer(p, s), d)
           u == VoteWith(p, s, Answer(p, s), x)
<1>1. /\ Len(n) = Len(v.hist) + 1 /\ n[Len(n)].lsn = v.flush
      /\ \A i \in 1..Len(v.hist) : n[i] = v.hist[i]
  <2>1. /\ Len(wp'[p].hist) = Len(v.hist) + 1
        /\ wp'[p].hist[Len(wp'[p].hist)] = [term |-> wp[p].term, lsn |-> v.flush]
        /\ \A i \in 1..Len(v.hist) : wp'[p].hist[i] = v.hist[i]
    BY WinnersHistory
  <2> HIDE DEF v
  <2> QED BY <2>1
<1>2. d \in Voters(p, s) /\ VoteAtLeast(v, u)
  BY DEF Wins
<1>3. IsKnown(v.hist) /\ v.flush \in Lsns /\ IsKnown(u.hist) /\ u.flush \in Lsns /\ x \in Safekeepers
  BY <1>2, DonorsVote
<1>4. VoteHolds(g, c, u)
  <2>1. CASE x = s
    <3>1. Answer(p, s) \in ToSet(toWp[p][s]) /\ Given(Answer(p, s))
      BY <1>0, Parts, AnswerCame DEF Wins
    <3> QED BY <2>1, <3>1 DEF VotesHold, VoteWith
  <2>2. CASE x # s
    <3>1. sks[p][x].state = "WAIT_ELECTED"
      BY <2>2 DEF Voters
    <3> QED BY <2>2, <3>1 DEF VotesHold, VoteWith
  <2> QED BY <2>1, <2>2
<1> HIDE DEF u, v
<1>5. WellFormed(v.hist) /\ WellFormed(u.hist) /\ WellFormed(g)
  BY <1>0, <1>3 DEF KnownAreSound, Outlasts, Rooted
<1>6. HighestTerm(v.hist) \in Int /\ HighestTerm(u.hist) \in Int /\ HighestTerm(g) \in Int
  BY <1>5, HistoryTerm
<1>7. HighestTerm(v.hist) >= HighestTerm(g)
  BY <1>2, <1>4, <1>6 DEF VoteAtLeast, VoteHolds
<1>8. Covers(v.hist, g, c)
  BY <1>3, <1>7 DEF Outlasts, Shared
<1>9. Len(v.hist) \in Nat /\ Len(g) \in Nat /\ Len(g) >= 1 /\ Len(g) <= Len(v.hist)
  BY <1>5, <1>8, WellFormedFacts DEF Covers
<1>10. CASE Len(v.hist) = Len(g)
  <2>1. HighestTerm(v.hist) = HighestTerm(g)
    <3>1. Len(g) \in 1..Len(g) BY <1>9
    <3>2. v.hist[Len(g)] = g[Len(g)] BY <1>8, <3>1 DEF Covers
    <3> QED BY <1>5, <1>10, <3>2, WellFormedFacts
  <2>2. v.flush >= u.flush /\ u.flush >= c
    BY <1>2, <1>4, <1>6, <2>1 DEF VoteAtLeast, VoteHolds
  <2>3. v.flush >= c
    BY <1>3, <2>2, Ranges
  <2> QED BY <1>1, <1>8, <1>9, <1>10, <2>3 DEF Covers
<1>11. CASE Len(v.hist) # Len(g)
  <2>1. Len(g) + 1 \in 1..Len(v.hist) /\ Len(g) < Len(v.hist) /\ Len(g) < Len(n)
    BY <1>1, <1>9, <1>11
  <2>2. n[Len(g) + 1] = v.hist[Len(g) + 1] BY <1>1, <2>1
  <2>3. \A i \in 1..Len(g) : n[i] = g[i] BY <1>1, <1>8, <1>9 DEF Covers
  <2> QED BY <1>8, <1>9, <2>1, <2>2, <2>3 DEF Covers
<1> QED BY <1>10, <1>11

\* Every history that becomes known has the WAL of g.
LEMMA SharedStep ==
  ASSUME HistoryInv, ElectionInv', Step, NEW g, NEW c \in Int, Outlasts(g, c),
         NEW A \in SUBSET Safekeepers, \A s \in A : Protects(g, c, s), Elects(A, g)
  PROVE  Outlasts(g, c)'
<1>0. TypeOK /\ TypeOK' /\ KnownAreSound /\ Rooted(g, c) /\ Rooted(g, c)' /\ WellFormed(g)
  BY RootedStays DEF HistoryInv, ElectionInv, Outlasts, Rooted
<1> SUFFICES ASSUME NEW h, IsKnown(h)', HighestTerm(h) >= HighestTerm(g)
             PROVE  Covers(h, g, c)
  BY <1>0 DEF Outlasts, Shared
<1>1. CASE \E y : IsKnown(y) /\ PartOf(h, y)
  <2>1. PICK y : IsKnown(y) /\ PartOf(h, y) BY <1>1
  <2>2. WellFormed(y) BY <1>0, <2>1 DEF KnownAreSound
  <2>3. PICK k \in 1..Len(y) : h = SubSeq(y, 1, k) BY <2>1 DEF PartOf
  <2>4. WellFormed(h) /\ HighestTerm(h) <= HighestTerm(y)
    <3>1. WellFormed(h) BY <2>2, <2>3, WellFormedCut
    <3>2. y \in Seq(TermSwitches) /\ k \in 0..Len(y) /\ k \in 1..k BY <2>2, WellFormedFacts
    <3>3. Len(h) = k /\ h[k] = y[k] BY <2>3, <3>2, CutFacts
    <3>4. HighestTerm(h) = y[k].term BY <3>1, <3>3, WellFormedFacts
    <3>5. y[k].term <= HighestTerm(y) BY <2>2, WellFormedFacts
    <3> QED BY <3>1, <3>4, <3>5
  <2>5. HighestTerm(y) >= HighestTerm(g)
    <3>1. HighestTerm(y) \in Int /\ HighestTerm(h) \in Int /\ HighestTerm(g) \in Int
      BY <1>0, <2>2, <2>4, HistoryTerm
    <3> QED BY <2>4, <3>1
  <2>6. Covers(y, g, c) BY <2>1, <2>5 DEF Outlasts, Shared
  <2> QED BY <1>0, <2>1, <2>2, <2>6, CoversPart
<1>2. ASSUME NEW p \in Proposers, NEW s \in Safekeepers, NEW d \in Safekeepers,
             Wins(p, s, d), h = wp'[p].hist
      PROVE  Covers(h, g, c)
  <2>1. HighestTerm(h) = wp[p].term BY <1>2, WinnersHistory
  <2>2. wp[p].term \in Terms /\ wp[p].term # 0 /\ ~Won(wp[p].term) BY <1>2, FreshTerm
  <2>3. wp[p].term # HighestTerm(g) BY <1>0, <2>2 DEF Rooted
  <2>4. wp[p].term > HighestTerm(g)
    <3>1. wp[p].term \in Int /\ HighestTerm(g) \in Int BY <1>0, <2>2, HistoryTerm, TermsAreInts
    <3> QED BY <2>1, <2>3, <3>1
  <2>5. PICK x \in Voters(p, s) : x \in A BY <1>2, <2>4 DEF Elects
  <2>6. VotesHold(g, c, x) BY <2>5 DEF Protects
  <2> QED BY <1>2, <2>4, <2>5, <2>6, WinnerContains
<1> QED BY <1>0, <1>1, <1>2, KnownMoves

\* What outlasts its walproposer is protected by the same safekeepers after every step.
LEMMA ProtectedOn ==
  ASSUME HistoryInv, ElectionInv', Step, NEW g, NEW c \in Int, Outlasts(g, c),
         NEW s \in Safekeepers, Protects(g, c, s)
  PROVE  Protects(g, c, s)'
<1>1. TypeOK' /\ WellFormed(g) /\ Shared(g, c) /\ Holds(g, s, c)
  BY DEF ElectionInv, Outlasts, Rooted, Protects
<1>2. Holds(g, s, c)' BY <1>1, HoldsOn
<1>3. VotesHold(g, c, s)' BY <1>1, VotesHoldOn
<1> QED BY <1>2, <1>3 DEF Protects
-----------------------------------------------------------------------------
(* What an elected walproposer may still commit *)

\* An answer with an LSN is not from a term before that of its walproposer.
AcksOfTerm ==
  \A p \in Proposers, s \in Safekeepers : \A m \in ToSet(toWp[p][s]) :
    m.type = "AppendResponse" /\ m.flush # 0 => m.term >= wp[p].term

\* s has acknowledged c to p, in its term.
AckedAt(p, s, c) ==
  \/ sks[p][s].flush >= c
  \/ \E m \in ToSet(toWp[p][s]) :
       m.type = "AppendResponse" /\ m.term = wp[p].term /\ m.flush >= c

May(p, s, c) == cf[s].term <= wp[p].term \/ AckedAt(p, s, c)

MayCommit(p, c) ==
  /\ wp[p].start <= c
  /\ \E Q \in SUBSET Safekeepers : HasQuorum(wp[p].gen, Q) /\ \A s \in Q : May(p, s, c)

\* What p, with history g, may commit outlasts it; who has acknowledged it protects it,
\* and who has acknowledged less has that.
Prepared(p, g, c) ==
  /\ Outlasts(g, c)
  /\ \A s \in Safekeepers : AckedAt(p, s, c) => Protects(g, c, s)
  /\ \A s \in Safekeepers, f \in Lsns : f <= c /\ AckedAt(p, s, f) => Holds(g, s, f)

LeadersArePrepared ==
  \A p \in Proposers, c \in Lsns : \A g :
    wp[p].state = "ELECTED" /\ MayCommit(p, c) /\ g = wp[p].hist => Prepared(p, g, c)

\* An answer that comes, before it is read.
LEMMA AnswerMoves ==
  ASSUME AckInv, TypeOK', Step, NEW p \in Proposers, NEW s \in Safekeepers,
         NEW m \in ToSet(toWp'[p][s]), m.type = "AppendResponse", m.flush # 0
  PROVE  \/ m \in ToSet(toWp[p][s])
         \/ /\ m.flush = flushLsn'[s] /\ m.term = cf[s].term /\ cf'[s].term = cf[s].term
            /\ wp[p].state = "ELECTED" /\ wp[p].term \in Followed(s)
<1>0. Moves
  BY DEF Step, QuietMove, WinMove
<1>1. CASE m \in ToSet(toWp[p][s]) BY <1>1
<1>2. CASE /\ m.flush = flushLsn'[s] /\ m.term = cf'[s].term /\ cf'[s].term = cf[s].term
           /\ conn["live"][p][s].dirty \/ FirstMessage("live", p, s, "AppendRequest")
  BY <1>2, AppendsFollow
<1> QED BY <1>0, <1>1, <1>2 DEF Moves, AnswerMove, NewAnswer, NewVote, VoteReply

\* Answers with an LSN stay in term.
LEMMA AcksOfTermStep ==
  ASSUME AckInv, TypeOK', Step, AcksOfTerm
  PROVE  AcksOfTerm'
<1>0. TypeOK /\ AcksAreTrue
  BY DEF AckInv, HistoryInv, ElectionInv
<1> SUFFICES ASSUME NEW p \in Proposers, NEW s \in Safekeepers, NEW m \in ToSet(toWp'[p][s]),
                    m.type = "AppendResponse", m.flush # 0
             PROVE  m.term >= wp'[p].term
  BY DEF AcksOfTerm
<1>1. wp[p].state = "ELECTED"
  <2>1. CASE m \in ToSet(toWp[p][s]) BY <1>0, <2>1 DEF AcksAreTrue, Acked
  <2> QED BY <2>1, AnswerMoves
<1>2. wp'[p].term = wp[p].term
  BY <1>0, <1>1, CampaignersMove DEF Campaigning
<1>3. CASE m \in ToSet(toWp[p][s])
  BY <1>2, <1>3 DEF AcksOfTerm
<1>4. CASE m.term = cf[s].term /\ wp[p].term \in Followed(s)
  <2>1. cf[s].term > wp[p].term \/ HighestTerm(cf[s].hist) = wp[p].term
    BY <1>4 DEF Followed, Follows
  <2>2. HistoryInv BY DEF AckInv
  <2>3. HighestTerm(cf[s].hist) <= cf[s].term /\ HighestTerm(cf[s].hist) \in Int /\ cf[s].term \in Int
    BY <2>2, FileTermsNow
  <2>4. wp[p].term \in Int BY <1>0, TermTypes
  <2> QED BY <1>2, <1>4, <2>1, <2>3, <2>4
<1> QED BY <1>3, <1>4, AnswerMoves

\* A safekeeper that has just reported c to p is in its term and follows it.
LEMMA AckedCame ==
  ASSUME AckInv, TypeOK', Step, AcksOfTerm, NEW p \in Proposers, NEW s \in Safekeepers,
         NEW c \in Lsns, wp[p].state = "ELECTED", wp'[p].state = "ELECTED", AckedAt(p, s, c)'
  PROVE  \/ AckedAt(p, s, c)
         \/ /\ cf[s].term = wp[p].term /\ cf'[s].term = wp[p].term /\ flushLsn'[s] >= c
            /\ HighestTerm(cf'[s].hist) = wp[p].term
<1>0. TypeOK /\ HistoryInv
  BY DEF AckInv, HistoryInv, ElectionInv
<1>1. Leads(p) /\ SafekeeperRecordMove(p, s)
  BY <1>0, LeadersMove
<1>2. c \in Nat /\ c # 0 BY Ranges
<1>3. CASE sks'[p][s].flush >= c
  <2>1. CASE sks'[p][s].flush = sks[p][s].flush BY <1>3, <2>1 DEF AckedAt
  <2>2. ASSUME NEW m \in ToSet(toWp[p][s]), m.type = "AppendResponse", ~ResponseFatal(p, m),
               sks'[p][s].flush = m.flush
        PROVE  AckedAt(p, s, c)
    <3>1. m.flush >= c /\ m.flush # 0 BY <1>2, <1>3, <2>2
    <3>2. m \in ToProposer BY <1>0, AnsweringType
    <3>3. m.term \in Terms BY <3>2, AnswerFacts
    <3>4. m.term \in Int /\ wp[p].term \in Int BY <1>0, <3>3, TermsAreInts, TermTypes
    <3>5. m.term >= wp[p].term BY <2>2, <3>1 DEF AcksOfTerm
    <3>6. m.term = wp[p].term BY <2>2, <3>4, <3>5 DEF ResponseFatal
    <3> QED BY <2>2, <3>1, <3>6 DEF AckedAt
  <2> QED BY <1>1, <2>1, <2>2 DEF SafekeeperRecordMove
<1>4. ASSUME NEW m \in ToSet(toWp'[p][s]), m.type = "AppendResponse", m.term = wp'[p].term,
             m.flush >= c
      PROVE  \/ AckedAt(p, s, c)
             \/ /\ cf[s].term = wp[p].term /\ cf'[s].term = wp[p].term /\ flushLsn'[s] >= c
                /\ HighestTerm(cf'[s].hist) = wp[p].term
  <2>1. m.flush # 0 /\ m.term = wp[p].term BY <1>1, <1>2, <1>4 DEF Leads
  <2>2. CASE m \in ToSet(toWp[p][s]) BY <1>4, <2>1, <2>2 DEF AckedAt
  <2>3. CASE /\ m.flush = flushLsn'[s] /\ m.term = cf[s].term /\ cf'[s].term = cf[s].term
             /\ wp[p].term \in Followed(s)
    <3>1. cf[s].term = wp[p].term /\ cf'[s].term = wp[p].term /\ flushLsn'[s] >= c
      BY <1>4, <2>1, <2>3
    <3>2. cf[s].term \in Int BY <1>0, TermTypes
    <3>3. HighestTerm(cf[s].hist) = wp[p].term BY <2>3, <3>1, <3>2 DEF Followed, Follows
    <3>4. CASE cf'[s].hist = cf[s].hist BY <3>1, <3>3, <3>4
    <3>5. CASE cf'[s].hist # cf[s].hist BY <1>0, <3>1, <3>5, HistoryAdopted
    <3> QED BY <3>1, <3>4, <3>5
  <2> QED BY <1>4, <2>1, <2>2, <2>3, AnswerMoves
<1> QED BY <1>3, <1>4 DEF AckedAt

\* An elected walproposer that goes on.
LEMMA LeaderGoesOn ==
  ASSUME QuorumsIntersect, AckInv, ElectionInv', Step, AcksOfTerm, LeadersArePrepared,
         NEW p \in Proposers, NEW c \in Lsns, wp[p].state = "ELECTED", wp'[p].state = "ELECTED",
         MayCommit(p, c)', NEW g, g = wp[p].hist
  PROVE  Prepared(p, g, c)'
<1>0. /\ TypeOK /\ TypeOK' /\ HistoryInv /\ ElectionInv /\ VotesArePersisted /\ c \in Int
      /\ \A s \in Safekeepers : cf[s].term \in Int /\ cf'[s].term \in Int /\ cf'[s].term >= cf[s].term
  <2>1. TypeOK /\ TypeOK' /\ HistoryInv /\ ElectionInv /\ VotesArePersisted
    BY DEF AckInv, HistoryInv, ElectionInv
  <2> QED BY <2>1, FileTermsNow, Ranges
<1>1. /\ wp'[p].hist = g /\ wp'[p].term = wp[p].term /\ wp'[p].gen = wp[p].gen
      /\ wp'[p].start = wp[p].start
  BY <1>0, LeadersMove DEF Leads, Exits
<1>2. /\ wp[p].term \in Int /\ HighestTerm(g) = wp[p].term /\ wp[p].gen \in DOMAIN Conf
  <2>1. wp[p] \in ProposerRecords /\ ProposerPhase(wp[p])
    BY <1>0, Parts DEF WalProposerOK, WalProposerTypeOK, WalProposerPhases
  <2> QED BY <1>0, <2>1, TermTypes, ProposerFacts DEF ProposerPhase, HighestTerm
<1>3. PICK Q \in SUBSET Safekeepers : HasQuorum(wp[p].gen, Q) /\ \A s \in Q : May(p, s, c)'
  BY <1>1 DEF MayCommit
<1>4. ASSUME NEW s \in Safekeepers, NEW f \in Lsns, AckedAt(p, s, f)'
      PROVE  \/ AckedAt(p, s, f)
             \/ /\ cf[s].term = wp[p].term /\ cf'[s].term = wp[p].term /\ flushLsn'[s] >= f
                /\ HighestTerm(cf'[s].hist) = wp[p].term
  BY <1>0, <1>4, AckedCame
<1>5. MayCommit(p, c)
  <2>1. ASSUME NEW s \in Q PROVE May(p, s, c)
    <3>1. CASE cf'[s].term <= wp'[p].term
      BY <1>0, <1>1, <1>2, <3>1 DEF May
    <3>2. CASE AckedAt(p, s, c)'
      BY <1>2, <1>4, <3>2 DEF May
    <3> QED BY <1>3, <3>1, <3>2 DEF May
  <2> QED BY <1>1, <1>3, <2>1 DEF MayCommit
<1>6. Prepared(p, g, c)
  BY <1>5 DEF LeadersArePrepared
<1> DEFINE A == {s \in Safekeepers : AckedAt(p, s, c)}
<1>7. Elects(A, g)
  <2> SUFFICES ASSUME NEW q \in Proposers, NEW s \in Safekeepers, NEW d \in Safekeepers,
                      Wins(q, s, d), wp[q].term > HighestTerm(g)
               PROVE  Voters(q, s) \cap A # {}
    BY DEF Elects
  <2>1. /\ HasQuorum(wp[q].gen, Voters(q, s)) /\ wp[q].gen \in DOMAIN Conf
        /\ Voters(q, s) \in SUBSET Safekeepers
    <3>1. wp[q] \in ProposerRecords /\ ProposerPhase(wp[q])
      BY <1>0, Parts DEF WalProposerOK, WalProposerTypeOK, WalProposerPhases
    <3>2. wp[q].gen \in DOMAIN Conf /\ HasQuorum(wp[q].gen, Voters(q, s))
      BY <3>1, ProposerFacts DEF ProposerPhase, Wins
    <3>3. \A y \in Voters(q, s) : y \in Safekeepers BY <1>0, DonorsVote
    <3> QED BY <3>2, <3>3
  <2>2. PICK x \in Voters(q, s) : x \in Q
    BY <1>2, <1>3, <2>1 DEF QuorumsIntersect
  <2>3. HasVote(q, x) /\ x \in Safekeepers BY <1>0, DonorsVote
  <2>4. cf[x].term > wp[p].term
    <3>1. wp[q].term <= cf[x].term BY <1>0, <2>3 DEF VotesArePersisted
    <3>2. wp[q].term \in Int BY <1>0, TermTypes
    <3> QED BY <1>0, <1>2, <2>3, <3>1, <3>2
  <2>5. AckedAt(p, x, c)'
    <3>1. ~(cf'[x].term <= wp'[p].term) BY <1>0, <1>1, <1>2, <2>3, <2>4
    <3> QED BY <1>3, <2>2, <3>1 DEF May
  <2>6. AckedAt(p, x, c) BY <1>0, <1>2, <1>4, <2>3, <2>4, <2>5
  <2> QED BY <2>2, <2>3, <2>6
<1>8. Outlasts(g, c)'
  <2>1. \A s \in A : Protects(g, c, s) BY <1>6 DEF Prepared
  <2>2. A \in SUBSET Safekeepers OBVIOUS
  <2> HIDE DEF A
  <2> QED BY <1>0, <1>6, <1>7, <2>1, <2>2, SharedStep DEF Prepared
<1>9. WellFormed(g) /\ Shared(g, c) /\ Outlasts(g, c)
  BY <1>6 DEF Prepared, Outlasts, Rooted
<1>10. ASSUME NEW s \in Safekeepers, NEW f \in Lsns, f <= c, AckedAt(p, s, f)'
       PROVE  Holds(g, s, f)'
  <2>1. CASE AckedAt(p, s, f)
    <3>1. Holds(g, s, f) BY <1>6, <1>10, <2>1 DEF Prepared
    <3>2. f \in Int BY Ranges
    <3> QED BY <1>0, <1>9, <1>10, <3>1, <3>2, HoldsOn
  <2>2. CASE flushLsn'[s] >= f /\ HighestTerm(cf'[s].hist) = wp[p].term
    BY <1>2, <2>2 DEF Holds
  <2> QED BY <1>4, <1>10, <2>1, <2>2
<1>11. ASSUME NEW s \in Safekeepers, AckedAt(p, s, c)'
       PROVE  Protects(g, c, s)'
  <2>1. CASE AckedAt(p, s, c)
    <3>1. Protects(g, c, s) BY <1>6, <2>1 DEF Prepared
    <3> QED BY <1>0, <1>9, <3>1, ProtectedOn
  <2>2. CASE cf'[s].term = wp[p].term /\ flushLsn'[s] >= c /\ HighestTerm(cf'[s].hist) = wp[p].term
    <3>1. Holds(g, s, c)' BY <1>2, <2>2 DEF Holds
    <3>2. VotesHold(g, c, s)'
      <4>1. cf'[s].term <= HighestTerm(g) BY <1>2, <2>2
      <4>2. \A q \in Proposers : wp'[q].term > HighestTerm(g) => ~HasVote(q, s)'
        <5> SUFFICES ASSUME NEW q \in Proposers, wp'[q].term > HighestTerm(g) PROVE ~HasVote(q, s)'
          OBVIOUS
        <5>1. VotesArePersisted' BY DEF ElectionInv
        <5>2. wp'[q].term \in Int
          <6>1. wp'[q] \in ProposerRecords BY <1>0, PartsNext DEF WalProposerOK, WalProposerTypeOK
          <6> QED BY <6>1, ProposerFacts, TermsAreInts
        <5> QED BY <1>0, <1>2, <4>1, <5>1, <5>2 DEF VotesArePersisted
      <4> QED BY <4>2 DEF VotesHold, HasVote
    <3> QED BY <3>1, <3>2 DEF Protects
  <2> QED BY <1>4, <1>11, <2>1, <2>2
<1> QED BY <1>8, <1>10, <1>11 DEF Prepared

\* A walproposer that has just won has no acknowledgements, ...
LEMMA NothingAcked ==
  ASSUME AckInv, TypeOK', Step, NEW p \in Proposers, NEW s \in Safekeepers,
         NEW d \in Safekeepers, Wins(p, s, d), NEW x \in Safekeepers, NEW c \in Lsns
  PROVE  ~AckedAt(p, x, c)'
<1>0. TypeOK /\ AcksAreTrue
  BY DEF AckInv, HistoryInv, ElectionInv
<1>1. wp[p].state = "CAMPAIGN" BY DEF Wins
<1>2. c \in Nat /\ c # 0 BY Ranges
<1>3. sks[p][x].flush = 0 BY <1>0, <1>1 DEF AcksAreTrue, Acked
<1>4. sks'[p][x].flush = sks[p][x].flush
  <2>1. sks[p][x] \in SafekeeperRecords BY <1>0, Parts, OneRecord
  <2> QED BY <2>1 DEF Wins, Streaming, SafekeeperRecords
<1>5. ASSUME NEW m \in ToSet(toWp'[p][x]), m.type = "AppendResponse" PROVE m.flush = 0
  <2>1. CASE m \in ToSet(toWp[p][x]) BY <1>0, <1>1, <1>5, <2>1 DEF AcksAreTrue, Acked
  <2> QED BY <1>1, <1>5, <2>1, AnswerMoves
<1> QED BY <1>2, <1>3, <1>4, <1>5 DEF AckedAt

\* ... and if it may commit anything, no higher term has been won.
LEMMA LeaderWins ==
  ASSUME QuorumsIntersect, AckInv, ElectionInv', Step,
         NEW p \in Proposers, NEW s \in Safekeepers, NEW d \in Safekeepers, Wins(p, s, d),
         NEW c \in Lsns, MayCommit(p, c)', NEW g, g = wp'[p].hist
  PROVE  Prepared(p, g, c)'
<1>0. /\ TypeOK /\ TypeOK' /\ HistoryInv /\ KnownAreSound /\ WonByQuorum /\ won \subseteq won'
  BY WonStays DEF AckInv, HistoryInv, ElectionInv
<1>1. \A x \in Safekeepers, f \in Lsns : ~AckedAt(p, x, f)'
  BY <1>0, NothingAcked
<1>2. /\ WellFormed(g) /\ HighestTerm(g) = wp[p].term
      /\ g[Len(g)].lsn = wp'[p].start
  <2> DEFINE v == VoteWith(p, s, Answer(p, s), d)
  <2>1. WellFormed(wp'[p].hist) /\ HighestTerm(wp'[p].hist) = wp[p].term
    BY <1>0, WinnersHistory
  <2>2. wp'[p].hist[Len(wp'[p].hist)] = [term |-> wp[p].term, lsn |-> v.flush]
    BY <1>0, WinnersHistory
  <2>3. wp'[p].start = v.flush
    BY <1>0, WinnersTerm
  <2> HIDE DEF v
  <2> QED BY <2>1, <2>2, <2>3
<1>3. wp'[p].term = wp[p].term /\ wp[p].term \in Int /\ wp'[p].gen = wp[p].gen
      /\ wp'[p].gen \in DOMAIN Conf /\ wp'[p].start <= c
  <2>1. wp'[p].state = "ELECTED" /\ wp'[p].term = wp[p].term BY <1>0, WinnersTerm
  <2>2. wp[p] \in ProposerRecords /\ ProposerPhase(wp[p])
    BY <1>0, Parts DEF WalProposerOK, WalProposerTypeOK, WalProposerPhases
  <2>3. wp'[p].gen = wp[p].gen BY <2>2 DEF Wins, ElectedProposer, ProposerRecords
  <2>4. wp[p].gen \in DOMAIN Conf BY <2>2, ProposerFacts DEF ProposerPhase, Wins
  <2> QED BY <1>0, <2>1, <2>3, <2>4, TermTypes DEF MayCommit
<1>4. Rooted(g, c)'
  <2>1. Last(g).lsn <= c BY <1>2, <1>3, WellFormedFacts
  <2>2. ASSUME NEW t, t = wp[p].term PROVE Won(t)' BY <2>2 DEF Wins, Won
  <2> QED BY <1>2, <2>1, <2>2 DEF Rooted
<1>5. PICK Q \in SUBSET Safekeepers : HasQuorum(wp[p].gen, Q) /\ \A x \in Q : cf[x].term <= wp[p].term
  <2>1. PICK Q \in SUBSET Safekeepers : HasQuorum(wp'[p].gen, Q) /\ \A x \in Q : May(p, x, c)'
    BY DEF MayCommit
  <2>2. cf' = cf BY DEF Wins, skVars
  <2> QED BY <1>1, <1>3, <2>1, <2>2 DEF May
<1>6. ASSUME NEW t, Won(t) PROVE t <= wp[p].term
  <2>1. PICK q \in Proposers : <<q, t>> \in won BY <1>6 DEF Won
  <2>2. PICK h \in DOMAIN Conf, R \in SUBSET Safekeepers :
          HasQuorum(h, R) /\ \A x \in R : Decided(<<q, t>>, x)
    BY <1>0, <2>1 DEF WonByQuorum
  <2>3. PICK x \in Q : x \in R
    BY <1>3, <1>5, <2>2 DEF QuorumsIntersect
  <2>4. t <= cf[x].term /\ cf[x].term <= wp[p].term BY <1>5, <2>2, <2>3 DEF Decided
  <2>5. t \in Int /\ cf[x].term \in Int
    <3>1. <<q, t>>[2] = t OBVIOUS
    <3>2. x \in Safekeepers BY <2>3
    <3> QED BY <1>0, <2>1, <3>1, <3>2, TermTypes
  <2> QED BY <1>3, <2>4, <2>5
<1>7. Shared(g, c)'
  <2> SUFFICES ASSUME NEW h, IsKnown(h)', HighestTerm(h) >= HighestTerm(g)
               PROVE  Covers(h, g, c)
    BY DEF Shared
  <2>0. Covers(g, g, c)
    <3>1. Len(g) \in Nat BY <1>2, WellFormedFacts
    <3> QED BY <3>1 DEF Covers
  <2>1. ASSUME NEW y, IsKnown(y), NEW k \in 1..Len(y), h = SubSeq(y, 1, k)
        PROVE  FALSE
    <3>1. WellFormed(y) /\ TermsWon(y) BY <1>0, <2>1 DEF KnownAreSound
    <3>2. WellFormed(h) BY <2>1, <3>1, WellFormedCut
    <3>3. y \in Seq(TermSwitches) /\ k \in 0..Len(y) /\ k \in 1..k BY <3>1, WellFormedFacts
    <3>4. Len(h) = k /\ h[k] = y[k] BY <2>1, <3>3, CutFacts
    <3>5. HighestTerm(h) = y[k].term BY <3>2, <3>4, WellFormedFacts
    <3>6. y[k].term \in Int /\ y[k].term # wp[p].term /\ wp[p].term # 0 /\ wp[p].term \in Nat
      <4>1. wp[p].term \in Terms /\ wp[p].term # 0 /\ y[k].term # wp[p].term
        BY <1>0, <2>1, FreshTerm
      <4> QED BY <3>1, <4>1, WellFormedFacts, Ranges
    <3>7. y[k].term > wp[p].term BY <1>2, <1>3, <3>5, <3>6
    <3>8. Won(y[k].term)
      <4>1. y[k].term # 0 BY <3>6, <3>7
      <4> QED BY <3>1, <4>1 DEF TermsWon
    <3> QED BY <1>3, <1>6, <3>6, <3>7, <3>8
  <2>2. ASSUME NEW q \in Proposers, NEW y \in Safekeepers, NEW e \in Safekeepers,
               Wins(q, y, e), h = wp'[q].hist
        PROVE  Covers(h, g, c)
    <3>1. p = q BY <1>0, <2>2, OneWinner
    <3> QED BY <2>0, <2>2, <3>1
  <2> QED BY <1>0, <2>1, <2>2, KnownMoves DEF PartOf
<1> QED BY <1>1, <1>4, <1>7 DEF Prepared, Outlasts

\* Every step keeps walproposers prepared.
LEMMA LeadersStep ==
  ASSUME QuorumsIntersect, AckInv, ElectionInv', Step, AcksOfTerm, LeadersArePrepared
  PROVE  LeadersArePrepared'
<1>0. TypeOK BY DEF AckInv, HistoryInv, ElectionInv
<1> SUFFICES ASSUME NEW p \in Proposers, NEW c \in Lsns, NEW g,
                    wp'[p].state = "ELECTED", MayCommit(p, c)', g = wp'[p].hist
             PROVE  Prepared(p, g, c)'
  BY DEF LeadersArePrepared
<1>1. CASE wp[p].state = "ELECTED" /\ Leads(p)
  <2>1. g = wp[p].hist BY <1>1 DEF Leads
  <2> QED BY <1>1, <2>1, LeaderGoesOn
<1>2. CASE \E s, d \in Safekeepers : Wins(p, s, d)
  BY <1>2, LeaderWins
<1> QED BY <1>0, <1>1, <1>2, ElectedMoves

-----------------------------------------------------------------------------
(* Commits *)

\* What a quorum contains, a larger set contains.
LEMMA MoreHasQuorum ==
  ASSUME NEW gen \in DOMAIN Conf, NEW Q, NEW R, Q \subseteq R, HasQuorum(gen, Q)
  PROVE  HasQuorum(gen, R)
PROOF
  <1>1. ASSUME NEW M \in SUBSET Safekeepers, MsetHasQuorum(M, Q)
        PROVE  MsetHasQuorum(M, R)
    <2>1. M \cap Q \subseteq M \cap R /\ M \cap R \subseteq M
      OBVIOUS
    <2>2. IsFiniteSet(M) /\ IsFiniteSet(M \cap R)
      BY <2>1, SafekeepersAssumption, FS_Subset
    <2>3. IsFiniteSet(M \cap Q) /\ Cardinality(M \cap Q) <= Cardinality(M \cap R)
      BY <2>1, <2>2, FS_Subset
    <2>4. Cardinality(M) \in Nat /\ Cardinality(M \cap Q) \in Nat /\ Cardinality(M \cap R) \in Nat
      BY <2>2, <2>3, FS_CardinalityType
    <2> DEFINE n == (Cardinality(M) \div 2) + 1
    <2>5. n \in Int
      BY <2>4
    <2>6. Cardinality(M \cap Q) >= n
      BY <1>1 DEF MsetHasQuorum
    <2> HIDE DEF n
    <2>7. Cardinality(M \cap R) >= n
      BY <2>3, <2>4, <2>5, <2>6
    <2> QED BY <2>7 DEF MsetHasQuorum, n
  <1>2. Conf[gen].members \in SUBSET Safekeepers /\ Conf[gen].newMembers \in SUBSET Safekeepers
    BY ConfAssumption
  <1> QED BY <1>1, <1>2 DEF HasQuorum

\* GetCommittedMset: what it returns, a quorum of the set has flushed.
LEMMA CommittedMsetAcked ==
  ASSUME NEW p, wp[p].start \in Int, NEW members \in SUBSET Safekeepers, members # {},
         NEW flush \in [Safekeepers -> OptLsns], NEW c, c = CommittedMset(p, members, flush), c # 0
  PROVE  /\ c \in Lsns /\ wp[p].start <= c
         /\ MsetHasQuorum(members, {x \in members : flush[x] >= c})
PROOF
  <1> DEFINE acked(x) == IF flush[x] >= wp[p].start THEN flush[x] ELSE 0
             lsns == {0} \cup {acked(x) : x \in members}
             T == {l \in lsns : MsetHasQuorum(members, {x \in members : acked(x) >= l})}
  <1>1. \A x \in members : acked(x) \in OptLsns /\ acked(x) \in Nat /\ flush[x] \in Nat
    BY OptRanges
  <1>2. c \in OptLsns /\ c \in Lsns /\ c \in Nat
    BY CommittedMsetType, OptRanges
  <1>3. lsns \in SUBSET OptLsns
    BY <1>1, OptRanges
  <1>4. T \in SUBSET lsns
    BY Zenon
  <1>5. T \in SUBSET OptLsns
    BY <1>3, <1>4, Zenon
  <1>6. c = Max(T)
    BY DEF CommittedMset
  <1>7. T # {}
    <2>1. 0 \in lsns
      OBVIOUS
    <2>2. {x \in members : acked(x) >= 0} = members
      BY <1>1
    <2>3. IsFiniteSet(members) /\ Cardinality(members) \in Nat /\ Cardinality(members) # 0
      BY SafekeepersAssumption, FS_Subset, FS_CardinalityType, FS_EmptySet
    <2>4. \A n \in Nat : n # 0 => n >= (n \div 2) + 1
      OBVIOUS
    <2>5. members \cap members = members
      OBVIOUS
    <2>6. MsetHasQuorum(members, members)
      BY <2>3, <2>4, <2>5 DEF MsetHasQuorum
    <2>7. 0 \in T
      BY <2>1, <2>2, <2>6
    <2> QED BY <2>7
  <1>8. c \in T
    <2> HIDE DEF T
    <2>1. T \in SUBSET Nat /\ \A x \in T : x <= MaxLsn
      BY <1>5, OptBounds
    <2>2. IsFiniteSet(T) /\ T \subseteq Int
      BY <2>1, Ranges, FS_BoundedSetOfNaturals
    <2> QED BY <1>6, <1>7, <2>2, MaxProperties
  <1>9. PICK y \in members : c = acked(y)
    <2>1. c \in lsns
      BY <1>4, <1>8
    <2> QED BY <2>1
  <1>10. wp[p].start <= c
    BY <1>9
  <1>11. {x \in members : acked(x) >= c} = {x \in members : flush[x] >= c}
    BY <1>1, <1>2, <1>10
  <1>12. MsetHasQuorum(members, {x \in members : acked(x) >= c})
    BY <1>8
  <1> QED BY <1>2, <1>10, <1>11, <1>12

\* GetAcknowledgedByQuorumWALPosition: what it returns, a quorum of the generation has
\* flushed, in both member sets of a joint configuration.
LEMMA AcknowledgedByQuorumAcked ==
  ASSUME NEW p, wp[p].gen \in DOMAIN Conf, wp[p].start \in Int,
         NEW flush \in [Safekeepers -> OptLsns],
         NEW c, c = AcknowledgedByQuorum(p, flush), c # 0
  PROVE  /\ c \in Lsns /\ wp[p].start <= c
         /\ HasQuorum(wp[p].gen, {x \in Safekeepers : flush[x] >= c})
PROOF
  <1> DEFINE conf == Conf[wp[p].gen]
             a == CommittedMset(p, conf.members, flush)
             b == CommittedMset(p, conf.newMembers, flush)
             Q == {x \in Safekeepers : flush[x] >= c}
  <1>1. conf.members \in SUBSET Safekeepers /\ conf.members # {}
        /\ conf.newMembers \in SUBSET Safekeepers
    BY ConfAssumption
  <1>2. c \in OptLsns /\ c \in Lsns /\ c \in Nat /\ \A x \in Safekeepers : flush[x] \in Nat
    BY AcknowledgedByQuorumType, OptRanges
  <1>3. ASSUME NEW M \in SUBSET Safekeepers, M # {}, NEW d, d = CommittedMset(p, M, flush), d >= c
        PROVE  wp[p].start <= d /\ MsetHasQuorum(M, Q)
    <2>1. d \in OptLsns
      BY <1>3, CommittedMsetType
    <2>2. d \in Nat /\ d # 0
      BY <1>2, <1>3, <2>1, OptRanges
    <2>3. wp[p].start <= d /\ MsetHasQuorum(M, {x \in M : flush[x] >= d})
      BY <1>3, <2>2, CommittedMsetAcked
    <2> DEFINE D == {x \in M : flush[x] >= d}
    <2>4. M \cap D \subseteq M \cap Q /\ M \cap Q \subseteq M
      BY <1>2, <1>3, <2>2
    <2>5. IsFiniteSet(M) /\ IsFiniteSet(M \cap Q)
      BY <2>4, SafekeepersAssumption, FS_Subset
    <2>6. IsFiniteSet(M \cap D) /\ Cardinality(M \cap D) <= Cardinality(M \cap Q)
      BY <2>4, <2>5, FS_Subset
    <2>7. Cardinality(M) \in Nat /\ Cardinality(M \cap D) \in Nat /\ Cardinality(M \cap Q) \in Nat
      BY <2>5, <2>6, FS_CardinalityType
    <2> HIDE DEF D, Q
    <2> DEFINE n == (Cardinality(M) \div 2) + 1
    <2>8. n \in Int
      BY <2>7
    <2>9. Cardinality(M \cap D) >= n
      BY <2>3 DEF MsetHasQuorum, D
    <2> HIDE DEF n
    <2>10. Cardinality(M \cap Q) >= n
      BY <2>6, <2>7, <2>8, <2>9
    <2> QED BY <2>3, <2>10 DEF MsetHasQuorum, n
  <1>4. c = IF conf.newMembers = {} THEN a ELSE Lower(a, b)
    BY DEF AcknowledgedByQuorum
  <1>5. a \in Int /\ (conf.newMembers # {} => b \in Int)
    BY <1>1, CommittedMsetType, OptRanges
  <1>6. a >= c /\ (conf.newMembers # {} => b >= c) /\ (c = a \/ (conf.newMembers # {} /\ c = b))
    <2> HIDE DEF a, b
    <2> QED BY <1>4, <1>5 DEF Lower
  <1>7. wp[p].start <= a /\ MsetHasQuorum(conf.members, Q)
    BY <1>1, <1>3, <1>6
  <1>8. conf.newMembers # {} => wp[p].start <= b /\ MsetHasQuorum(conf.newMembers, Q)
    BY <1>1, <1>3, <1>6
  <1> HIDE DEF a, b, Q
  <1>9. HasQuorum(wp[p].gen, Q)
    BY <1>7, <1>8 DEF HasQuorum
  <1> QED BY <1>2, <1>6, <1>7, <1>8, <1>9 DEF Q

\* l is a truncateLsn or a peer_horizon_lsn, stored or on its way.
IsHorizon(l) ==
  \/ \E s \in Safekeepers : l = inmem[s].horizon \/ l = cf[s].horizon \/ l = broker[s].horizon
  \/ \E p \in Proposers : wp[p].state = "ELECTED" /\ l = wp[p].truncate
  \/ \E k \in Kinds, p \in Proposers, s \in Safekeepers : \E m \in ToSet(conn[k][p][s].queue) :
       m.type = "AppendRequest" /\ l = m.truncate
  \/ \E p \in Proposers, s \in Safekeepers : \E m \in ToSet(toWp[p][s]) :
       m.type = "Vote" /\ l = m.truncate
  \/ \E p \in Proposers, s \in Safekeepers :
       sks[p][s].state = "WAIT_ELECTED" /\ l = sks[p][s].vote.truncate

\* commitLsn and truncateLsn of an elected walproposer do not move, or its process ends;
\* sync-safekeepers has ended before, or has nothing to recover above a horizon.
Unmoved(p) ==
  /\ \/ /\ wp'[p].commit = wp[p].commit
        /\ wp[p].state = "ELECTED" => wp'[p].state = "ELECTED" /\ wp'[p].truncate = wp[p].truncate
     \/ wp'[p].commit = 0 /\ wp'[p].state # "ELECTED"
  /\ wp'[p].state = "SYNCED" => wp'[p] = wp[p] \/ IsHorizon(wp'[p].start)

\* p counts an acknowledgement of s.
Commits(p, s) ==
  LET w   == Acknowledged(p, s, Answer(p, s))
      log == WalOf(wp[p].hist, StartLsn, w.commit)
  IN  /\ Acknowledges(p, s)
      /\ \/ wp'[p] = w
         \/ wp'[p] = Exited("SYNCED", wp[p].start) /\ SyncFinished(p, s, Answer(p, s))
      /\ committed' = IF Len(log) > Len(committed) THEN log ELSE committed
      /\ \A q \in Proposers : q # p => Unmoved(q)

CommitMove ==
  \/ UNCHANGED committed /\ \A q \in Proposers : Unmoved(q)
  \/ \E p \in Proposers, s \in Safekeepers : Commits(p, s)

\* A step of one walproposer leaves the others alone.
LEMMA OneMoves ==
  ASSUME TypeOK, NEW p \in Proposers, NEW w, wp' = [wp EXCEPT ![p] = w]
  PROVE  wp'[p] = w /\ \A q \in Proposers : q # p => wp'[q] = wp[q] /\ Unmoved(q)
PROOF
  <1>1. wp \in [Proposers -> ProposerRecords]
    BY Parts DEF WalProposerOK, WalProposerTypeOK
  <1> QED BY <1>1 DEF Unmoved

\* A process that ends has nothing committed any more.
LEMMA ExitUnmoved ==
  ASSUME TypeOK, NEW p \in Proposers, NEW state, state # "ELECTED", NEW lsn, Exit(p, state, lsn),
         state = "SYNCED" => IsHorizon(lsn)
  PROVE  \A q \in Proposers : Unmoved(q)
PROOF
  <1>1. wp' = [wp EXCEPT ![p] = Exited(state, lsn)]
    BY DEF Exit
  <1>2. wp'[p] = Exited(state, lsn) /\ \A q \in Proposers : q # p => Unmoved(q)
    BY <1>1, OneMoves
  <1>3. /\ Exited(state, lsn).commit = 0 /\ Exited(state, lsn).state = state
        /\ Exited(state, lsn).start = lsn
    BY DEF Exited, NewProposer
  <1>4. Unmoved(p)
    BY <1>2, <1>3 DEF Unmoved
  <1> QED BY <1>2, <1>4

\* truncateLsn of a winner is the highest of those in its votes.
LEMMA WinnersHorizon ==
  ASSUME TypeOK, NEW p \in Proposers, NEW s \in Safekeepers, FirstAnswer(p, s, "Vote"),
         wp[p].state = "CAMPAIGN", NEW donor \in Voters(p, s)
  PROVE  IsHorizon(ElectedProposer(p, s, Answer(p, s), donor).truncate)
PROOF
  <1> DEFINE m == Answer(p, s)
             T == {VoteWith(p, s, m, x).truncate : x \in Voters(p, s)}
  <1>1. WalProposerOK /\ ToWpOK
    BY Parts
  <1>2. /\ m \in ToSet(toWp[p][s]) /\ m.type = "Vote" /\ m.flush \in Lsns /\ m.truncate \in Lsns
        /\ m.hist \in Seq(TermSwitches)
    <2>1. m \in ToSet(toWp[p][s]) /\ m.type = "Vote"
      BY <1>1, AnswerCame DEF FirstAnswer, Answer
    <2>2. m \in ToProposer
      BY <2>1, AnsweringType
    <2> QED BY <2>1, <2>2 DEF ToProposer
  <1> HIDE DEF m
  <1>3. Voters(p, s) \in SUBSET Safekeepers
    BY <1>1, <1>2, VotersFacts
  <1>4. T \in SUBSET OptLsns /\ T # {}
    <2>1. \A x \in Voters(p, s) : VoteWith(p, s, m, x).truncate \in OptLsns
      BY <1>1, <1>2, <1>3, VotersFacts, VoteFacts
    <2> QED BY <2>1
  <1> HIDE DEF T
  <1>5. IsFiniteSet(T)
    <2>1. T \in SUBSET Nat /\ \A x \in T : x <= MaxLsn
      BY <1>4, OptBounds
    <2> QED BY <2>1, Ranges, FS_BoundedSetOfNaturals
  <1>6. Max(T) \in T
    BY <1>4, <1>5, OptRanges, MaxProperties
  <1>7. PICK x \in Voters(p, s) : Max(T) = VoteWith(p, s, m, x).truncate
    BY <1>6 DEF T
  <1>8. IsHorizon(VoteWith(p, s, m, x).truncate)
    <2>1. CASE x = s
      BY <1>2, <2>1 DEF VoteWith, VoteOf, IsHorizon
    <2>2. CASE x # s
      <3>1. x \in Safekeepers /\ sks[p][x].state = "WAIT_ELECTED"
        BY <1>3, <2>2 DEF Voters
      <3> QED BY <2>2, <3>1 DEF VoteWith, IsHorizon
    <2> QED BY <2>1, <2>2
  <1>9. ElectedProposer(p, s, m, donor).truncate = Max(T)
    <2>1. wp[p] \in ProposerRecords
      BY <1>1, OneRecord
    <2> QED BY <2>1 DEF ElectedProposer, ProposerRecords, T
  <1> QED BY <1>7, <1>8, <1>9 DEF m

\* Which step commits what.
LEMMA CommitMoves ==
  ASSUME TypeOK, [Next]_vars
  PROVE  CommitMove
PROOF
  <1>0. WalProposerOK /\ ToWpOK
    BY Parts
  <1>1. CASE UNCHANGED committed /\ UNCHANGED wp
    BY <1>1 DEF CommitMove, Unmoved
  <1>2. ASSUME NEW s \in Safekeepers, SafekeeperStep(s) \/ PersistState(s) \/ Publish(s)
        PROVE  UNCHANGED committed /\ UNCHANGED wp
    BY <1>2 DEF SafekeeperStep, PersistState, Publish, ReceiveMessage, FlushWal, ReceiveInfo,
      ReceiveVoteRequest, ReceiveElected, ReceiveAppend, RefuseMessage, history, wpVars
  <1>3. ASSUME NEW s \in Safekeepers, Crash(s) \/ BumpTerm(s) \/ SwitchMembership(s)
        PROVE  UNCHANGED committed /\ UNCHANGED wp
    BY <1>3 DEF Crash, BumpTerm, SwitchMembership, history, wpVars
  <1>4. ASSUME NEW p \in Proposers, NEW s \in Safekeepers,
               \/ Connect(p, s) \/ SendWal(p, s) \/ Heartbeat(p, s) \/ NoticeClosed(p, s)
               \/ Disconnect(p, s) \/ LoseStale(p, s) \/ ReceiveVote(p, s)
        PROVE  UNCHANGED committed /\ UNCHANGED wp
    BY <1>4 DEF Connect, SendWal, Heartbeat, NoticeClosed, Disconnect, LoseStale, ReceiveVote,
      StartConnection, SendAppend, SendAppendRequest, ShutdownConnection, CountVote, JoinElected,
      history, wpVars
  <1>5. ASSUME NEW p \in Proposers, Kill(p) \/ \E s \in Safekeepers : Fatal(p, s)
        PROVE  CommitMove
    <2>1. Exit(p, "DEAD", 0) /\ UNCHANGED committed
      BY <1>5 DEF Fatal, Kill, Die, history
    <2> QED BY <2>1, ExitUnmoved DEF CommitMove
  <1>6. ASSUME NEW p \in Proposers, NewWal(p)
        PROVE  CommitMove
    <2> DEFINE w == [wp[p] EXCEPT !.avail = wp[p].avail + 1]
    <2>1. wp' = [wp EXCEPT ![p] = w] /\ UNCHANGED committed /\ wp \in [Proposers -> ProposerRecords]
      BY <1>0, <1>6 DEF NewWal, GenerateWal, history, WalProposerOK, WalProposerTypeOK
    <2>2. /\ w.commit = wp[p].commit /\ w.truncate = wp[p].truncate /\ w.state = wp[p].state
          /\ w.state # "SYNCED"
      BY <1>6, <2>1 DEF ProposerRecords, NewWal, GenerateWal
    <2> HIDE DEF w
    <2>3. wp'[p] = w /\ \A q \in Proposers : q # p => Unmoved(q)
      BY <2>1, OneMoves
    <2> QED BY <2>1, <2>2, <2>3 DEF CommitMove, Unmoved
  <1>7. ASSUME NEW p \in Proposers, NEW s \in Safekeepers, ReceiveGreeting(p, s)
        PROVE  CommitMove
    <2> DEFINE m == Answer(p, s)
               collecting == wp[p].state = "COLLECTING_TERMS"
               gen == Higher(wp[p].gen, m.gen)
               term == IF collecting THEN Higher(wp[p].term, m.term) ELSE wp[p].term
               collected == collecting /\ gen # 0 /\ HasQuorum(gen, Greeted(p, s))
               w == [wp[p] EXCEPT !.gen = gen, !.term = IF collected THEN term + 1 ELSE term,
                                  !.state = IF collected THEN "CAMPAIGN" ELSE @]
    <2>1. RecvAcceptorGreeting(p, s, m) /\ UNCHANGED committed
      BY <1>7 DEF ReceiveGreeting, history
    <2>2. wp' = [wp EXCEPT ![p] = w]
      BY <1>0, <2>1 DEF RecvAcceptorGreeting, WalProposerOK, WalProposerTypeOK
    <2>3. /\ w.commit = wp[p].commit /\ w.truncate = wp[p].truncate
          /\ wp[p].state = "ELECTED" => w.state = "ELECTED"
          /\ w.state # "SYNCED"
      <3>1. wp[p] \in ProposerRecords /\ wp[p].state # "SYNCED"
        BY <1>0, <2>1, OneRecord DEF RecvAcceptorGreeting, SafekeeperPhase
      <3> HIDE DEF term, gen
      <3> QED BY <3>1 DEF ProposerRecords
    <2> HIDE DEF w
    <2>4. wp'[p] = w /\ \A q \in Proposers : q # p => Unmoved(q)
      BY <2>2, OneMoves
    <2> QED BY <2>1, <2>3, <2>4 DEF CommitMove, Unmoved
  <1>8. ASSUME NEW p \in Proposers, NEW s \in Safekeepers, BecomeElected(p, s)
        PROVE  CommitMove
    <2>1. PICK donor \in Safekeepers : WinElection(p, s, Answer(p, s), donor)
      BY <1>8 DEF BecomeElected
    <2> DEFINE w == ElectedProposer(p, s, Answer(p, s), donor)
    <2>2. UNCHANGED committed /\ wp[p].state = "CAMPAIGN"
      BY <1>8, <2>1 DEF BecomeElected, WinElection
    <2>3. (Exit(p, "SYNCED", w.start) /\ w.truncate = w.start) \/ wp' = [wp EXCEPT ![p] = w]
      BY <2>1 DEF WinElection
    <2>7. IsHorizon(w.truncate)
      BY <1>8, <2>1, <2>2, WinnersHorizon DEF BecomeElected, WinElection
    <2>4. w.commit = wp[p].commit /\ w.state = "ELECTED"
      <3>1. wp[p] \in ProposerRecords
        BY <1>0, OneRecord
      <3> QED BY <3>1 DEF ElectedProposer, ProposerRecords
    <2> HIDE DEF w
    <2>5. CASE Exit(p, "SYNCED", w.start) /\ w.truncate = w.start
      BY <2>2, <2>5, <2>7, ExitUnmoved DEF CommitMove
    <2>6. CASE wp' = [wp EXCEPT ![p] = w]
      <3>1. wp'[p] = w /\ \A q \in Proposers : q # p => Unmoved(q)
        BY <2>6, OneMoves
      <3> QED BY <2>2, <2>4, <3>1 DEF CommitMove, Unmoved
    <2> QED BY <2>3, <2>5, <2>6
  <1>9. ASSUME NEW p \in Proposers, NEW s \in Safekeepers, ReceiveAppendResponse(p, s)
        PROVE  CommitMove
    <2> DEFINE m == Answer(p, s)
               w == Acknowledged(p, s, m)
               log == WalOf(wp[p].hist, StartLsn, w.commit)
    <2>1. Acknowledges(p, s)
      BY <1>9 DEF ReceiveAppendResponse, RecvAppendResponse, Acknowledges
    <2>2. committed' = IF Len(log) > Len(committed) THEN log ELSE committed
      BY <1>9 DEF ReceiveAppendResponse, NowCommitted
    <2>3. \/ SyncFinished(p, s, m) /\ Exit(p, "SYNCED", wp[p].start)
          \/ wp' = [wp EXCEPT ![p] = w]
      BY <1>9 DEF ReceiveAppendResponse, RecvAppendResponse
    <2>4. PICK v : wp' = [wp EXCEPT ![p] = v]
                   /\ (v = w \/ (v = Exited("SYNCED", wp[p].start) /\ SyncFinished(p, s, m)))
      BY <2>3 DEF Exit
    <2>5. wp'[p] = v /\ \A q \in Proposers : q # p => Unmoved(q)
      BY <2>4, OneMoves
    <2>6. Commits(p, s)
      BY <2>1, <2>2, <2>4, <2>5 DEF Commits
    <2> QED BY <2>6 DEF CommitMove
  <1>10. CASE Next
    <2>1. ASSUME NEW p \in Proposers, ProposerStep(p)
          PROVE  CommitMove
      BY <1>1, <1>4, <1>5, <1>6, <1>7, <1>8, <1>9, <2>1 DEF ProposerStep, ReceiveAnswer
    <2>2. ASSUME Failure
          PROVE  CommitMove
      BY <1>1, <1>3, <1>4, <1>5, <2>2 DEF Failure
    <2> QED BY <1>1, <1>2, <1>4, <1>10, <2>1, <2>2 DEF Next
  <1> QED BY <1>1, <1>10 DEF vars, history, wpVars

-----------------------------------------------------------------------------
(* Committed WAL *)

\* A quorum of generation gen protects the WAL of history g below c.
Durable(g, c, gen) ==
  /\ Outlasts(g, c)
  /\ \E Q \in SUBSET Safekeepers : HasQuorum(gen, Q) /\ \A s \in Q : Protects(g, c, s)

\* What is durable stays so: who wins has a vote of that quorum.
LEMMA DurableStays ==
  ASSUME QuorumsIntersect, HistoryInv, ElectionInv', Step, NEW g, NEW c \in Lsns,
         NEW gen \in DOMAIN Conf, Durable(g, c, gen)
  PROVE  Durable(g, c, gen)'
PROOF
  <1>0. TypeOK /\ c \in Int /\ Outlasts(g, c)
    BY Ranges DEF HistoryInv, ElectionInv, Durable
  <1>1. PICK Q \in SUBSET Safekeepers : HasQuorum(gen, Q) /\ \A s \in Q : Protects(g, c, s)
    BY DEF Durable
  <1>2. Elects(Q, g)
    <2> SUFFICES ASSUME NEW q \in Proposers, NEW s \in Safekeepers, NEW d \in Safekeepers,
                        Wins(q, s, d)
                 PROVE  Voters(q, s) \cap Q # {}
      BY DEF Elects
    <2>1. wp[q] \in ProposerRecords /\ ProposerPhase(wp[q])
      BY <1>0, Parts, OneRecord
    <2>2. wp[q].gen \in DOMAIN Conf /\ HasQuorum(wp[q].gen, Voters(q, s))
      BY <2>1, ProposerFacts DEF ProposerPhase, Wins
    <2>3. \A y \in Voters(q, s) : y \in Safekeepers
      BY <1>0, DonorsVote
    <2>4. Voters(q, s) \in SUBSET Safekeepers
      BY <2>3
    <2> QED BY <1>1, <2>2, <2>4 DEF QuorumsIntersect
  <1>3. Outlasts(g, c)'
    BY <1>0, <1>1, <1>2, SharedStep
  <1>4. \A s \in Q : Protects(g, c, s)'
    BY <1>0, <1>1, ProtectedOn
  <1> QED BY <1>1, <1>3, <1>4 DEF Durable

\* Who protects WAL has it: its history says so, and its disk has it.
LEMMA ProtectorHasWal ==
  ASSUME HistoryInv, NEW g, NEW c \in Lsns, Outlasts(g, c), NEW s \in Safekeepers,
         Protects(g, c, s)
  PROVE  /\ flushLsn[s] >= c /\ WellFormed(cf[s].hist) /\ Covers(cf[s].hist, g, c)
         /\ \A l \in Int : l < c => TermAt(cf[s].hist, l) = TermAt(g, l)
PROOF
  <1>1. IsKnown(cf[s].hist)
    BY DEF IsKnown
  <1>2. WellFormed(cf[s].hist) /\ WellFormed(g) /\ c \in Int
    BY <1>1, Ranges DEF HistoryInv, KnownAreSound, Outlasts, Rooted
  <1>3. flushLsn[s] >= c /\ Covers(cf[s].hist, g, c)
    BY <1>1 DEF Protects, Holds, Outlasts, Shared
  <1> QED BY <1>2, <1>3, CoversTerms

\* What two quorums protect is the same WAL, as far as both protect it.
LEMMA DurableAgree ==
  ASSUME QuorumsIntersect, HistoryInv,
         NEW g, NEW c \in Lsns, NEW i \in DOMAIN Conf, Durable(g, c, i),
         NEW h, NEW d \in Lsns, NEW j \in DOMAIN Conf, Durable(h, d, j),
         NEW l \in Int, l < c, l < d
  PROVE  TermAt(g, l) = TermAt(h, l)
PROOF
  <1>1. PICK Q \in SUBSET Safekeepers : HasQuorum(i, Q) /\ \A s \in Q : Protects(g, c, s)
    BY DEF Durable
  <1>2. PICK R \in SUBSET Safekeepers : HasQuorum(j, R) /\ \A s \in R : Protects(h, d, s)
    BY DEF Durable
  <1>3. PICK s \in Q : s \in R
    BY <1>1, <1>2 DEF QuorumsIntersect
  <1>4. s \in Safekeepers /\ Outlasts(g, c) /\ Outlasts(h, d)
    BY <1>3 DEF Durable
  <1>5. TermAt(cf[s].hist, l) = TermAt(g, l)
    BY <1>1, <1>3, <1>4, ProtectorHasWal
  <1>6. TermAt(cf[s].hist, l) = TermAt(h, l)
    BY <1>2, <1>3, <1>4, ProtectorHasWal
  <1> QED BY <1>5, <1>6

NoCommitYet == \A p \in Proposers : wp[p].state # "ELECTED" => wp[p].commit = 0

\* commitLsn of an elected walproposer.
LeadersCommit ==
  \A p \in Proposers, c \in Lsns : \A g, gen :
    wp[p].state = "ELECTED" /\ c = wp[p].commit /\ g = wp[p].hist /\ gen = wp[p].gen =>
      wp[p].start <= c /\ Durable(g, c, gen)

\* The committed WAL is that of a history which a quorum protects.
LogIsSafe ==
  \E c \in Lsns, gen \in DOMAIN Conf : \E g :
    Durable(g, c, gen) /\ committed = WalOf(g, StartLsn, c)

CommitInv == WithinInv /\ AcksOfTerm /\ LeadersArePrepared /\ NoCommitYet /\ LeadersCommit /\ LogIsSafe

\* The commitLsn that an acknowledgement leads to.
LEMMA NewCommitFacts ==
  ASSUME TypeOK, NEW p \in Proposers, NEW s \in Safekeepers, Acknowledges(p, s)
  PROVE  LET w     == Acknowledged(p, s, Answer(p, s))
             flush == [x \in Safekeepers |->
                         IF x = s THEN Answer(p, s).flush ELSE sks[p][x].flush]
         IN  /\ wp[p].state = "ELECTED" /\ wp[p].gen \in DOMAIN Conf /\ wp[p].start \in Lsns
             /\ wp[p].commit \in OptLsns
             /\ flush \in [Safekeepers -> OptLsns]
             /\ Answer(p, s) \in ToSet(toWp[p][s]) /\ Answer(p, s).type = "AppendResponse"
             /\ w \in ProposerRecords /\ w.state = "ELECTED" /\ w.commit \in OptLsns
             /\ w.gen = wp[p].gen /\ w.start = wp[p].start /\ w.hist = wp[p].hist
             /\ w.commit >= wp[p].commit
             /\ w.commit = wp[p].commit \/ w.commit = AcknowledgedByQuorum(p, flush)
             /\ w.commit >= AcknowledgedByQuorum(p, flush)
PROOF
  <1> DEFINE m == Answer(p, s)
             w == Acknowledged(p, s, m)
             flush == [x \in Safekeepers |-> IF x = s THEN m.flush ELSE sks[p][x].flush]
             a == AcknowledgedByQuorum(p, flush)
  <1>1. WalProposerOK /\ ToWpOK
    BY Parts
  <1>2. FirstAnswer(p, s, "AppendResponse") /\ sks[p][s].state = "ACTIVE"
    BY DEF Acknowledges
  <1>3. m \in ToSet(toWp[p][s]) /\ m \in ToProposer /\ m.type = "AppendResponse"
    BY <1>1, <1>2, AnswerCame, AnswerType
  <1>4. m.flush \in OptLsns
    BY <1>3, AnswerFacts
  <1>5. wp[p].state = "ELECTED" /\ wp[p].gen \in DOMAIN Conf /\ wp[p].start \in Lsns
    BY <1>1, <1>2, ActiveFacts
  <1>6. wp[p] \in ProposerRecords /\ wp[p].commit \in OptLsns
    BY <1>1, OneRecord, ProposerFacts
  <1>7. flush \in [Safekeepers -> OptLsns]
    <2>1. \A x \in Safekeepers : sks[p][x].flush \in OptLsns
      BY <1>1, OneRecord, SafekeeperRecordFacts
    <2> HIDE DEF m
    <2> QED BY <1>4, <2>1
  <1>8. /\ w \in ProposerRecords /\ w.state = wp[p].state /\ w.gen = wp[p].gen
        /\ w.start = wp[p].start /\ w.hist = wp[p].hist
    BY <1>1, <1>4, <1>5, AcknowledgedType
  <1>9. w.commit = Higher(wp[p].commit, a)
    BY <1>6 DEF Acknowledged, ProposerRecords
  <1>10. w.commit \in OptLsns
    BY <1>8, ProposerFacts
  <1>11. a \in Int /\ wp[p].commit \in Int
    BY <1>5, <1>6, <1>7, AcknowledgedByQuorumType, OptRanges
  <1> HIDE DEF w, a, flush, m
  <1>12. w.commit >= wp[p].commit /\ w.commit >= a /\ (w.commit = wp[p].commit \/ w.commit = a)
    BY <1>9, <1>11 DEF Higher
  <1> QED BY <1>3, <1>5, <1>6, <1>7, <1>8, <1>10, <1>12 DEF w, a, flush, m

\* What p counts for x with this answer, x has acknowledged.
LEMMA CountedIsAcked ==
  ASSUME TypeOK, AcksOfTerm, NEW p \in Proposers, NEW s \in Safekeepers, Acknowledges(p, s),
         NEW x \in Safekeepers, NEW c \in Lsns,
         (IF x = s THEN Answer(p, s).flush ELSE sks[p][x].flush) >= c
  PROVE  AckedAt(p, x, c)
PROOF
  <1> DEFINE m == Answer(p, s)
  <1>0. m \in ToSet(toWp[p][s]) /\ m.type = "AppendResponse" /\ c \in Nat /\ c # 0
    BY NewCommitFacts, Ranges
  <1>1. CASE x # s
    BY <1>1 DEF AckedAt
  <1>2. CASE x = s
    <2>1. m.flush >= c
      BY <1>2
    <2> HIDE DEF m
    <2>2. m \in ToProposer
      BY <1>0, AnsweringType
    <2>3. m.flush \in OptLsns /\ m.term \in Terms
      BY <1>0, <2>2, AnswerFacts
    <2>4. m.flush \in Nat /\ m.flush # 0 /\ m.term \in Int /\ wp[p].term \in Int
      <3>1. m.flush \in Nat
        BY <2>3, OptRanges
      <3>2. m.flush # 0
        BY <1>0, <2>1, <3>1
      <3> QED BY <2>3, <3>1, <3>2, TermsAreInts, TermTypes
    <2>5. m.term >= wp[p].term
      BY <1>0, <2>4 DEF AcksOfTerm
    <2>6. m.term <= wp[p].term
      BY <2>4 DEF Acknowledges, ResponseFatal, m
    <2>7. m.term = wp[p].term
      BY <2>4, <2>5, <2>6
    <2> QED BY <1>0, <1>2, <2>1, <2>7 DEF AckedAt
  <1> QED BY <1>1, <1>2

\* A commitLsn that is new has been acknowledged by a quorum, and p is prepared for it.
LEMMA NewCommitPrepared ==
  ASSUME CommitInv, NEW p \in Proposers, NEW s \in Safekeepers, Acknowledges(p, s),
         NEW c \in Lsns, c = Acknowledged(p, s, Answer(p, s)).commit, c # wp[p].commit
  PROVE  /\ wp[p].start <= c /\ Prepared(p, wp[p].hist, c)
         /\ \E Q \in SUBSET Safekeepers : HasQuorum(wp[p].gen, Q) /\ \A x \in Q : AckedAt(p, x, c)
PROOF
  <1> DEFINE m == Answer(p, s)
             flush == [x \in Safekeepers |-> IF x = s THEN m.flush ELSE sks[p][x].flush]
             g == wp[p].hist
             Q == {x \in Safekeepers : flush[x] >= c}
  <1>0. /\ TypeOK /\ AcksOfTerm /\ LeadersArePrepared /\ c \in Nat /\ c # 0
        /\ flush \in [Safekeepers -> OptLsns]
        /\ wp[p].state = "ELECTED" /\ wp[p].gen \in DOMAIN Conf /\ wp[p].start \in Int
        /\ c = AcknowledgedByQuorum(p, flush)
    <2>1. TypeOK /\ AcksOfTerm /\ LeadersArePrepared
      BY DEF CommitInv, WithinInv, WalInv, AckInv, HistoryInv, ElectionInv
    <2> QED BY <2>1, NewCommitFacts, Ranges
  <1>1. wp[p].start <= c /\ HasQuorum(wp[p].gen, Q)
    BY <1>0, AcknowledgedByQuorumAcked
  <1>2. ASSUME NEW x \in Q PROVE AckedAt(p, x, c)
    <2>1. x \in Safekeepers /\ (IF x = s THEN m.flush ELSE sks[p][x].flush) >= c
      OBVIOUS
    <2> HIDE DEF Q, flush
    <2> QED BY <1>0, <2>1, CountedIsAcked
  <1>3. Q \in SUBSET Safekeepers
    OBVIOUS
  <1> HIDE DEF Q
  <1>4. MayCommit(p, c)
    BY <1>1, <1>2, <1>3 DEF MayCommit, May
  <1>5. Prepared(p, g, c)
    BY <1>0, <1>4 DEF LeadersArePrepared
  <1> QED BY <1>1, <1>2, <1>3, <1>5

\* What p commits with an acknowledgement is durable when it commits it.
LEMMA CommitIsDurable ==
  ASSUME CommitInv, NEW p \in Proposers, NEW s \in Safekeepers, Acknowledges(p, s),
         NEW c \in Lsns, c = Acknowledged(p, s, Answer(p, s)).commit
  PROVE  wp[p].start <= c /\ Durable(wp[p].hist, c, wp[p].gen)
PROOF
  <1> DEFINE g == wp[p].hist
  <1>1. CASE c = wp[p].commit
    <2>1. TypeOK /\ LeadersCommit
      BY DEF CommitInv, WithinInv, WalInv, AckInv, HistoryInv, ElectionInv
    <2>2. wp[p].state = "ELECTED"
      BY <2>1, NewCommitFacts
    <2> QED BY <1>1, <2>1, <2>2 DEF LeadersCommit
  <1>2. CASE c # wp[p].commit
    <2>1. wp[p].start <= c /\ Prepared(p, g, c)
      BY <1>2, NewCommitPrepared
    <2>2. PICK Q \in SUBSET Safekeepers : HasQuorum(wp[p].gen, Q) /\ \A x \in Q : AckedAt(p, x, c)
      BY <1>2, NewCommitPrepared
    <2>3. \A x \in Q : Protects(g, c, x)
      BY <2>1, <2>2 DEF Prepared
    <2>4. Outlasts(g, c)
      BY <2>1 DEF Prepared
    <2> QED BY <2>1, <2>2, <2>3, <2>4 DEF Durable
  <1> QED BY <1>1, <1>2

\* commitLsn of walproposers, after a step.
LEMMA LeadersCommitStep ==
  ASSUME QuorumsIntersect, CommitInv, ElectionInv', Step, CommitMove
  PROVE  LeadersCommit' /\ NoCommitYet'
PROOF
  <1>0. TypeOK /\ TypeOK' /\ HistoryInv /\ NoCommitYet /\ LeadersCommit
    BY DEF CommitInv, WithinInv, WalInv, AckInv, HistoryInv, ElectionInv
  <1>1. ASSUME NEW p \in Proposers, Unmoved(p), wp'[p].state # "ELECTED"
        PROVE  wp'[p].commit = 0
    BY <1>0, <1>1 DEF Unmoved, NoCommitYet
  <1>2. ASSUME NEW p \in Proposers, NEW s \in Safekeepers, Commits(p, s), wp'[p].state # "ELECTED"
        PROVE  wp'[p].commit = 0
    <2>1. Acknowledged(p, s, Answer(p, s)).state = "ELECTED"
      BY <1>0, <1>2, NewCommitFacts DEF Commits
    <2>2. wp'[p] = Exited("SYNCED", wp[p].start)
      BY <1>2, <2>1 DEF Commits
    <2> QED BY <2>2 DEF Exited, NewProposer
  <1>3. NoCommitYet'
    <2>1. ASSUME NEW p \in Proposers, wp'[p].state # "ELECTED"
          PROVE  wp'[p].commit = 0
      <3>1. Unmoved(p) \/ \E s \in Safekeepers : Commits(p, s)
        BY DEF CommitMove, Commits
      <3> QED BY <1>1, <1>2, <2>1, <3>1
    <2> QED BY <2>1 DEF NoCommitYet
  <1>4. ASSUME NEW p \in Proposers, NEW c \in Lsns, NEW g, NEW gen,
               wp'[p].state = "ELECTED", c = wp'[p].commit, g = wp'[p].hist, gen = wp'[p].gen
        PROVE  wp'[p].start <= c /\ Durable(g, c, gen)'
    <2>1. c \in Nat /\ c # 0
      BY Ranges
    <2>2. CASE Unmoved(p)
      <3>1. wp[p].commit = c
        BY <1>4, <2>2 DEF Unmoved
      <3>2. wp[p].state = "ELECTED"
        BY <1>0, <2>1, <3>1 DEF NoCommitYet
      <3>3. g = wp[p].hist /\ gen = wp[p].gen /\ wp'[p].start = wp[p].start
        BY <1>0, <1>4, <3>2, LeadersMove DEF Leads, Exits
      <3>4. wp[p].start <= c /\ Durable(g, c, gen)
        BY <1>0, <3>1, <3>2, <3>3 DEF LeadersCommit
      <3>5. gen \in DOMAIN Conf
        <4>1. \E s \in Safekeepers : TRUE
          BY ConfAssumption
        <4> QED BY <1>0, <3>2, <3>3, <4>1, Parts, OneRecord, ProposerFacts DEF ProposerPhase
      <3> QED BY <1>0, <3>3, <3>4, <3>5, DurableStays
    <2>3. ASSUME NEW s \in Safekeepers, Commits(p, s)
          PROVE  wp'[p].start <= c /\ Durable(g, c, gen)'
      <3> DEFINE w == Acknowledged(p, s, Answer(p, s))
      <3>1. Acknowledges(p, s)
        BY <2>3 DEF Commits
      <3>2. /\ w.gen = wp[p].gen /\ w.start = wp[p].start /\ w.hist = wp[p].hist
            /\ wp[p].gen \in DOMAIN Conf
        BY <1>0, <3>1, NewCommitFacts
      <3>3. wp'[p] = w
        <4>1. wp'[p] # Exited("SYNCED", wp[p].start)
          BY <1>4 DEF Exited, NewProposer
        <4> QED BY <2>3, <4>1 DEF Commits
      <3>4. c = w.commit
        BY <1>4, <3>3
      <3>5. wp[p].start <= c /\ Durable(wp[p].hist, c, wp[p].gen)
        BY <3>1, <3>4, CommitIsDurable
      <3>6. g = wp[p].hist /\ gen = wp[p].gen /\ wp'[p].start = wp[p].start
        BY <1>4, <3>2, <3>3
      <3> HIDE DEF w
      <3>7. Durable(g, c, gen) /\ gen \in DOMAIN Conf
        BY <3>2, <3>5, <3>6
      <3> QED BY <1>0, <3>5, <3>6, <3>7, DurableStays
    <2>4. Unmoved(p) \/ \E s \in Safekeepers : Commits(p, s)
      BY DEF CommitMove, Commits
    <2> QED BY <2>2, <2>3, <2>4
  <1>5. LeadersCommit'
    BY <1>4 DEF LeadersCommit
  <1> QED BY <1>3, <1>5

\* The WAL that a history describes below c.
LEMMA WalOfFacts ==
  ASSUME NEW g, WellFormed(g), NEW c \in Lsns
  PROVE  /\ WalOf(g, StartLsn, c) \in Seq(Terms) /\ Len(WalOf(g, StartLsn, c)) = c - StartLsn
         /\ \A i \in 1..(c - StartLsn) : WalOf(g, StartLsn, c)[i] = TermAt(g, StartLsn + i - 1)
         /\ c \in Int /\ StartLsn \in Int /\ StartLsn <= c
PROOF
  <1>1. c \in Int /\ StartLsn \in Int /\ StartLsn <= c
    BY Ranges, LsnRange
  <1>2. g \in Histories(Terms, Lsns) /\ c \in Nat
    BY Ranges DEF WellFormed
  <1>3. WalOf(g, StartLsn, c) \in Seq(Terms)
    BY <1>2, WalOfType
  <1> DEFINE n == c - StartLsn
  <1>4. n \in Nat
    BY <1>1
  <1>5. WalOf(g, StartLsn, c) = [i \in 1..n |-> TermAt(g, StartLsn + i - 1)]
    BY DEF WalOf
  <1> HIDE DEF n
  <1>6. Len(WalOf(g, StartLsn, c)) = n
    BY <1>3, <1>4, <1>5
  <1>7. \A i \in 1..n : WalOf(g, StartLsn, c)[i] = TermAt(g, StartLsn + i - 1)
    BY <1>5
  <1> QED BY <1>1, <1>3, <1>6, <1>7 DEF n

\* Prefixes, unit by unit.
LEMMA PrefixByUnits ==
  ASSUME NEW a \in Seq(Terms), NEW b \in Seq(Terms), Len(a) <= Len(b),
         \A i \in 1..Len(a) : a[i] = b[i]
  PROVE  IsPrefix(a, b)
PROOF
  <1>1. Len(a) \in 0..Len(a)
    OBVIOUS
  <1>2. SubSeq(a, 1, Len(a)) = SubSeq(b, 1, Len(a))
    BY <1>1, SameCut
  <1> QED BY <1>2 DEF IsPrefix

\* The WAL of a safekeeper below an LSN that it has written.
LEMMA WalUpToFacts ==
  ASSUME WalInv, NEW s \in Safekeepers, NEW l \in Lsns, l <= WriteLsn(s)
  PROVE  /\ WalUpTo(s, l) \in Seq(Terms) /\ Len(WalUpTo(s, l)) = l - StartLsn
         /\ \A i \in 1..(l - StartLsn) : WalUpTo(s, l)[i] = TermAt(cf[s].hist, StartLsn + i - 1)
PROOF
  <1>1. wal[s] \in Seq(Terms) /\ Len(wal[s]) \in Nat
    BY Parts, SafekeeperFacts DEF WalInv, AckInv, HistoryInv, ElectionInv
  <1>2. l \in Int /\ StartLsn \in Int /\ StartLsn <= l
    BY Ranges, LsnRange
  <1> DEFINE n == l - StartLsn
  <1>3. n \in 0..Len(wal[s])
    BY <1>1, <1>2 DEF WriteLsn
  <1>4. \A i \in 1..Len(wal[s]) : wal[s][i] = TermAt(cf[s].hist, StartLsn + i - 1)
    BY DEF WalInv, WalIsDescribed, Describes
  <1>5. WalUpTo(s, l) = SubSeq(wal[s], 1, n)
    BY DEF WalUpTo
  <1> HIDE DEF n
  <1>6. /\ WalUpTo(s, l) \in Seq(Terms) /\ Len(WalUpTo(s, l)) = n
        /\ \A i \in 1..n : WalUpTo(s, l)[i] = wal[s][i]
    BY <1>1, <1>3, <1>5, CutFacts
  <1>7. \A i \in 1..n : WalUpTo(s, l)[i] = TermAt(cf[s].hist, StartLsn + i - 1)
    BY <1>1, <1>3, <1>4, <1>6
  <1> QED BY <1>6, <1>7 DEF n

\* Who protects the WAL of g below c has it on its disk.
LEMMA ProtectedOnDisk ==
  ASSUME WalInv, NEW g, NEW c \in Lsns, Outlasts(g, c), NEW s \in Safekeepers, Protects(g, c, s)
  PROVE  IsPrefix(WalOf(g, StartLsn, c), WalUpTo(s, flushLsn[s]))
PROOF
  <1> DEFINE a == WalOf(g, StartLsn, c)
             b == WalUpTo(s, flushLsn[s])
  <1>1. HistoryInv /\ TypeOK
    BY DEF WalInv, AckInv, HistoryInv, ElectionInv
  <1>2. /\ flushLsn[s] >= c
        /\ \A l \in Int : l < c => TermAt(cf[s].hist, l) = TermAt(g, l)
    BY <1>1, ProtectorHasWal
  <1>3. flushLsn[s] \in Lsns /\ flushLsn[s] <= WriteLsn(s) /\ flushLsn[s] \in Int
    BY <1>1, Parts, SafekeeperFacts, SafekeeperNumbers
  <1>4. /\ a \in Seq(Terms) /\ Len(a) = c - StartLsn /\ c \in Int /\ StartLsn \in Int
        /\ \A i \in 1..(c - StartLsn) : a[i] = TermAt(g, StartLsn + i - 1)
    BY WalOfFacts DEF Outlasts, Rooted
  <1>5. /\ b \in Seq(Terms) /\ Len(b) = flushLsn[s] - StartLsn
        /\ \A i \in 1..(flushLsn[s] - StartLsn) : b[i] = TermAt(cf[s].hist, StartLsn + i - 1)
    BY <1>3, WalUpToFacts
  <1> HIDE DEF a, b
  <1>6. Len(a) <= Len(b)
    BY <1>2, <1>3, <1>4, <1>5
  <1>7. ASSUME NEW i \in 1..Len(a) PROVE a[i] = b[i]
    <2>1. i \in 1..(c - StartLsn) /\ i \in 1..(flushLsn[s] - StartLsn)
      BY <1>2, <1>3, <1>4
    <2>2. StartLsn + i - 1 \in Int /\ StartLsn + i - 1 < c
      BY <1>4, <2>1
    <2>3. TermAt(cf[s].hist, StartLsn + i - 1) = TermAt(g, StartLsn + i - 1)
      BY <1>2, <2>2
    <2> QED BY <1>4, <1>5, <2>1, <2>3
  <1>8. IsPrefix(a, b)
    BY <1>4, <1>5, <1>6, <1>7, PrefixByUnits
  <1> QED BY <1>8 DEF a, b

\* Two logs that are safe are one.
LEMMA LogsAgree ==
  ASSUME QuorumsIntersect, HistoryInv,
         NEW g, NEW c \in Lsns, NEW i \in DOMAIN Conf, Durable(g, c, i),
         NEW h, NEW d \in Lsns, NEW j \in DOMAIN Conf, Durable(h, d, j), c <= d
  PROVE  IsPrefix(WalOf(g, StartLsn, c), WalOf(h, StartLsn, d))
PROOF
  <1> DEFINE a == WalOf(g, StartLsn, c)
             b == WalOf(h, StartLsn, d)
  <1>1. WellFormed(g) /\ WellFormed(h)
    BY DEF Durable, Outlasts, Rooted
  <1>2. /\ a \in Seq(Terms) /\ Len(a) = c - StartLsn /\ c \in Int /\ StartLsn \in Int
        /\ \A k \in 1..(c - StartLsn) : a[k] = TermAt(g, StartLsn + k - 1)
    BY <1>1, WalOfFacts
  <1>3. /\ b \in Seq(Terms) /\ Len(b) = d - StartLsn /\ d \in Int
        /\ \A k \in 1..(d - StartLsn) : b[k] = TermAt(h, StartLsn + k - 1)
    BY <1>1, WalOfFacts
  <1> HIDE DEF a, b
  <1>4. ASSUME NEW k \in 1..Len(a) PROVE a[k] = b[k]
    <2>1. k \in 1..(c - StartLsn) /\ k \in 1..(d - StartLsn)
      BY <1>2, <1>3
    <2> DEFINE l == StartLsn + k - 1
    <2>2. l \in Int /\ l < c /\ l < d
      BY <1>2, <1>3, <2>1
    <2> HIDE DEF l
    <2>3. TermAt(g, l) = TermAt(h, l)
      BY <2>2, DurableAgree
    <2> QED BY <1>2, <1>3, <2>1, <2>3 DEF l
  <1>5. Len(a) <= Len(b)
    BY <1>2, <1>3
  <1>6. IsPrefix(a, b)
    BY <1>2, <1>3, <1>4, <1>5, PrefixByUnits
  <1> QED BY <1>6 DEF a, b

\* The committed WAL, after a step: it is safe, and an extension of what it was.
LEMMA LogStep ==
  ASSUME QuorumsIntersect, CommitInv, ElectionInv', Step, CommitMove
  PROVE  LogIsSafe' /\ IsPrefix(committed, committed')
PROOF
  <1>0. TypeOK /\ HistoryInv /\ committed \in Seq(Terms)
    BY DEF CommitInv, WithinInv, WalInv, AckInv, HistoryInv, ElectionInv, TypeOK
  <1>10. PICK c \in Lsns, gen \in DOMAIN Conf :
          \E g : Durable(g, c, gen) /\ committed = WalOf(g, StartLsn, c)
    BY DEF CommitInv, LogIsSafe
  <1>1. PICK g : Durable(g, c, gen) /\ committed = WalOf(g, StartLsn, c)
    BY <1>10
  <1>2. Durable(g, c, gen)'
    BY <1>0, <1>1, DurableStays
  <1>3. CASE committed' = committed
    <2>1. LogIsSafe'
      BY <1>1, <1>2, <1>3 DEF LogIsSafe
    <2>2. IsPrefix(committed, committed)
      BY <1>0, PrefixByUnits
    <2> QED BY <1>3, <2>1, <2>2
  <1>4. CASE committed' # committed
    <2>1. PICK p \in Proposers, s \in Safekeepers : Commits(p, s)
      BY <1>4 DEF CommitMove
    <2>0. PICK d, h, j : /\ d = Acknowledged(p, s, Answer(p, s)).commit
                         /\ h = wp[p].hist /\ j = wp[p].gen
      OBVIOUS
    <2> DEFINE log == WalOf(h, StartLsn, d)
    <2>2. Acknowledges(p, s) /\ committed' = log /\ Len(log) > Len(committed)
      BY <1>4, <2>0, <2>1 DEF Commits
    <2>3. d \in OptLsns /\ j \in DOMAIN Conf
      BY <1>0, <2>0, <2>2, NewCommitFacts
    <2>4. d # 0
      <3>1. ASSUME d = 0 PROVE log = <<>>
        <4>1. StartLsn \in Nat \ {0}
          BY Ranges
        <4>2. 1..(0 - StartLsn) = {}
          BY <4>1
        <4> QED BY <3>1, <4>2 DEF WalOf
      <3>2. Len(committed) \in Nat
        BY <1>0
      <3>3. ASSUME log = <<>> PROVE FALSE
        BY <2>2, <3>2, <3>3
      <3> QED BY <3>1, <3>3
    <2>5. d \in Lsns
      BY <2>3, <2>4, OptRanges
    <2>7. Durable(h, d, j) /\ j \in DOMAIN Conf
      BY <2>0, <2>2, <2>3, <2>5, CommitIsDurable
    <2>8. Durable(h, d, j)'
      BY <1>0, <2>5, <2>7, DurableStays
    <2>9. LogIsSafe'
      BY <2>2, <2>5, <2>7, <2>8 DEF LogIsSafe
    <2>10. c <= d
      <3>1. Len(committed) = c - StartLsn /\ c \in Int /\ StartLsn \in Int
        BY <1>1, WalOfFacts DEF Durable, Outlasts, Rooted
      <3>2. Len(log) = d - StartLsn /\ d \in Int
        BY <2>5, <2>7, WalOfFacts DEF Durable, Outlasts, Rooted
      <3> HIDE DEF log
      <3> QED BY <2>2, <3>1, <3>2
    <2>11. IsPrefix(committed, log)
      BY <1>0, <1>1, <2>5, <2>7, <2>10, LogsAgree
    <2> QED BY <2>2, <2>9, <2>11
  <1> QED BY <1>3, <1>4

\* At first the log is empty, and everybody has the history that every timeline has.
LEMMA CommitInit == Init => CommitInv
PROOF
  <1> SUFFICES ASSUME Init PROVE CommitInv
    OBVIOUS
  <1> DEFINE first == <<[term |-> 0, lsn |-> StartLsn]>>
  <1>1. WithinInv /\ KnownAreSound /\ TypeOK
    BY WithinInit DEF WithinInv, WalInv, AckInv, HistoryInv, ElectionInv
  <1>2. /\ \A k \in Kinds, p \in Proposers, s \in Safekeepers : ToSet(conn[k][p][s].queue) = {}
        /\ \A p \in Proposers, s \in Safekeepers :
             ToSet(toWp[p][s]) = {} /\ sks[p][s].state = "OFFLINE"
        /\ \A p \in Proposers : wp[p].state = "COLLECTING_TERMS" /\ wp[p].commit = 0
        /\ \A s \in Safekeepers : cf[s].hist = first /\ flushLsn[s] = StartLsn
        /\ committed = <<>>
    BY SmallQueues DEF Init, SafekeeperInit, WalProposerInit, Closed, Offline, NewProposer
  <1>3. AcksOfTerm /\ LeadersArePrepared /\ NoCommitYet /\ LeadersCommit
    BY <1>2 DEF AcksOfTerm, LeadersArePrepared, NoCommitYet, LeadersCommit
  <1>4. first \in Histories(Terms, Lsns) /\ Len(first) = 1 /\ first[1] = [term |-> 0, lsn |-> StartLsn]
    BY Ranges DEF Histories
  <1>5. WellFormed(first)
    BY <1>4 DEF WellFormed
  <1>6. HighestTerm(first) = 0 /\ Last(first).lsn = StartLsn
    BY <1>4, <1>5, WellFormedFacts
  <1> HIDE DEF first
  <1>7. Outlasts(first, StartLsn)
    <2>1. \A h : IsKnown(h) => h = first
      BY <1>2 DEF IsKnown
    <2>2. Covers(first, first, StartLsn)
      BY <1>4 DEF Covers
    <2>3. StartLsn \in Int
      BY Ranges
    <2> QED BY <1>5, <1>6, <2>1, <2>2, <2>3 DEF Outlasts, Rooted, Shared
  <1>8. ASSUME NEW s \in Safekeepers PROVE Protects(first, StartLsn, s)
    <2>1. Holds(first, s, StartLsn)
      <3>1. StartLsn \in Int
        BY Ranges
      <3> QED BY <1>2, <1>6, <3>1 DEF Holds
    <2>2. VotesHold(first, StartLsn, s)
      BY <1>2 DEF VotesHold
    <2> QED BY <2>1, <2>2 DEF Protects
  <1>9. HasQuorum(1, Safekeepers)
    <2>1. ASSUME NEW M \in SUBSET Safekeepers, M # {} PROVE MsetHasQuorum(M, Safekeepers)
      <3>1. IsFiniteSet(M) /\ Cardinality(M) \in Nat /\ Cardinality(M) # 0
        BY <2>1, SafekeepersAssumption, FS_Subset, FS_CardinalityType, FS_EmptySet
      <3>2. \A n \in Nat : n # 0 => n >= (n \div 2) + 1
        OBVIOUS
      <3>3. M \cap Safekeepers = M
        OBVIOUS
      <3> QED BY <3>1, <3>2, <3>3 DEF MsetHasQuorum
    <2> QED BY <2>1, ConfAssumption DEF HasQuorum
  <1>10. Durable(first, StartLsn, 1)
    BY <1>7, <1>8, <1>9 DEF Durable
  <1>11. committed = WalOf(first, StartLsn, StartLsn)
    <2>1. StartLsn - StartLsn = 0
      BY Ranges
    <2>2. WalOf(first, StartLsn, StartLsn) = [i \in 1..0 |-> TermAt(first, StartLsn + i - 1)]
      BY <2>1 DEF WalOf
    <2>3. 1..0 = {}
      OBVIOUS
    <2> QED BY <1>2, <2>2, <2>3
  <1>12. LogIsSafe
    BY <1>10, <1>11, Ranges, ConfAssumption DEF LogIsSafe
  <1> QED BY <1>1, <1>3, <1>12 DEF CommitInv

\* Every step keeps the invariant.
LEMMA CommitNext ==
  ASSUME QuorumsIntersect, CommitInv, [Next]_vars
  PROVE  CommitInv' /\ Step /\ CommitMove /\ IsPrefix(committed, committed')
PROOF
  <1>1. WithinInv /\ WalInv /\ AckInv /\ TypeOK /\ AcksOfTerm /\ LeadersArePrepared
    BY DEF CommitInv, WithinInv, WalInv, AckInv, HistoryInv, ElectionInv
  <1>2. WithinInv' /\ Step /\ ElectionInv' /\ TypeOK'
    BY <1>1, WithinNext, WalNext
  <1>3. CommitMove
    BY <1>1, CommitMoves
  <1>4. AcksOfTerm' /\ LeadersArePrepared'
    BY <1>1, <1>2, AcksOfTermStep, LeadersStep
  <1>5. LeadersCommit' /\ NoCommitYet' /\ LogIsSafe' /\ IsPrefix(committed, committed')
    BY <1>2, <1>3, LeadersCommitStep, LogStep
  <1> QED BY <1>2, <1>3, <1>4, <1>5 DEF CommitInv

\* It is an invariant.
LEMMA CommitInvHolds == QuorumsIntersect => (Spec => []CommitInv)
PROOF
  <1> SUFFICES ASSUME QuorumsIntersect PROVE Spec => []CommitInv
    OBVIOUS
  <1>1. Init => CommitInv
    BY CommitInit
  <1>2. CommitInv /\ [Next]_vars => CommitInv'
    BY CommitNext
  <1> QED BY <1>1, <1>2, PTL DEF Spec

\* A quorum of every generation is also one of the first: the old members have not
\* been let go of yet.
FirstMembersStay ==
  \A gen \in DOMAIN Conf, Q \in SUBSET Safekeepers : HasQuorum(gen, Q) => HasQuorum(1, Q)

\* At every moment a quorum has all the committed WAL on its disks, whatever has been
\* truncated for a later term, crashed or restarted since it was committed.
THEOREM CommittedWalIsDurable ==
  QuorumsIntersect /\ FirstMembersStay => (Spec => []CommittedIsDurable)
PROOF
  <1> SUFFICES ASSUME QuorumsIntersect, FirstMembersStay PROVE Spec => []CommittedIsDurable
    OBVIOUS
  <1>1. CommitInv => CommittedIsDurable
    <2> SUFFICES ASSUME CommitInv PROVE CommittedIsDurable
      OBVIOUS
    <2>1. WalInv /\ LogIsSafe
      BY DEF CommitInv, WithinInv
    <2>20. PICK c \in Lsns, gen \in DOMAIN Conf :
            \E g : Durable(g, c, gen) /\ committed = WalOf(g, StartLsn, c)
      BY <2>1 DEF LogIsSafe
    <2>2. PICK g : Durable(g, c, gen) /\ committed = WalOf(g, StartLsn, c)
      BY <2>20
    <2>3. PICK Q \in SUBSET Safekeepers : HasQuorum(gen, Q) /\ \A s \in Q : Protects(g, c, s)
      BY <2>2 DEF Durable
    <2> DEFINE R == {s \in Safekeepers : IsPrefix(committed, WalUpTo(s, flushLsn[s]))}
    <2>4. Q \subseteq R
      BY <2>1, <2>2, <2>3, ProtectedOnDisk DEF Durable
    <2>5. HasQuorum(gen, R) /\ R \in SUBSET Safekeepers
      BY <2>3, <2>4, MoreHasQuorum
    <2>6. HasQuorum(1, R)
      BY <2>5 DEF FirstMembersStay
    <2> QED BY <2>6 DEF CommittedIsDurable
  <1> QED BY <1>1, CommitInvHolds, PTL

\* What an elected walproposer has committed is on the disks of a quorum of its own
\* configuration, of both member sets of a joint one.
THEOREM CommitsHaveTheirQuorum == QuorumsIntersect => (Spec => []CommitHasItsQuorum)
PROOF
  <1> SUFFICES ASSUME QuorumsIntersect PROVE Spec => []CommitHasItsQuorum
    OBVIOUS
  <1>1. CommitInv => CommitHasItsQuorum
    <2> SUFFICES ASSUME CommitInv, NEW p \in Proposers, wp[p].state = "ELECTED", wp[p].commit # 0
                 PROVE  HasQuorum(wp[p].gen,
                          {s \in Safekeepers : IsPrefix(WalOf(wp[p].hist, StartLsn, wp[p].commit),
                                                        WalUpTo(s, flushLsn[s]))})
      BY DEF CommitHasItsQuorum
    <2> DEFINE c == wp[p].commit
               g == wp[p].hist
               R == {s \in Safekeepers : IsPrefix(WalOf(g, StartLsn, c), WalUpTo(s, flushLsn[s]))}
    <2>1. WalInv /\ LeadersCommit /\ WalProposerOK
      BY Parts DEF CommitInv, WithinInv, WalInv, AckInv, HistoryInv, ElectionInv
    <2>2. wp[p] \in ProposerRecords /\ ProposerPhase(wp[p])
      BY <2>1, ConfAssumption, OneRecord
    <2>3. c \in Lsns /\ wp[p].gen \in DOMAIN Conf
      BY <2>2, ProposerFacts, OptRanges DEF ProposerPhase
    <2>4. Durable(g, c, wp[p].gen)
      BY <2>1, <2>3 DEF LeadersCommit
    <2>5. PICK Q \in SUBSET Safekeepers : HasQuorum(wp[p].gen, Q) /\ \A s \in Q : Protects(g, c, s)
      BY <2>4 DEF Durable
    <2>6. Q \subseteq R
      BY <2>1, <2>3, <2>4, <2>5, ProtectedOnDisk DEF Durable
    <2>7. HasQuorum(wp[p].gen, R)
      BY <2>3, <2>5, <2>6, MoreHasQuorum
    <2> QED BY <2>7
  <1> QED BY <1>1, CommitInvHolds, PTL

\* The walproposer of the highest term that has been won has all the committed WAL,
\* as far as it has any WAL: also what others commit while it is being elected.
THEOREM ElectedHaveCommitted == QuorumsIntersect => (Spec => []ElectedHasCommitted)
PROOF
  <1> SUFFICES ASSUME QuorumsIntersect PROVE Spec => []ElectedHasCommitted
    OBVIOUS
  <1>1. CommitInv => ElectedHasCommitted
    <2> SUFFICES ASSUME CommitInv, NEW p \in Proposers, wp[p].state = "ELECTED",
                        \A w \in won : w[2] <= wp[p].term
                 PROVE  IsPrefix(committed, WalOf(wp[p].hist, StartLsn, wp[p].avail))
      BY DEF ElectedHasCommitted
    <2> DEFINE h == wp[p].hist
               t == wp[p].term
               a == wp[p].avail
    <2>1. /\ TypeOK /\ HistoryInv /\ KnownAreSound /\ LogIsSafe /\ WithinAvail
      BY DEF CommitInv, WithinInv, WalInv, AckInv, HistoryInv, ElectionInv
    <2>20. PICK c \in Lsns, gen \in DOMAIN Conf :
            \E g : Durable(g, c, gen) /\ committed = WalOf(g, StartLsn, c)
      BY <2>1 DEF LogIsSafe
    <2>2. PICK g : Durable(g, c, gen) /\ committed = WalOf(g, StartLsn, c)
      BY <2>20
    <2>3. IsKnown(h) /\ WellFormed(h) /\ TermsWon(h)
      BY <2>1 DEF IsKnown, KnownAreSound
    <2>4. PICK x \in Safekeepers : TRUE
      BY ConfAssumption
    <2>5. /\ t \in Int /\ t \in Nat /\ HighestTerm(h) = t /\ a \in Int /\ a \in Lsns
          /\ wp[p].start \in Int /\ wp[p].start <= a
      BY <2>1, <2>4, LeaderNumbers, Ranges DEF WithinAvail
    <2>6. WellFormed(g) /\ Outlasts(g, c) /\ c \in Int /\ HighestTerm(g) \in Int
      BY <2>2, HistoryTerm, Ranges DEF Durable, Outlasts, Rooted
    <2>7. ASSUME NEW u, Won(u) PROVE u <= t
      <3>1. PICK q \in Proposers : <<q, u>> \in won
        BY <2>7 DEF Won
      <3>2. <<q, u>>[2] = u
        OBVIOUS
      <3> QED BY <3>1, <3>2
    <2>8. HighestTerm(g) <= t
      BY <2>5, <2>6, <2>7 DEF Outlasts, Rooted
    <2>9. Covers(h, g, c)
      BY <2>3, <2>5, <2>6, <2>8 DEF Outlasts, Shared
    <2>10. c <= a
      <3>1. Len(g) \in Nat /\ Len(h) \in Nat /\ Len(g) >= 1 /\ Len(h) >= 1 /\ Len(g) <= Len(h)
        BY <2>3, <2>6, <2>9, WellFormedFacts DEF Covers
      <3>2. CASE Len(g) < Len(h)
        <4>1. h[Len(g) + 1].lsn >= c
          BY <2>9, <3>2 DEF Covers
        <4>2. Len(g) + 1 \in 1..Len(h) /\ Len(h) \in 1..Len(h)
          BY <3>1, <3>2
        <4>3. h[Len(g) + 1].lsn <= h[Len(h)].lsn
          BY <2>3, <3>1, <3>2, <4>2, WellFormedFacts
        <4>4. h[Len(h)].lsn = wp[p].start
          <5>1. Last(h) = h[Len(h)]
            BY <2>3, WellFormedFacts
          <5>2. Last(h).lsn = wp[p].start
            BY DEF CommitInv, WithinInv, WalInv, DonorsStand, DonorStands
          <5> QED BY <5>1, <5>2
        <4>5. h[Len(g) + 1].lsn \in Int /\ h[Len(h)].lsn \in Int
          BY <2>3, <4>2, WellFormedFacts
        <4> QED BY <2>5, <2>6, <4>1, <4>3, <4>4, <4>5, SMTT(60)
      <3>3. CASE Len(g) = Len(h)
        <4>1. HighestTerm(g) = t
          BY <2>3, <2>5, <2>6, <2>9, <3>3, CoversTermOrder, WellFormedFacts
        <4>2. PICK Q \in SUBSET Safekeepers : HasQuorum(gen, Q) /\ \A s \in Q : Protects(g, c, s)
          BY <2>2 DEF Durable
        <4>3. PICK s \in Q : TRUE
          BY <2>2, <4>2 DEF QuorumsIntersect
        <4> DEFINE f == cf[s].hist
        <4>4. s \in Safekeepers /\ flushLsn[s] >= c /\ HighestTerm(f) >= t
          BY <4>1, <4>2, <4>3 DEF Protects, Holds
        <4>5. IsKnown(f) /\ WellFormed(f) /\ TermsWon(f)
          BY <2>1, <4>4 DEF IsKnown, KnownAreSound
        <4>6. HighestTerm(f) \in Int /\ HighestTerm(f) <= t
          <5>1. HighestTerm(f) \in Int /\ HighestTerm(f) = f[Len(f)].term /\ Len(f) \in 1..Len(f)
            BY <4>5, HistoryTerm, WellFormedFacts
          <5> QED BY <2>5, <2>7, <4>5, <5>1, SMTT(60) DEF TermsWon
        <4>7. HighestTerm(f) = t
          BY <2>5, <4>4, <4>6
        <4>8. WriteLsn(s) <= a
          BY <2>1, <4>4, <4>7 DEF WithinAvail, Within
        <4>9. flushLsn[s] <= WriteLsn(s) /\ flushLsn[s] \in Int /\ WriteLsn(s) \in Int
          BY <2>1, <4>4, Parts, SafekeeperFacts, SafekeeperNumbers
        <4> QED BY <2>5, <2>6, <4>4, <4>8, <4>9
      <3> QED BY <3>1, <3>2, <3>3
    <2> DEFINE b == WalOf(h, StartLsn, a)
    <2>11. /\ committed \in Seq(Terms) /\ Len(committed) = c - StartLsn /\ StartLsn \in Int
           /\ \A i \in 1..(c - StartLsn) : committed[i] = TermAt(g, StartLsn + i - 1)
      BY <2>2, <2>6, WalOfFacts
    <2>12. /\ b \in Seq(Terms) /\ Len(b) = a - StartLsn
           /\ \A i \in 1..(a - StartLsn) : b[i] = TermAt(h, StartLsn + i - 1)
      BY <2>3, <2>5, WalOfFacts
    <2> HIDE DEF b, a, h
    <2>13. Len(committed) <= Len(b)
      BY <2>5, <2>6, <2>10, <2>11, <2>12
    <2>14. ASSUME NEW i \in 1..Len(committed) PROVE committed[i] = b[i]
      <3>1. i \in 1..(c - StartLsn) /\ i \in 1..(a - StartLsn)
        BY <2>5, <2>6, <2>10, <2>11
      <3> DEFINE l == StartLsn + i - 1
      <3>2. l \in Int /\ l < c
        BY <2>6, <2>11, <3>1
      <3> HIDE DEF l
      <3>3. TermAt(h, l) = TermAt(g, l)
        BY <2>3, <2>6, <2>9, <3>2, CoversTerms
      <3> QED BY <2>11, <2>12, <3>1, <3>3 DEF l
    <2>15. IsPrefix(committed, b)
      BY <2>11, <2>12, <2>13, <2>14, PrefixByUnits
    <2> QED BY <2>15 DEF b, a, h
  <1> QED BY <1>1, CommitInvHolds, PTL

-----------------------------------------------------------------------------
(* What becomes of commit_lsn and peer_horizon_lsn of safekeepers *)

\* What s has in the control file is what it had there or in memory.
SavedCommit(s, file) == file.commit = cf[s].commit \/ file.commit = inmem[s].commit
SavedHorizon(s, file) == file.horizon = cf[s].horizon \/ file.horizon = inmem[s].horizon

\* An AppendRequest that s accepts, or a peer whose WAL ends in the same term, says that
\* WAL is committed up to c.
Tells(s, c) ==
  \/ \E k \in Kinds, p \in Proposers :
       /\ FirstMessage(k, p, s, "AppendRequest") /\ Appends(s, Message(k, p, s))
       /\ Message(k, p, s).commit = c /\ c # 0
  \/ \E peer \in Safekeepers :
       /\ broker[peer].commit = c /\ broker[peer].lastLogTerm = LastLogTerm(cf[s].hist, flushLsn[s])
       /\ cf'[s].hist = cf[s].hist /\ wal'[s] = wal[s] /\ flushLsn'[s] = flushLsn[s]

\* commit_lsn stays, is read from the control file after a crash, or goes up.
CommitLsnMove(s) ==
  \/ /\ SavedCommit(s, cf'[s])
     /\ inmem'[s].commit = inmem[s].commit \/ inmem'[s].commit = cf'[s].commit
  \/ \E c \in Lsns :
       /\ Tells(s, c) /\ inmem'[s].commit = NewCommitLsn(s, c, flushLsn'[s])
       /\ cf'[s].commit = cf[s].commit \/ cf'[s].commit = inmem'[s].commit

\* peer_horizon_lsn stays, is read from the control file after a crash, or comes with an
\* AppendRequest or from a peer; record_safekeeper_info may save it at once.
HorizonCame(s) ==
  /\ SavedHorizon(s, cf'[s]) \/ \E peer \in Safekeepers : cf'[s].horizon = broker[peer].horizon
  /\ \/ inmem'[s].horizon = inmem[s].horizon \/ inmem'[s].horizon = cf'[s].horizon
     \/ \E k \in Kinds, p \in Proposers :
          /\ FirstMessage(k, p, s, "AppendRequest") /\ Message(k, p, s).truncate # 0
          /\ inmem'[s].horizon = Message(k, p, s).truncate
     \/ \E peer \in Safekeepers : inmem'[s].horizon = broker[peer].horizon

OthersRest(s) ==
  \A x \in Safekeepers :
    x = s \/ (cf'[x] = cf[x] /\ inmem'[x] = inmem[x] /\ wal'[x] = wal[x] /\ flushLsn'[x] = flushLsn[x])

LsnMove(s) == CommitLsnMove(s) /\ HorizonCame(s) /\ OthersRest(s)

\* Only s changes.
LEMMA TheOthersRest ==
  ASSUME SafekeeperTypeOK, NEW s \in Safekeepers, NEW c, NEW im, NEW w, NEW f,
         cf' = [cf EXCEPT ![s] = c], inmem' = [inmem EXCEPT ![s] = im],
         wal' = [wal EXCEPT ![s] = w], flushLsn' = [flushLsn EXCEPT ![s] = f]
  PROVE  OthersRest(s)
PROOF
  <1>1. ASSUME NEW x \in Safekeepers, x # s
        PROVE  cf'[x] = cf[x] /\ inmem'[x] = inmem[x] /\ wal'[x] = wal[x] /\ flushLsn'[x] = flushLsn[x]
    BY <1>1 DEF SafekeeperTypeOK
  <1> QED BY <1>1 DEF OthersRest

\* Control files that are written with the LSNs known before.
LEMMA FilesSaved ==
  ASSUME SafekeeperTypeOK, NEW s \in Safekeepers
  PROVE  /\ SavedCommit(s, cf[s]) /\ SavedHorizon(s, cf[s])
         /\ SavedCommit(s, StartChange(s)) /\ SavedHorizon(s, StartChange(s))
         /\ \A t \in Terms : SavedCommit(s, RaisedTerm(s, t)) /\ SavedHorizon(s, RaisedTerm(s, t))
         /\ \A g : LET c == [StartChange(s) EXCEPT !.gen = g]
                   IN  SavedCommit(s, c) /\ SavedHorizon(s, c)
         /\ \A l : LET c == FlushedCommit(s, l)
                   IN  (c.commit = cf[s].commit \/ c.commit = l) /\ SavedHorizon(s, c)
PROOF
  <1>1. cf[s] \in ControlFiles
    BY SafekeeperFacts
  <1>2. /\ StartChange(s) \in ControlFiles
        /\ StartChange(s).commit = inmem[s].commit /\ StartChange(s).horizon = inmem[s].horizon
    BY <1>1, StartChangeType DEF StartChange, ControlFiles
  <1>3. SavedCommit(s, StartChange(s)) /\ SavedHorizon(s, StartChange(s))
    BY <1>2 DEF SavedCommit, SavedHorizon
  <1>4. SavedCommit(s, cf[s]) /\ SavedHorizon(s, cf[s])
    BY DEF SavedCommit, SavedHorizon
  <1>5. ASSUME NEW t \in Terms
        PROVE  SavedCommit(s, RaisedTerm(s, t)) /\ SavedHorizon(s, RaisedTerm(s, t))
    <2> DEFINE c == [StartChange(s) EXCEPT !.term = t]
    <2>1. c.commit = inmem[s].commit /\ c.horizon = inmem[s].horizon
      BY <1>2 DEF ControlFiles
    <2>2. RaisedTerm(s, t) = c \/ RaisedTerm(s, t) = cf[s]
      BY DEF RaisedTerm
    <2> HIDE DEF c
    <2> QED BY <2>1, <2>2 DEF SavedCommit, SavedHorizon
  <1>6. ASSUME NEW g
        PROVE  LET c == [StartChange(s) EXCEPT !.gen = g]
               IN  SavedCommit(s, c) /\ SavedHorizon(s, c)
    <2> DEFINE c == [StartChange(s) EXCEPT !.gen = g]
    <2>1. c.commit = inmem[s].commit /\ c.horizon = inmem[s].horizon
      BY <1>2 DEF ControlFiles
    <2> HIDE DEF c
    <2>2. SavedCommit(s, c) /\ SavedHorizon(s, c)
      BY <2>1 DEF SavedCommit, SavedHorizon
    <2> QED BY <2>2 DEF c
  <1>7. ASSUME NEW l
        PROVE  LET c == FlushedCommit(s, l)
               IN  (c.commit = cf[s].commit \/ c.commit = l) /\ SavedHorizon(s, c)
    <2> DEFINE c == [StartChange(s) EXCEPT !.commit = l]
    <2>1. c.commit = l /\ c.horizon = inmem[s].horizon
      BY <1>2 DEF ControlFiles
    <2>2. FlushedCommit(s, l) = c \/ FlushedCommit(s, l) = cf[s]
      BY DEF FlushedCommit
    <2> HIDE DEF c
    <2> QED BY <2>1, <2>2 DEF SavedHorizon
  <1> QED BY <1>3, <1>4, <1>5, <1>6, <1>7

\* Nothing in memory changes.
LEMMA MemoryStays ==
  ASSUME SafekeeperTypeOK, NEW s \in Safekeepers, NEW c, NEW f,
         SavedCommit(s, c), SavedHorizon(s, c), cf' = [cf EXCEPT ![s] = c],
         UNCHANGED <<inmem, wal>>, flushLsn' = [flushLsn EXCEPT ![s] = f]
  PROVE  LsnMove(s)
PROOF
  <1>1. inmem' = [inmem EXCEPT ![s] = inmem[s]] /\ wal' = [wal EXCEPT ![s] = wal[s]]
    BY DEF SafekeeperTypeOK
  <1>2. cf'[s] = c /\ inmem'[s] = inmem[s]
    BY <1>1 DEF SafekeeperTypeOK
  <1>20. OthersRest(s)
    BY <1>1, TheOthersRest
  <1> QED BY <1>2, <1>20 DEF LsnMove, CommitLsnMove, HorizonCame

\* Only the control file changes.
LEMMA FileLsns ==
  ASSUME SafekeeperTypeOK, NEW s \in Safekeepers, NEW c,
         SavedCommit(s, c), SavedHorizon(s, c), cf' = [cf EXCEPT ![s] = c],
         UNCHANGED <<inmem, wal, flushLsn>>
  PROVE  LsnMove(s)
PROOF
  <1>1. flushLsn' = [flushLsn EXCEPT ![s] = flushLsn[s]]
    BY DEF SafekeeperTypeOK
  <1> QED BY <1>1, MemoryStays

\* membership_switch
LEMMA MembershipLsns ==
  ASSUME SafekeeperTypeOK, NEW s \in Safekeepers, NEW gen, MembershipSwitch(s, gen)
  PROVE  LsnMove(s)
PROOF
  <1>1. \/ cf' = [cf EXCEPT ![s] = cf[s]]
        \/ cf' = [cf EXCEPT ![s] = [StartChange(s) EXCEPT !.gen = gen]]
    BY DEF MembershipSwitch, SafekeeperTypeOK
  <1>2. UNCHANGED <<inmem, wal, flushLsn>>
    BY DEF MembershipSwitch
  <1>3. /\ SavedCommit(s, cf[s]) /\ SavedHorizon(s, cf[s])
        /\ SavedCommit(s, [StartChange(s) EXCEPT !.gen = gen])
        /\ SavedHorizon(s, [StartChange(s) EXCEPT !.gen = gen])
    BY FilesSaved
  <1> QED BY <1>1, <1>2, <1>3, FileLsns

\* handle_vote_request, handle_flush and the error paths of handle_elected
LEMMA QuietLsns ==
  ASSUME SafekeeperTypeOK, NEW s \in Safekeepers, NEW m,
         \/ m.term \in Terms /\ (HandleVoteRequest(s, m) \/ RefuseElected(s, m))
         \/ HandleFlush(s)
  PROVE  LsnMove(s)
PROOF
  <1>1. SavedCommit(s, cf[s]) /\ SavedHorizon(s, cf[s])
    BY FilesSaved
  <1>2. m.term \in Terms => SavedCommit(s, RaisedTerm(s, m.term)) /\ SavedHorizon(s, RaisedTerm(s, m.term))
    BY FilesSaved
  <1>3. CASE m.term \in Terms /\ HandleVoteRequest(s, m)
    <2>1. UNCHANGED <<inmem, wal>> /\ flushLsn' = [flushLsn EXCEPT ![s] = WriteLsn(s)]
      BY <1>3 DEF HandleVoteRequest
    <2>2. cf' = [cf EXCEPT ![s] = RaisedTerm(s, m.term)]
      BY <1>3 DEF HandleVoteRequest
    <2> QED BY <1>2, <1>3, <2>1, <2>2, MemoryStays
  <1>4. CASE m.term \in Terms /\ RefuseElected(s, m)
    <2>1. UNCHANGED <<inmem, wal, flushLsn>>
      BY <1>4 DEF RefuseElected
    <2>2. cf' = [cf EXCEPT ![s] = cf[s]] \/ cf' = [cf EXCEPT ![s] = RaisedTerm(s, m.term)]
      BY <1>4 DEF RefuseElected, SafekeeperTypeOK
    <2> QED BY <1>1, <1>2, <1>4, <2>1, <2>2, FileLsns
  <1>5. CASE HandleFlush(s)
    <2>1. UNCHANGED <<inmem, wal>> /\ flushLsn' = [flushLsn EXCEPT ![s] = WriteLsn(s)]
      BY <1>5 DEF HandleFlush
    <2>2. cf' = [cf EXCEPT ![s] = cf[s]]
      BY <1>5 DEF HandleFlush, SafekeeperTypeOK
    <2> QED BY <1>1, <2>1, <2>2, MemoryStays
  <1> QED BY <1>3, <1>4, <1>5

\* handle_elected
LEMMA AdoptLsns ==
  ASSUME SafekeeperTypeOK, NEW s \in Safekeepers, NEW m, AdoptElected(s, m)
  PROVE  LsnMove(s)
PROOF
  <1> DEFINE commit == Higher(inmem[s].commit, StartLsn)
             w == SubSeq(wal[s], 1, m.start - StartLsn)
             c == [StartChange(s) EXCEPT !.term = m.term, !.commit = commit, !.hist = m.hist]
             im == [inmem[s] EXCEPT !.commit = commit]
  <1>1. StartChange(s) \in ControlFiles /\ inmem[s] \in InMemStates
    BY StartChangeType, SafekeeperFacts
  <1>2. commit = inmem[s].commit
    <2>1. inmem[s].commit \in Lsns
      BY <1>1 DEF InMemStates
    <2>2. inmem[s].commit \in Int /\ StartLsn <= inmem[s].commit /\ StartLsn \in Int
      BY <2>1, LsnRange, Ranges
    <2> QED BY <2>2 DEF Higher
  <1>3. StartChange(s).horizon = inmem[s].horizon
    BY SafekeeperFacts DEF StartChange, ControlFiles
  <1> HIDE DEF commit
  <1>4. /\ c.commit = commit /\ c.horizon = inmem[s].horizon
        /\ im.commit = commit /\ im.horizon = inmem[s].horizon
    BY <1>1, <1>3 DEF ControlFiles, InMemStates
  <1>5. /\ cf' = [cf EXCEPT ![s] = c] /\ inmem' = [inmem EXCEPT ![s] = im]
        /\ wal' = [wal EXCEPT ![s] = w] /\ flushLsn' = [flushLsn EXCEPT ![s] = m.start]
    BY DEF AdoptElected, commit
  <1> HIDE DEF c, im, w
  <1>6. cf'[s] = c /\ inmem'[s] = im
    BY <1>5 DEF SafekeeperTypeOK
  <1>60. OthersRest(s)
    BY <1>5, TheOthersRest
  <1> QED BY <1>2, <1>4, <1>6, <1>60
      DEF LsnMove, CommitLsnMove, HorizonCame, SavedCommit, SavedHorizon

\* A restart.
LEMMA RestartLsns ==
  ASSUME SafekeeperTypeOK, NEW s \in Safekeepers, NEW c, NEW lsn, RestartWith(s, c, lsn),
         SavedCommit(s, c), SavedHorizon(s, c)
  PROVE  LsnMove(s)
PROOF
  <1> DEFINE im == [commit |-> c.commit, horizon |-> c.horizon]
             w == SubSeq(wal[s], 1, lsn - StartLsn)
  <1>1. /\ cf' = [cf EXCEPT ![s] = c] /\ inmem' = [inmem EXCEPT ![s] = im]
        /\ wal' = [wal EXCEPT ![s] = w] /\ flushLsn' = [flushLsn EXCEPT ![s] = lsn]
    BY DEF RestartWith
  <1>2. im.horizon = c.horizon /\ im.commit = c.commit
    OBVIOUS
  <1> HIDE DEF im, w
  <1>3. cf'[s] = c /\ inmem'[s] = im
    BY <1>1 DEF SafekeeperTypeOK
  <1>30. OthersRest(s)
    BY <1>1, TheOthersRest
  <1> QED BY <1>2, <1>3, <1>30 DEF LsnMove, CommitLsnMove, HorizonCame

\* handle_append_request
LEMMA AppendLsns ==
  ASSUME SafekeeperTypeOK, NEW s \in Safekeepers, NEW k \in Kinds, NEW p \in Proposers,
         FirstMessage(k, p, s, "AppendRequest"), Message(k, p, s) \in ToSafekeeper,
         HandleAppendRequest(s, Message(k, p, s)), Appends(s, Message(k, p, s))
  PROVE  LsnMove(s)
PROOF
  <1> DEFINE m == Message(k, p, s)
             flush == FlushedBySegments(s, m.begin + Len(m.wal))
             commit == IF m.commit = 0 THEN inmem[s].commit ELSE NewCommitLsn(s, m.commit, flush)
             c == IF m.commit = 0 THEN cf[s] ELSE FlushedCommit(s, commit)
             w == wal[s] \o m.wal
             im == [commit |-> commit, horizon |-> Higher(inmem[s].horizon, m.truncate)]
  <1>1. m.commit \in OptLsns /\ m.truncate \in OptLsns
    <2>1. m.type = "AppendRequest"
      BY DEF FirstMessage, Message
    <2> QED BY <2>1, MessageFacts
  <1>2. /\ wal' = [wal EXCEPT ![s] = w] /\ flushLsn' = [flushLsn EXCEPT ![s] = flush]
        /\ inmem' = [inmem EXCEPT ![s] = im]
        /\ cf' = IF m.commit = 0 THEN cf ELSE [cf EXCEPT ![s] = FlushedCommit(s, commit)]
    BY DEF HandleAppendRequest
  <1>3. cf' = [cf EXCEPT ![s] = c]
    BY <1>2 DEF SafekeeperTypeOK
  <1>4. im.commit = commit /\ im.horizon = Higher(inmem[s].horizon, m.truncate)
    OBVIOUS
  <1>5. /\ SavedHorizon(s, c)
        /\ m.commit = 0 => c = cf[s]
        /\ m.commit # 0 => c.commit = cf[s].commit \/ c.commit = commit
    <2> HIDE DEF commit
    <2> QED BY FilesSaved
  <1>6. /\ m.commit = 0 => commit = inmem[s].commit
        /\ m.commit # 0 => commit = NewCommitLsn(s, m.commit, flush)
    OBVIOUS
  <1> HIDE DEF c, im, w, flush, commit
  <1>7. cf'[s] = c /\ inmem'[s] = im /\ flushLsn'[s] = flush
    BY <1>2, <1>3 DEF SafekeeperTypeOK
  <1>70. OthersRest(s)
    BY <1>2, <1>3, TheOthersRest
  <1>8. HorizonCame(s)
    <2>1. m.truncate \in Int /\ inmem[s].horizon \in Lsns /\ inmem[s].horizon \in Nat /\ inmem[s].horizon # 0
      BY <1>1, OptRanges, SafekeeperFacts, Ranges DEF InMemStates
    <2>2. \/ Higher(inmem[s].horizon, m.truncate) = inmem[s].horizon
          \/ Higher(inmem[s].horizon, m.truncate) = m.truncate /\ m.truncate # 0
      BY <2>1 DEF Higher
    <2>3. SavedHorizon(s, cf'[s]) /\ inmem'[s].horizon = Higher(inmem[s].horizon, m.truncate)
      BY <1>4, <1>5, <1>7
    <2>4. FirstMessage(k, p, s, "AppendRequest")
      OBVIOUS
    <2> QED BY <2>2, <2>3, <2>4 DEF HorizonCame
  <1>9. CommitLsnMove(s)
    <2>1. CASE m.commit = 0
      <3>1. cf'[s] = cf[s] /\ inmem'[s].commit = inmem[s].commit
        <4>1. c = cf[s] /\ commit = inmem[s].commit
          BY <1>5, <1>6, <2>1
        <4> QED BY <1>4, <1>7, <4>1
      <3> QED BY <3>1 DEF CommitLsnMove, SavedCommit
    <2>2. CASE m.commit # 0
      <3>1. m.commit \in Lsns /\ Tells(s, m.commit)
        BY <1>1, <2>2, OptRanges DEF Tells
      <3> QED BY <1>4, <1>5, <1>6, <1>7, <2>2, <3>1 DEF CommitLsnMove
    <2> QED BY <2>1, <2>2
  <1> QED BY <1>70, <1>8, <1>9 DEF LsnMove

\* record_safekeeper_info
LEMMA InfoLsns ==
  ASSUME SafekeeperTypeOK, NEW s \in Safekeepers, NEW peer \in Safekeepers,
         broker[peer].commit \in Lsns, broker[peer].horizon \in Lsns,
         RecordSafekeeperInfo(s, broker[peer])
  PROVE  LsnMove(s)
PROOF
  <1> DEFINE info == broker[peer]
  <1>1. PICK c, im :
          /\ InfoTaken(s, info, c, im)
          /\ cf' = [cf EXCEPT ![s] = c] /\ inmem' = [inmem EXCEPT ![s] = im]
          /\ UNCHANGED wal /\ UNCHANGED flushLsn /\ UNCHANGED termStart
    BY InfoIsTaken
  <1>2. /\ cf' = [cf EXCEPT ![s] = c] /\ inmem' = [inmem EXCEPT ![s] = im]
        /\ wal' = [wal EXCEPT ![s] = wal[s]] /\ flushLsn' = [flushLsn EXCEPT ![s] = flushLsn[s]]
    BY <1>1 DEF SafekeeperTypeOK
  <1>3. cf'[s] = c /\ inmem'[s] = im /\ wal'[s] = wal[s] /\ flushLsn'[s] = flushLsn[s]
    BY <1>1 DEF SafekeeperTypeOK
  <1>4. OthersRest(s)
    BY <1>2, TheOthersRest
  <1>5. CommitLsnMove(s)
    <2>1. CASE /\ im.commit = inmem[s].commit
               /\ c.commit = cf[s].commit \/ c.commit = inmem[s].commit
      BY <1>3, <2>1 DEF CommitLsnMove, SavedCommit
    <2>2. CASE /\ info.lastLogTerm = LastLogTerm(cf[s].hist, flushLsn[s])
               /\ im.commit = NewCommitLsn(s, info.commit, flushLsn[s])
               /\ c.commit = cf[s].commit \/ c.commit = im.commit
      <3>1. c.hist = cf[s].hist
        BY <1>1 DEF InfoTaken
      <3>2. Tells(s, info.commit)
        BY <1>3, <2>2, <3>1 DEF Tells
      <3>3. inmem'[s].commit = NewCommitLsn(s, info.commit, flushLsn'[s])
        BY <1>3, <2>2
      <3> QED BY <1>3, <2>2, <3>2, <3>3 DEF CommitLsnMove
    <2> QED BY <1>1, <2>1, <2>2 DEF InfoTaken
  <1>6. HorizonCame(s)
    <2>1. im.horizon = inmem[s].horizon \/ im.horizon = info.horizon
      BY <1>1 DEF InfoTaken, Higher
    <2>2. c.horizon = cf[s].horizon \/ c.horizon = inmem[s].horizon \/ c.horizon = im.horizon
      BY <1>1 DEF InfoTaken
    <2> QED BY <1>3, <2>1, <2>2 DEF HorizonCame, SavedHorizon
  <1> QED BY <1>4, <1>5, <1>6 DEF LsnMove

\* handle_vote_request, handle_elected, handle_append_request, handle_flush and their
\* error paths: s alone moves, or nobody does.
LEMMA MessageLsns ==
  ASSUME TypeOK, NEW k \in Kinds, NEW p \in Proposers, NEW s \in Safekeepers,
         ReceiveMessage(k, p, s) \/ FlushWal(k, p, s)
  PROVE  UNCHANGED skVars \/ LsnMove(s)
PROOF
  <1> DEFINE m == Message(k, p, s)
  <1>1. SafekeeperTypeOK
    BY Parts
  <1>2. ASSUME NEW t, FirstMessage(k, p, s, t) PROVE m \in ToSafekeeper /\ m.term \in Terms
    <2>1. m \in ToSafekeeper
      BY <1>2, MessageCame
    <2> QED BY <2>1, MessageFacts
  <1>3. CASE ReceiveVoteRequest(k, p, s)
    <2>1. FirstMessage(k, p, s, "VoteRequest") /\ HandleVoteRequest(s, m)
      BY <1>3 DEF ReceiveVoteRequest
    <2> QED BY <1>1, <1>2, <2>1, QuietLsns
  <1>4. CASE ReceiveElected(k, p, s)
    <2>1. AdoptElected(s, m) \/ UNCHANGED skVars
      BY <1>4 DEF ReceiveElected
    <2> QED BY <1>1, <2>1, AdoptLsns
  <1>5. CASE ReceiveAppend(k, p, s)
    <2>1. FirstMessage(k, p, s, "AppendRequest") /\ (HandleAppendRequest(s, m) \/ UNCHANGED skVars)
      BY <1>5 DEF ReceiveAppend
    <2>2. HandleAppendRequest(s, m) => Appends(s, m)
      BY <1>1, <1>2, <2>1, AppendMove
    <2> QED BY <1>1, <1>2, <2>1, <2>2, AppendLsns
  <1>6. CASE RefuseMessage(k, p, s)
    <2>1. (FirstMessage(k, p, s, "ProposerElected") /\ RefuseElected(s, m)) \/ UNCHANGED skVars
      BY <1>6 DEF RefuseMessage
    <2> QED BY <1>1, <1>2, <2>1, QuietLsns
  <1>7. CASE FlushWal(k, p, s)
    <2>1. HandleFlush(s)
      BY <1>7 DEF FlushWal
    <2> QED BY <1>1, <2>1, QuietLsns
  <1> QED BY <1>3, <1>4, <1>5, <1>6, <1>7 DEF ReceiveMessage

\* Everything else that safekeepers do.
LEMMA LocalLsns ==
  ASSUME TypeOK, NEW s \in Safekeepers,
         \/ PersistState(s) \/ BumpTerm(s) \/ SwitchMembership(s) \/ Crash(s)
         \/ \E peer \in Safekeepers : ReceiveInfo(s, peer)
         \/ \E p \in Proposers : Connect(p, s)
  PROVE  LsnMove(s)
PROOF
  <1>1. SafekeeperTypeOK
    BY Parts
  <1>2. CASE PersistState(s)
    <2>1. cf' = [cf EXCEPT ![s] = StartChange(s)] /\ UNCHANGED <<inmem, wal, flushLsn>>
      BY <1>2 DEF PersistState, SaveControlFile
    <2>2. SavedCommit(s, StartChange(s)) /\ SavedHorizon(s, StartChange(s))
      BY <1>1, FilesSaved
    <2> QED BY <1>1, <2>1, <2>2, FileLsns
  <1>3. CASE BumpTerm(s)
    <2> DEFINE t == cf[s].term + 1
    <2>1. cf' = [cf EXCEPT ![s] = RaisedTerm(s, t)] /\ UNCHANGED <<inmem, wal, flushLsn>>
      BY <1>3 DEF BumpTerm, TermBump
    <2>2. t \in Terms
      BY <1>1, <1>3, SafekeeperFacts, FileTermType, MaxTermAssumption DEF BumpTerm, Terms
    <2> HIDE DEF t
    <2>3. SavedCommit(s, RaisedTerm(s, t)) /\ SavedHorizon(s, RaisedTerm(s, t))
      BY <1>1, <2>2, FilesSaved
    <2> QED BY <1>1, <2>1, <2>3, FileLsns
  <1>4. CASE SwitchMembership(s)
    <2>1. MembershipSwitch(s, cf[s].gen + 1)
      BY <1>4 DEF SwitchMembership
    <2> QED BY <1>1, <2>1, MembershipLsns
  <1>5. ASSUME NEW p \in Proposers, Connect(p, s) PROVE LsnMove(s)
    <2>1. MembershipSwitch(s, wp[p].gen)
      BY <1>5 DEF Connect, HandleGreeting
    <2> QED BY <1>1, <2>1, MembershipLsns
  <1>6. ASSUME NEW peer \in Safekeepers, ReceiveInfo(s, peer) PROVE LsnMove(s)
    <2>1. RecordSafekeeperInfo(s, broker[peer])
      BY <1>6 DEF ReceiveInfo
    <2>2. broker[peer].commit \in Lsns /\ broker[peer].horizon \in Lsns
      BY DEF TypeOK
    <2> QED BY <1>1, <2>1, <2>2, InfoLsns
  <1>7. CASE Crash(s)
    <2>1. CASE CrashRestart(s)
      <3>1. PICK lsn \in flushLsn[s]..WriteLsn(s) : RestartWith(s, cf[s], lsn)
        BY <2>1 DEF CrashRestart
      <3>2. SavedCommit(s, cf[s]) /\ SavedHorizon(s, cf[s])
        BY <1>1, FilesSaved
      <3> QED BY <1>1, <3>1, <3>2, RestartLsns
    <2>2. ASSUME NEW k \in Kinds, NEW p \in Proposers, FirstMessage(k, p, s, "ProposerElected"),
                 CrashInElected(s, Message(k, p, s))
          PROVE  LsnMove(s)
      <3> DEFINE m == Message(k, p, s)
                 c == RaisedTerm(s, m.term)
      <3>1. PICK lsn \in m.start..WriteLsn(s) : RestartWith(s, c, lsn)
        BY <2>2 DEF CrashInElected
      <3>2. m.term \in Terms
        BY <2>2, MessageCame, MessageFacts
      <3>3. SavedCommit(s, c) /\ SavedHorizon(s, c)
        BY <1>1, <3>2, FilesSaved
      <3> HIDE DEF c
      <3> QED BY <1>1, <3>1, <3>3, RestartLsns
    <2> QED BY <1>7, <2>1, <2>2 DEF Crash
  <1> QED BY <1>2, <1>3, <1>4, <1>5, <1>6, <1>7

\* A step of a safekeeper commits nothing, and nothing else changes what safekeepers
\* have.
LEMMA LsnMoves ==
  ASSUME TypeOK, [Next]_vars
  PROVE  UNCHANGED skVars \/ (UNCHANGED committed /\ \E s \in Safekeepers : LsnMove(s))
PROOF
  <1>1. ASSUME NEW s \in Safekeepers, SafekeeperStep(s) \/ PersistState(s) \/ Publish(s)
        PROVE  UNCHANGED skVars \/ (UNCHANGED committed /\ LsnMove(s))
    <2>1. UNCHANGED committed
      BY <1>1 DEF SafekeeperStep, PersistState, Publish, ReceiveMessage, FlushWal, ReceiveInfo,
        ReceiveVoteRequest, ReceiveElected, ReceiveAppend, RefuseMessage, history
    <2>2. CASE SafekeeperStep(s)
      BY <2>1, <2>2, MessageLsns, LocalLsns DEF SafekeeperStep
    <2>3. CASE PersistState(s)
      BY <2>1, <2>3, LocalLsns
    <2>4. CASE Publish(s)
      BY <2>4 DEF Publish
    <2> QED BY <1>1, <2>2, <2>3, <2>4
  <1>2. ASSUME NEW s \in Safekeepers, Crash(s) \/ BumpTerm(s) \/ SwitchMembership(s)
        PROVE  UNCHANGED committed /\ LsnMove(s)
    <2>1. UNCHANGED committed
      BY <1>2 DEF Crash, BumpTerm, SwitchMembership, history
    <2> QED BY <1>2, <2>1, LocalLsns
  <1>3. ASSUME NEW p \in Proposers, NEW s \in Safekeepers, Connect(p, s)
        PROVE  UNCHANGED committed /\ LsnMove(s)
    <2>1. UNCHANGED committed
      BY <1>3 DEF Connect, history
    <2> QED BY <1>3, <2>1, LocalLsns
  <1>4. ASSUME NEW p \in Proposers, NEW s \in Safekeepers,
               \/ SendWal(p, s) \/ Heartbeat(p, s) \/ NoticeClosed(p, s)
               \/ Disconnect(p, s) \/ LoseStale(p, s) \/ ReceiveAnswer(p, s) \/ Kill(p) \/ NewWal(p)
        PROVE  UNCHANGED skVars
    BY <1>4 DEF SendWal, Heartbeat, NoticeClosed, Disconnect, LoseStale, ReceiveAnswer,
      ReceiveGreeting, ReceiveVote, BecomeElected, ReceiveAppendResponse, Fatal, SendAppend, Kill, NewWal
  <1>5. PICK x \in Safekeepers : TRUE
    BY ConfAssumption
  <1>6. CASE Next
    <2>1. ASSUME NEW p \in Proposers, ProposerStep(p)
          PROVE  UNCHANGED skVars \/ (UNCHANGED committed /\ \E s \in Safekeepers : LsnMove(s))
      BY <1>3, <1>4, <1>5, <2>1 DEF ProposerStep
    <2>2. ASSUME Failure
          PROVE  UNCHANGED skVars \/ (UNCHANGED committed /\ \E s \in Safekeepers : LsnMove(s))
      BY <1>2, <1>4, <1>5, <2>2 DEF Failure
    <2> QED BY <1>1, <1>4, <1>6, <2>1, <2>2 DEF Next
  <1> QED BY <1>6 DEF vars, skVars

\* What is published about a safekeeper is what was, or its state now.
LEMMA BrokerMoves ==
  ASSUME TypeOK, [Next]_vars
  PROVE  \A s \in Safekeepers : broker'[s] = broker[s] \/ broker'[s] = SafekeeperInfo(s)
PROOF
  <1>1. CASE UNCHANGED broker
    BY <1>1
  <1>2. ASSUME NEW s \in Safekeepers, SafekeeperStep(s) \/ PersistState(s)
        PROVE  UNCHANGED broker
    BY <1>2 DEF SafekeeperStep, PersistState, ReceiveMessage, FlushWal, ReceiveInfo,
        ReceiveVoteRequest, ReceiveElected, ReceiveAppend, RefuseMessage
  <1>3. ASSUME NEW s \in Safekeepers, Publish(s)
        PROVE  \A x \in Safekeepers : broker'[x] = broker[x] \/ broker'[x] = SafekeeperInfo(x)
    <2>1. broker' = [broker EXCEPT ![s] = SafekeeperInfo(s)]
      BY <1>3 DEF Publish
    <2>2. broker \in [Safekeepers -> [lastLogTerm : Terms, commit : Lsns, horizon : Lsns]]
      BY DEF TypeOK
    <2> QED BY <2>1, <2>2
  <1>4. ASSUME NEW p \in Proposers, ProposerStep(p) PROVE UNCHANGED broker
    BY <1>4 DEF ProposerStep, Connect, SendWal, NoticeClosed, Disconnect, ReceiveAnswer,
      ReceiveGreeting, ReceiveVote, BecomeElected, ReceiveAppendResponse, Fatal, SendAppend, NewWal
  <1>5. ASSUME NEW p \in Proposers, NEW s \in Safekeepers, Heartbeat(p, s) PROVE UNCHANGED broker
    BY <1>5 DEF Heartbeat, SendAppend
  <1>6. ASSUME Failure PROVE UNCHANGED broker
    BY <1>6 DEF Failure, Crash, BumpTerm, SwitchMembership, Kill, Disconnect, LoseStale
  <1>7. CASE UNCHANGED vars
    BY <1>7, <1>1 DEF vars
  <1> QED BY <1>1, <1>2, <1>3, <1>4, <1>5, <1>6, <1>7 DEF Next

-----------------------------------------------------------------------------
(* commit_lsn of safekeepers *)

\* History h says about the WAL below c what log says: it is all there.
Matches(h, log, c) ==
  /\ c <= StartLsn + Len(log)
  /\ \A l \in Int : StartLsn <= l /\ l < c => TermAt(h, l) = log[l - StartLsn + 1]

\* A longer log matches too, ...
LEMMA MatchesMore ==
  ASSUME NEW log \in Seq(Terms), NEW more \in Seq(Terms), IsPrefix(log, more),
         NEW h, NEW c \in Int, Matches(h, log, c)
  PROVE  Matches(h, more, c)
PROOF
  <1>1. StartLsn \in Int /\ Len(log) \in Nat /\ Len(more) \in Nat
    BY LsnAssumption
  <1>2. Len(log) <= Len(more) /\ \A i \in 1..Len(log) : more[i] = log[i]
    <2>1. Len(log) <= Len(more) /\ SubSeq(log, 1, Len(log)) = SubSeq(more, 1, Len(log))
      BY DEF IsPrefix
    <2>2. /\ \A i \in 1..Len(log) : SubSeq(log, 1, Len(log))[i] = log[i]
          /\ \A i \in 1..Len(log) : SubSeq(more, 1, Len(log))[i] = more[i]
      BY <1>1, <2>1, CutFacts
    <2> QED BY <2>1, <2>2
  <1>3. c <= StartLsn + Len(more)
    BY <1>1, <1>2 DEF Matches
  <1>4. ASSUME NEW l \in Int, StartLsn <= l, l < c
        PROVE  TermAt(h, l) = more[l - StartLsn + 1]
    <2>1. l - StartLsn + 1 \in 1..Len(log)
      BY <1>1, <1>4 DEF Matches
    <2>2. TermAt(h, l) = log[l - StartLsn + 1]
      BY <1>4 DEF Matches
    <2> QED BY <1>2, <2>1, <2>2
  <1> QED BY <1>3, <1>4 DEF Matches

\* ... and so does another history that describes the same WAL.
LEMMA MatchesOther ==
  ASSUME NEW log \in Seq(Terms), NEW h, NEW c \in Int, Matches(h, log, c),
         NEW n, NEW d \in Int, d <= c, \A l \in Int : l < d => TermAt(n, l) = TermAt(h, l)
  PROVE  Matches(n, log, d)
PROOF
  <1>1. StartLsn \in Int /\ Len(log) \in Nat
    BY LsnAssumption
  <1>2. d <= StartLsn + Len(log)
    BY <1>1 DEF Matches
  <1>3. ASSUME NEW l \in Int, StartLsn <= l, l < d
        PROVE  TermAt(n, l) = log[l - StartLsn + 1]
    BY <1>3 DEF Matches
  <1> QED BY <1>2, <1>3 DEF Matches

LogEnd == StartLsn + Len(committed)

\* A walproposer with this term has declared the WAL below c committed.
Backed(t, c) ==
  /\ c <= LogEnd
  /\ \E gen \in DOMAIN Conf : \E g : HighestTerm(g) = t /\ Durable(g, c, gen)

\* Histories with an entry of term t match the log below c, up to that entry.
Settled(t, c) ==
  /\ t = 0 \/ Won(t)
  /\ \A g : IsKnown(g) => \A j \in 1..Len(g) :
       g[j].term = t => Matches(SubSeq(g, 1, j), committed, c)

LeadersInLog == \A p \in Proposers : wp[p].commit <= LogEnd

AppendsBacked ==
  \A k \in Kinds, p \in Proposers, s \in Safekeepers : \A m \in ToSet(conn[k][p][s].queue) :
    m.type = "AppendRequest" /\ m.commit # 0 => Backed(m.term, m.commit)

PublishedSettled ==
  \A s \in Safekeepers : \A t, c :
    t = broker[s].lastLogTerm /\ c = broker[s].commit => Settled(t, c)

FilesInLog ==
  \A s \in Safekeepers :
    /\ cf[s].commit <= inmem[s].commit /\ inmem[s].commit <= flushLsn[s]
    /\ Matches(cf[s].hist, committed, inmem[s].commit)

ReplicaInv == CommitInv /\ LeadersInLog /\ AppendsBacked /\ PublishedSettled /\ FilesInLog

\* The log is that of a history which a quorum protects, and ends where it does.
LEMMA LogFacts ==
  ASSUME CommitInv
  PROVE  /\ committed \in Seq(Terms) /\ LogEnd \in Lsns /\ LogEnd \in Int /\ StartLsn <= LogEnd
         /\ \E gen \in DOMAIN Conf : \E g : Durable(g, LogEnd, gen) /\ Matches(g, committed, LogEnd)
PROOF
  <1>1. PICK c \in Lsns : \E gen \in DOMAIN Conf : \E g :
               Durable(g, c, gen) /\ committed = WalOf(g, StartLsn, c)
    BY DEF CommitInv, LogIsSafe
  <1>2. PICK gen \in DOMAIN Conf : \E g : Durable(g, c, gen) /\ committed = WalOf(g, StartLsn, c)
    BY <1>1
  <1>3. PICK g : Durable(g, c, gen) /\ committed = WalOf(g, StartLsn, c)
    BY <1>2
  <1>4. WellFormed(g)
    BY <1>3 DEF Durable, Outlasts, Rooted
  <1>5. /\ committed \in Seq(Terms) /\ Len(committed) = c - StartLsn
        /\ \A i \in 1..(c - StartLsn) : committed[i] = TermAt(g, StartLsn + i - 1)
        /\ c \in Int /\ StartLsn \in Int /\ StartLsn <= c
    BY <1>3, <1>4, WalOfFacts
  <1>6. LogEnd = c
    BY <1>5 DEF LogEnd
  <1>7. Matches(g, committed, c)
    <2>1. ASSUME NEW l \in Int, StartLsn <= l, l < c
          PROVE  TermAt(g, l) = committed[l - StartLsn + 1]
      <3>1. l - StartLsn + 1 \in 1..(c - StartLsn) /\ StartLsn + (l - StartLsn + 1) - 1 = l
        BY <1>5, <2>1
      <3> QED BY <1>5, <3>1
    <2> QED BY <1>5, <2>1 DEF Matches
  <1> QED BY <1>3, <1>5, <1>6, <1>7

\* What a quorum protects and has been declared committed matches the log.
LEMMA DurableMatches ==
  ASSUME QuorumsIntersect, CommitInv, NEW g, NEW c \in Lsns, NEW gen \in DOMAIN Conf,
         Durable(g, c, gen), c <= LogEnd
  PROVE  Matches(g, committed, c)
PROOF
  <1>0. HistoryInv /\ c \in Int
    BY LsnRange DEF CommitInv, WithinInv, WalInv, AckInv
  <1>1. committed \in Seq(Terms) /\ LogEnd \in Lsns /\ LogEnd \in Int
    BY LogFacts
  <1>2. PICK j \in DOMAIN Conf : \E h : Durable(h, LogEnd, j) /\ Matches(h, committed, LogEnd)
    BY LogFacts
  <1>3. PICK h : Durable(h, LogEnd, j) /\ Matches(h, committed, LogEnd)
    BY <1>2
  <1> DEFINE d == LogEnd
  <1>4. d \in Lsns /\ d \in Int /\ c <= d /\ Durable(h, d, j) /\ Matches(h, committed, d)
    BY <1>1, <1>3
  <1> HIDE DEF d
  <1>5. ASSUME NEW l \in Int, l < c
        PROVE  TermAt(g, l) = TermAt(h, l)
    <2>1. l < d
      BY <1>0, <1>4, <1>5
    <2> QED BY <1>0, <1>4, <1>5, <2>1, DurableAgree
  <1> QED BY <1>0, <1>1, <1>4, <1>5, MatchesOther


\* What an acknowledgement commits is in the log then.
LEMMA NewCommitInLog ==
  ASSUME CommitInv, NEW p \in Proposers, NEW s \in Safekeepers, Acknowledges(p, s),
         NEW c, c = Acknowledged(p, s, Answer(p, s)).commit, committed' \in Seq(Terms),
         LET log == WalOf(wp[p].hist, StartLsn, c)
         IN  committed' = IF Len(log) > Len(committed) THEN log ELSE committed
  PROVE  c <= LogEnd'
PROOF
  <1> DEFINE log == WalOf(wp[p].hist, StartLsn, c)
  <1>1. TypeOK
    BY DEF CommitInv, WithinInv, WalInv, AckInv, HistoryInv, ElectionInv
  <1>2. c \in OptLsns
    BY <1>1, NewCommitFacts
  <1>3. /\ LogEnd' = StartLsn + Len(committed') /\ StartLsn \in Int /\ StartLsn > 0
        /\ Len(committed') \in Nat
    BY LsnAssumption DEF LogEnd
  <1>4. CASE c = 0
    BY <1>3, <1>4
  <1>5. CASE c \in Lsns
    <2>1. Durable(wp[p].hist, c, wp[p].gen)
      BY <1>5, CommitIsDurable
    <2>2. WellFormed(wp[p].hist)
      BY <2>1 DEF Durable, Outlasts, Rooted
    <2>3. Len(log) = c - StartLsn /\ c \in Int
      BY <1>5, <2>2, WalOfFacts
    <2>4. Len(committed') >= Len(log)
      <3>1. committed \in Seq(Terms)
        BY LogFacts
      <3>2. Len(committed) \in Nat
        BY <3>1
      <3>3. committed' = IF Len(log) > Len(committed) THEN log ELSE committed
        OBVIOUS
      <3> HIDE DEF log
      <3> QED BY <2>3, <3>2, <3>3, <1>3
    <2> HIDE DEF log
    <2> QED BY <1>3, <2>3, <2>4
  <1> QED BY <1>2, <1>4, <1>5 DEF OptLsns

\* The end of the log does not go back.
LEMMA LogGrows ==
  ASSUME CommitInv, CommitInv', IsPrefix(committed, committed')
  PROVE  /\ committed \in Seq(Terms) /\ committed' \in Seq(Terms)
         /\ LogEnd \in Int /\ LogEnd' \in Int /\ LogEnd <= LogEnd' /\ LogEnd \in Lsns
PROOF
  <1>1. committed \in Seq(Terms) /\ LogEnd \in Int /\ LogEnd \in Lsns
    BY LogFacts
  <1>2. committed' \in Seq(Terms) /\ LogEnd' \in Int
    <2>1. TypeOK'
      BY DEF CommitInv, WithinInv, WalInv, AckInv, HistoryInv, ElectionInv
    <2>2. committed' \in Seq(Terms)
      BY <2>1 DEF TypeOK
    <2> QED BY <2>2, LsnAssumption DEF LogEnd
  <1>3. Len(committed) <= Len(committed')
    BY DEF IsPrefix
  <1> QED BY <1>1, <1>2, <1>3, LsnAssumption DEF LogEnd

\* commitLsn of walproposers is in the log.
LEMMA LeadersInLogStep ==
  ASSUME CommitInv, CommitInv', CommitMove, IsPrefix(committed, committed'), LeadersInLog
  PROVE  LeadersInLog'
PROOF
  <1>0. TypeOK /\ TypeOK'
    BY DEF CommitInv, WithinInv, WalInv, AckInv, HistoryInv, ElectionInv
  <1>1. /\ committed' \in Seq(Terms) /\ LogEnd \in Int /\ LogEnd' \in Int /\ LogEnd <= LogEnd'
    BY LogGrows
  <1>2. 0 <= LogEnd'
    BY <1>1, LsnAssumption DEF LogEnd
  <1>3. ASSUME NEW q \in Proposers, Unmoved(q)
        PROVE  wp'[q].commit <= LogEnd'
    <2>1. wp[q].commit \in OptLsns /\ wp[q].commit <= LogEnd
      <3>1. wp[q] \in ProposerRecords
        BY <1>0, Parts DEF WalProposerOK, WalProposerTypeOK
      <3> QED BY <3>1, ProposerFacts DEF LeadersInLog
    <2>2. wp[q].commit \in Int
      BY <2>1, OptRanges
    <2> QED BY <1>1, <1>2, <1>3, <2>1, <2>2 DEF Unmoved
  <1>4. ASSUME NEW p \in Proposers, NEW s \in Safekeepers, Commits(p, s)
        PROVE  wp'[p].commit <= LogEnd'
    <2> DEFINE w == Acknowledged(p, s, Answer(p, s))
    <2>1. w.commit <= LogEnd'
      BY <1>1, <1>4, NewCommitInLog DEF Commits
    <2>2. wp'[p] = w \/ wp'[p].commit = 0
      <3>1. Exited("SYNCED", wp[p].start).commit = 0
        BY DEF Exited, NewProposer
      <3> QED BY <1>4, <3>1 DEF Commits
    <2> HIDE DEF w
    <2> QED BY <1>2, <2>1, <2>2
  <1>5. ASSUME NEW q \in Proposers
        PROVE  wp'[q].commit <= LogEnd'
    <2>1. CASE \A x \in Proposers : Unmoved(x)
      BY <1>3, <2>1
    <2>2. ASSUME NEW p \in Proposers, NEW s \in Safekeepers, Commits(p, s)
          PROVE  wp'[q].commit <= LogEnd'
      <3>1. q # p => Unmoved(q)
        BY <2>2 DEF Commits
      <3> QED BY <1>3, <1>4, <2>2, <3>1
    <2> QED BY <2>1, <2>2 DEF CommitMove
  <1> QED BY <1>5 DEF LeadersInLog

\* What is backed stays so.
LEMMA BackedStays ==
  ASSUME QuorumsIntersect, CommitInv, CommitInv', Step, IsPrefix(committed, committed'),
         NEW t, NEW c \in Lsns, Backed(t, c)
  PROVE  Backed(t, c)'
PROOF
  <1>0. HistoryInv /\ ElectionInv' /\ c \in Int
    BY LsnRange DEF CommitInv, WithinInv, WalInv, AckInv, HistoryInv
  <1>1. LogEnd \in Int /\ LogEnd' \in Int /\ LogEnd <= LogEnd'
    BY LogGrows
  <1>2. PICK gen \in DOMAIN Conf : \E g : HighestTerm(g) = t /\ Durable(g, c, gen)
    BY DEF Backed
  <1>3. PICK g : HighestTerm(g) = t /\ Durable(g, c, gen)
    BY <1>2
  <1>4. Durable(g, c, gen)'
    BY <1>0, <1>3, DurableStays
  <1>5. c <= LogEnd'
    BY <1>0, <1>1 DEF Backed
  <1> QED BY <1>3, <1>4, <1>5 DEF Backed

\* An AppendRequest that is sent says what its sender has committed, now or with the
\* acknowledgement that ends sync-safekeepers.
LEMMA SentBacked ==
  ASSUME QuorumsIntersect, ReplicaInv, CommitInv', Step, IsPrefix(committed, committed'),
         NEW p \in Proposers, NEW s \in Safekeepers, NEW m \in ToSafekeeper,
         NewAppend(p, s, m), m.type = "AppendRequest", m.commit # 0
  PROVE  Backed(m.term, m.commit)'
PROOF
  <1> DEFINE c == m.commit
             g == wp[p].hist
             gen == wp[p].gen
  <1>0. HistoryInv /\ ElectionInv' /\ TypeOK /\ CommitInv
    BY DEF ReplicaInv, CommitInv, WithinInv, WalInv, AckInv, HistoryInv, ElectionInv
  <1>1. c \in Lsns /\ c \in Int
    <2>1. c \in OptLsns
      BY DEF ToSafekeeper
    <2> QED BY <2>1, LsnRange DEF OptLsns
  <1>2. /\ wp[p].state = "ELECTED" /\ gen \in DOMAIN Conf /\ m.term = wp[p].term
        /\ HighestTerm(g) = wp[p].term
    BY <1>0, Parts, ActiveFacts, LeaderNumbers DEF NewAppend
  <1>3. LogEnd \in Int /\ LogEnd' \in Int /\ LogEnd <= LogEnd' /\ committed' \in Seq(Terms)
    BY <1>0, LogGrows
  <1>4. Durable(g, c, gen) /\ c <= LogEnd'
    <2>1. CASE c = wp[p].commit
      <3>1. Durable(g, c, gen)
        BY <1>0, <1>1, <1>2, <2>1 DEF CommitInv, LeadersCommit
      <3>2. c <= LogEnd
        BY <2>1 DEF ReplicaInv, LeadersInLog
      <3> QED BY <1>1, <1>3, <3>1, <3>2
    <2>2. ASSUME NEW x \in Safekeepers, ReceiveAppendResponse(p, x), Acknowledges(p, x),
                 c = Acknowledged(p, x, Answer(p, x)).commit
          PROVE  Durable(g, c, gen) /\ c <= LogEnd'
      <3>1. Durable(g, c, gen)
        BY <1>0, <1>1, <2>2, CommitIsDurable
      <3>2. LET log == WalOf(g, StartLsn, c)
            IN  committed' = IF Len(log) > Len(committed) THEN log ELSE committed
        BY <2>2 DEF ReceiveAppendResponse, NowCommitted
      <3>3. c <= LogEnd'
        BY <1>0, <1>3, <2>2, <3>2, NewCommitInLog
      <3> QED BY <3>1, <3>3
    <2> HIDE DEF c
    <2>3. NewsOf(p, m)
      BY DEF NewAppend
    <2> QED BY <2>1, <2>2, <2>3 DEF NewsOf, c
  <1>5. \E h, i : h = g /\ i = gen
    OBVIOUS
  <1>6. PICK h, i : h = g /\ i = gen
    BY <1>5
  <1> HIDE DEF g, gen
  <1>7. Durable(h, m.commit, i)'
    BY <1>0, <1>1, <1>2, <1>4, <1>6, DurableStays
  <1>8. i \in DOMAIN Conf /\ HighestTerm(h) = m.term
    BY <1>2, <1>6
  <1> QED BY <1>4, <1>7, <1>8 DEF Backed

\* Every AppendRequest is backed.
LEMMA AppendsBackedStep ==
  ASSUME QuorumsIntersect, ReplicaInv, CommitInv', Step, IsPrefix(committed, committed')
  PROVE  AppendsBacked'
PROOF
  <1>0. TypeOK /\ TypeOK' /\ CommitInv /\ Moves
    BY DEF ReplicaInv, CommitInv, WithinInv, WalInv, AckInv, HistoryInv, ElectionInv,
           Step, QuietMove, WinMove
  <1>1. ASSUME NEW k \in Kinds, NEW p \in Proposers, NEW s \in Safekeepers,
               NEW m \in ToSet(conn[k][p][s].queue), m.type = "AppendRequest", m.commit # 0
        PROVE  Backed(m.term, m.commit)'
    <2>1. m \in ToSafekeeper
      BY <1>0, QueuedType
    <2>2. m.commit \in Lsns
      BY <1>1, <2>1 DEF ToSafekeeper, OptLsns
    <2>3. Backed(m.term, m.commit)
      BY <1>1 DEF ReplicaInv, AppendsBacked
    <2> QED BY <1>0, <2>2, <2>3, BackedStays
  <1>2. ASSUME NEW k \in Kinds, NEW p \in Proposers, NEW s \in Safekeepers,
               NEW m \in ToSet(conn'[k][p][s].queue), m.type = "AppendRequest", m.commit # 0
        PROVE  Backed(m.term, m.commit)'
    <2>1. CASE m \in ToSet(conn[k][p][s].queue)
      BY <1>1, <1>2, <2>1
    <2>2. CASE m \in ToSet(conn["live"][p][s].queue)
      BY <1>1, <1>2, <2>2 DEF Kinds
    <2>3. CASE m \in ToSafekeeper /\ NewMessage(p, s, m)
      <3>1. NewAppend(p, s, m)
        BY <1>0, <1>2, <2>3, SentMessages
      <3> QED BY <1>2, <2>3, <3>1, SentBacked
    <2> QED BY <1>0, <1>2, <2>1, <2>2, <2>3, QueueMoves
  <1> QED BY <1>2 DEF AppendsBacked


\* An entry that was in a history before, or the first entry that all have.
LEMMA EntryBefore ==
  ASSUME HistoryInv, HistoryInv', Step, NEW s \in Safekeepers, NEW g, IsKnown(g)',
         NEW j \in 1..Len(g), g[j].term = 0 \/ Won(g[j].term)
  PROVE  \E x : /\ IsKnown(x) /\ j \in 1..Len(x) /\ x[j].term = g[j].term
                /\ SubSeq(x, 1, j) = SubSeq(g, 1, j)
PROOF
  <1>0. ElectionInv' /\ KnownAreSound /\ KnownAreSound'
    BY DEF HistoryInv
  <1>1. CASE Won(g[j].term)
    BY <1>0, <1>1, KnownBefore
  <1>2. CASE g[j].term = 0
    <2> DEFINE x == cf[s].hist
    <2>1. IsKnown(x)
      BY DEF IsKnown
    <2>2. WellFormed(x) /\ WellFormed(g)
      BY <1>0, <2>1 DEF KnownAreSound
    <2> HIDE DEF x
    <2>3. /\ x \in Seq(TermSwitches) /\ g \in Seq(TermSwitches) /\ Len(x) \in Nat /\ Len(g) \in Nat
          /\ Len(x) >= 1 /\ Len(g) >= 1 /\ x[1].term = 0 /\ g[1].term = 0
          /\ \A i, k \in 1..Len(g) : i < k => g[i].term < g[k].term
      BY <2>2, WellFormedFacts
    <2>4. x[1] = g[1]
      BY <2>2 DEF WellFormed
    <2>5. j = 1
      <3>1. 1 \in 1..Len(g) /\ (1 < j => g[1].term < g[j].term)
        BY <2>3
      <3> QED BY <1>2, <2>3, <3>1
    <2>6. SubSeq(x, 1, 1) = SubSeq(g, 1, 1)
      <3>1. 1 \in 0..Len(x) /\ 1 <= Len(g) /\ \A i \in 1..1 : x[i] = g[i]
        BY <2>3, <2>4
      <3> QED BY <2>3, <3>1, SameCut
    <2>7. j \in 1..Len(x) /\ x[j].term = g[j].term /\ SubSeq(x, 1, j) = SubSeq(g, 1, j)
      BY <2>3, <2>5, <2>6
    <2> QED BY <2>1, <2>7
  <1> QED BY <1>1, <1>2

\* What is settled stays so.
LEMMA SettledStays ==
  ASSUME CommitInv, CommitInv', Step, IsPrefix(committed, committed'), NEW s \in Safekeepers,
         NEW t, NEW c \in Int, Settled(t, c)
  PROVE  Settled(t, c)'
PROOF
  <1>0. HistoryInv /\ HistoryInv'
    BY DEF CommitInv, WithinInv, WalInv, AckInv
  <1>1. committed \in Seq(Terms) /\ committed' \in Seq(Terms)
    BY LogGrows
  <1>2. t = 0 \/ Won(t)'
    BY WonStays DEF Settled
  <1>3. ASSUME NEW g, IsKnown(g)', NEW j \in 1..Len(g), g[j].term = t
        PROVE  Matches(SubSeq(g, 1, j), committed', c)
    <2>1. PICK x : /\ IsKnown(x) /\ j \in 1..Len(x) /\ x[j].term = g[j].term
                   /\ SubSeq(x, 1, j) = SubSeq(g, 1, j)
      <3>1. g[j].term = 0 \/ Won(g[j].term)
        BY <1>3 DEF Settled
      <3> QED BY <1>0, <1>3, <3>1, EntryBefore
    <2>2. Matches(SubSeq(x, 1, j), committed, c)
      BY <1>3, <2>1 DEF Settled
    <2> DEFINE h == SubSeq(g, 1, j)
    <2>3. Matches(h, committed, c)
      BY <2>1, <2>2
    <2> HIDE DEF h
    <2>4. Matches(h, committed', c)
      BY <1>1, <2>3, MatchesMore
    <2> QED BY <2>4 DEF h
  <1> QED BY <1>2, <1>3 DEF Settled

\* What a history says about flushed WAL, the entries up to its last term say.
LEMMA FlushedTerms ==
  ASSUME NEW h, WellFormed(h), NEW f \in Int, StartLsn <= f
  PROVE  \E k \in 1..Len(h) : /\ h[k].term = LastLogTerm(h, f)
                              /\ \A l \in Int : l < f => TermAt(SubSeq(h, 1, k), l) = TermAt(h, l)
PROOF
  <1>1. PICK k \in 1..Len(h) : /\ UpTo(h, f) = SubSeq(h, 1, k)
                               /\ k < Len(h) => h[k + 1].lsn > f
    BY FlushedPart
  <1>2. /\ h \in Seq(TermSwitches) /\ Len(h) \in Nat
        /\ \A i \in 1..Len(h) : h[i].lsn \in Int
    BY WellFormedFacts
  <1>3. WellFormed(SubSeq(h, 1, k)) /\ Len(SubSeq(h, 1, k)) = k /\ SubSeq(h, 1, k)[k] = h[k]
    BY <1>2, WellFormedCut, CutFacts
  <1>4. h[k].term = LastLogTerm(h, f)
    <2>1. HighestTerm(SubSeq(h, 1, k)) = h[k].term
      BY <1>3, WellFormedFacts
    <2> QED BY <1>1, <2>1 DEF LastLogTerm
  <1>5. ASSUME NEW l \in Int, l < f
        PROVE  TermAt(SubSeq(h, 1, k), l) = TermAt(h, l)
    <2>1. k = Len(h) \/ h[k + 1].lsn > l
      <3>1. CASE k < Len(h)
        <4>1. k + 1 \in 1..Len(h)
          BY <1>2, <3>1
        <4>2. h[k + 1].lsn \in Int /\ h[k + 1].lsn > f
          BY <1>1, <1>2, <3>1, <4>1
        <4> QED BY <1>5, <4>2
      <3> QED BY <1>2, <3>1
    <2> QED BY <2>1, TermAtOfCut
  <1> QED BY <1>4, <1>5

\* The numbers of a safekeeper.
LEMMA ReplicaNumbers ==
  ASSUME TypeOK, NEW s \in Safekeepers
  PROVE  /\ cf[s].commit \in Lsns /\ inmem[s].commit \in Lsns /\ flushLsn[s] \in Lsns
         /\ cf[s].commit \in Int /\ inmem[s].commit \in Int /\ flushLsn[s] \in Int
         /\ StartLsn <= flushLsn[s] /\ StartLsn <= inmem[s].commit /\ StartLsn <= cf[s].commit
         /\ flushLsn[s] <= WriteLsn(s) /\ StartLsn \in Int
         /\ broker[s].commit \in Lsns /\ broker[s].commit \in Int
PROOF
  <1>1. /\ cf[s] \in ControlFiles /\ inmem[s] \in [commit : Lsns, horizon : Lsns]
        /\ flushLsn[s] \in Lsns /\ broker[s] \in [lastLogTerm : Terms, commit : Lsns, horizon : Lsns]
        /\ flushLsn[s] <= WriteLsn(s)
    BY DEF TypeOK, SafekeeperTypeOK
  <1>2. cf[s].commit \in Lsns /\ inmem[s].commit \in Lsns /\ broker[s].commit \in Lsns
    BY <1>1 DEF ControlFiles
  <1> QED BY <1>1, <1>2, LsnRange, LsnAssumption

\* What a safekeeper publishes is settled.
LEMMA PublishedIsSettled ==
  ASSUME ReplicaInv, NEW s \in Safekeepers, NEW t, t = LastLogTerm(cf[s].hist, flushLsn[s]),
         NEW c, c = inmem[s].commit
  PROVE  Settled(t, c)
PROOF
  <1> DEFINE h == cf[s].hist
             f == flushLsn[s]
  <1>0. TypeOK /\ KnownAreSound /\ KnownAgree /\ CommitInv
    BY DEF ReplicaInv, CommitInv, WithinInv, WalInv, AckInv, HistoryInv, ElectionInv
  <1>1. f \in Int /\ StartLsn <= f /\ c \in Int /\ c <= f /\ Matches(h, committed, c)
    BY <1>0, ReplicaNumbers DEF ReplicaInv, FilesInLog
  <1>2. IsKnown(h)
    BY DEF IsKnown
  <1>3. WellFormed(h) /\ TermsWon(h)
    BY <1>0, <1>2 DEF KnownAreSound
  <1>4. t = LastLogTerm(h, f)
    OBVIOUS
  <1>5. committed \in Seq(Terms)
    BY <1>0, LogFacts
  <1> HIDE DEF h, f
  <1>6. PICK k \in 1..Len(h) : /\ h[k].term = t
                               /\ \A l \in Int : l < f => TermAt(SubSeq(h, 1, k), l) = TermAt(h, l)
    BY <1>1, <1>3, <1>4, FlushedTerms
  <1>7. t = 0 \/ Won(t)
    BY <1>3, <1>6 DEF TermsWon
  <1>8. Matches(SubSeq(h, 1, k), committed, c)
    <2> DEFINE n == SubSeq(h, 1, k)
    <2>1. \A l \in Int : l < c => TermAt(n, l) = TermAt(h, l)
      BY <1>1, <1>6
    <2> HIDE DEF n
    <2>2. c <= c
      BY <1>1
    <2>3. Matches(n, committed, c)
      BY <1>1, <1>5, <2>1, <2>2, MatchesOther
    <2> QED BY <2>3 DEF n
  <1>9. ASSUME NEW g, IsKnown(g), NEW j \in 1..Len(g), g[j].term = t
        PROVE  Matches(SubSeq(g, 1, j), committed, c)
    <2>1. WellFormed(g) /\ Agree(h, g)
      BY <1>0, <1>2, <1>9 DEF KnownAreSound, KnownAgree
    <2>2. k = j /\ \A i \in 1..k : h[i] = g[i]
      BY <1>6, <1>9, <2>1 DEF Agree
    <2>3. SubSeq(h, 1, k) = SubSeq(g, 1, k)
      <3>1. h \in Seq(TermSwitches) /\ g \in Seq(TermSwitches) /\ Len(h) \in Nat /\ Len(g) \in Nat
        BY <1>3, <2>1, WellFormedFacts
      <3>2. k \in 0..Len(h) /\ k <= Len(g)
        BY <2>2, <3>1
      <3> QED BY <2>2, <3>1, <3>2, SameCut
    <2> QED BY <1>8, <2>2, <2>3
  <1> QED BY <1>7, <1>9 DEF Settled

\* What is published is settled.
LEMMA PublishedSettledStep ==
  ASSUME ReplicaInv, CommitInv', Step, [Next]_vars, IsPrefix(committed, committed')
  PROVE  PublishedSettled'
PROOF
  <1>0. TypeOK /\ CommitInv
    BY DEF ReplicaInv, CommitInv, WithinInv, WalInv, AckInv, HistoryInv, ElectionInv
  <1>1. ASSUME NEW s \in Safekeepers, NEW t, NEW c, t = broker'[s].lastLogTerm, c = broker'[s].commit
        PROVE  Settled(t, c)'
    <2>1. CASE broker'[s] = broker[s]
      <3>1. Settled(t, c) /\ c \in Int
        BY <1>0, <1>1, <2>1, ReplicaNumbers DEF ReplicaInv, PublishedSettled
      <3> QED BY <1>0, <3>1, SettledStays
    <2>2. CASE broker'[s] = SafekeeperInfo(s)
      <3>1. t = LastLogTerm(cf[s].hist, flushLsn[s]) /\ c = inmem[s].commit
        BY <1>1, <2>2 DEF SafekeeperInfo
      <3>2. Settled(t, c) /\ c \in Int
        BY <1>0, <3>1, PublishedIsSettled, ReplicaNumbers
      <3> QED BY <1>0, <3>2, SettledStays
    <2> QED BY <1>0, <2>1, <2>2, BrokerMoves
  <1> QED BY <1>1 DEF PublishedSettled


\* WAL below commit_lsn stays where and what it is: handle_elected does not cut it.
LEMMA CommittedPartStays ==
  ASSUME HistoryInv, TypeOK', Step, NEW s \in Safekeepers, NEW c \in Int,
         c <= inmem[s].commit, inmem[s].commit <= flushLsn[s]
  PROVE  /\ flushLsn'[s] >= c
         /\ \A l \in Int : l < c => TermAt(cf'[s].hist, l) = TermAt(cf[s].hist, l)
PROOF
  <1> DEFINE Goal == /\ flushLsn'[s] >= c
                     /\ \A l \in Int : l < c => TermAt(cf'[s].hist, l) = TermAt(cf[s].hist, l)
  <1> SUFFICES Goal
    OBVIOUS
  <1>0. TypeOK /\ KnownAreSound /\ KnownAgree /\ HistoriesWithinTerm /\ MessagesAreWinners /\ Moves
    BY DEF HistoryInv, ElectionInv, Step, QuietMove, WinMove
  <1>1. /\ inmem[s].commit \in Int /\ flushLsn[s] \in Int /\ flushLsn[s] \in Lsns
        /\ flushLsn'[s] \in Int
    BY <1>0, ReplicaNumbers, SafekeeperNumbers, LsnRange DEF TypeOK, SafekeeperTypeOK
  <1>2. c <= flushLsn[s]
    BY <1>1
  <1>3. CASE flushLsn'[s] >= flushLsn[s] /\ cf'[s].hist = cf[s].hist
    BY <1>1, <1>2, <1>3
  <1>4. ASSUME NEW m, Adopts(s, m) \/ RestartsIn(s, m), NEW k \in Kinds, NEW p \in Proposers,
               m \in ToSet(conn[k][p][s].queue), m.type = "ProposerElected"
        PROVE  Goal
    <2>1. m \in ToSafekeeper /\ m.start \in Lsns /\ m.start \in Int /\ m.term \in Int
      <3>1. m \in ToSafekeeper
        BY <1>0, <1>4, QueuedType
      <3> QED BY <1>4, <3>1, LsnRange, TermsAreInts DEF ToSafekeeper
    <2>2. ElectedAccepted(s, m)
      BY <1>4 DEF Adopts, RestartsIn
    <2>3. m.start >= c
      BY <1>1, <2>1, <2>2 DEF ElectedAccepted
    <2>4. flushLsn'[s] >= c
      <3>1. CASE Adopts(s, m)
        BY <2>1, <2>3, <3>1 DEF Adopts
      <3>2. CASE RestartsIn(s, m)
        <4>1. flushLsn'[s] >= m.start
          BY <1>1, <2>1, <3>2 DEF RestartsIn
        <4> QED BY <1>1, <2>1, <2>3, <4>1
      <3> QED BY <1>4, <3>1, <3>2
    <2>5. ASSUME NEW l \in Int, l < c
          PROVE  TermAt(cf'[s].hist, l) = TermAt(cf[s].hist, l)
      <3>1. CASE RestartsIn(s, m)
        BY <3>1 DEF RestartsIn
      <3>2. CASE Adopts(s, m)
        <4>1. cf'[s].hist = m.hist
          BY <3>2 DEF Adopts
        <4>2. IsKnown(m.hist) /\ IsKnown(cf[s].hist)
          BY <1>4 DEF IsKnown
        <4>3. WellFormed(m.hist) /\ WellFormed(cf[s].hist) /\ Agree(m.hist, cf[s].hist)
          BY <1>0, <4>2 DEF KnownAreSound, KnownAgree
        <4>4. HighestTerm(cf[s].hist) <= HighestTerm(m.hist)
          <5>1. HighestTerm(m.hist) = m.term /\ HighestTerm(cf[s].hist) <= cf[s].term
            BY <1>0, <1>4 DEF MessagesAreWinners, HistoriesWithinTerm
          <5>2. cf[s].term <= m.term
            BY <2>2 DEF ElectedAccepted, ElectedExpected
          <5>3. cf[s].term \in Int /\ HighestTerm(cf[s].hist) \in Int
            BY <1>0, <4>3, HistoryTerm, SafekeeperNumbers DEF TypeOK
          <5> QED BY <2>1, <5>1, <5>2, <5>3
        <4>5. l < ExpectedTruncation(m.hist, UpTo(cf[s].hist, flushLsn[s]), flushLsn[s])
          <5>1. ExpectedTruncation(m.hist, UpTo(cf[s].hist, flushLsn[s]), flushLsn[s]) = m.start
            BY <2>2 DEF ElectedAccepted, ElectedExpected, TruncationPoint
          <5> QED BY <2>1, <2>3, <2>5, <5>1
        <4>6. TermAt(m.hist, l) = TermAt(cf[s].hist, l)
          BY <1>1, <4>3, <4>4, <4>5, TruncationKeepsTerms
        <4> QED BY <4>1, <4>6
      <3> QED BY <1>4, <3>1, <3>2
    <2> QED BY <2>4, <2>5
  <1>5. SafekeeperMove(s)
    BY <1>0 DEF Moves
  <1>6. CASE Keeps(s)
    BY <1>3, <1>6 DEF Keeps
  <1>7. CASE Restarts(s)
    <2>1. cf'[s].hist = cf[s].hist /\ flushLsn'[s] >= flushLsn[s]
      BY <1>1, <1>7 DEF Restarts
    <2> QED BY <1>3, <2>1
  <1>8. ASSUME NEW k \in Kinds, NEW p \in Proposers,
               FirstMessage(k, p, s, "AppendRequest"), Appends(s, Message(k, p, s))
        PROVE  Goal
    BY <1>3, <1>8 DEF Appends
  <1>9. ASSUME NEW k \in Kinds, NEW p \in Proposers, FirstMessage(k, p, s, "ProposerElected"),
               Adopts(s, Message(k, p, s)) \/ RestartsIn(s, Message(k, p, s))
        PROVE  Goal
    BY <1>0, <1>4, <1>9, MessageCame
  <1> HIDE DEF Goal
  <1>10. CASE \E k \in Kinds, p \in Proposers :
                FirstMessage(k, p, s, "AppendRequest") /\ Appends(s, Message(k, p, s))
    BY <1>8, <1>10
  <1>11. CASE \E k \in Kinds, p \in Proposers :
                /\ FirstMessage(k, p, s, "ProposerElected")
                /\ Adopts(s, Message(k, p, s)) \/ RestartsIn(s, Message(k, p, s))
    BY <1>9, <1>11
  <1> QED BY <1>5, <1>6, <1>7, <1>10, <1>11, Zenon DEF SafekeeperMove

\* A commit_lsn that s is told is that of WAL which its history matches: the message is
\* of the term it follows, or the peer's WAL ends in the same term as its own.
LEMMA ToldMatches ==
  ASSUME QuorumsIntersect, ReplicaInv, TypeOK', NEW s \in Safekeepers, NEW c \in Lsns, Tells(s, c),
         NEW d \in Int, d <= c, d <= flushLsn'[s]
  PROVE  /\ cf'[s].hist = cf[s].hist /\ flushLsn'[s] >= flushLsn[s]
         /\ Matches(cf[s].hist, committed, d)
PROOF
  <1> DEFINE h == cf[s].hist
             Goal == /\ cf'[s].hist = cf[s].hist /\ flushLsn'[s] >= flushLsn[s]
                     /\ Matches(cf[s].hist, committed, d)
  <1>0. TypeOK /\ KnownAreSound /\ CommitInv /\ AckInv /\ QueuesInOrder
    BY DEF ReplicaInv, CommitInv, WithinInv, WalInv, AckInv, HistoryInv, ElectionInv
  <1>1. IsKnown(h) /\ WellFormed(h) /\ committed \in Seq(Terms)
    <2>1. IsKnown(h)
      BY DEF IsKnown
    <2> QED BY <1>0, <2>1, LogFacts DEF KnownAreSound
  <1>2. /\ flushLsn[s] \in Int /\ StartLsn <= flushLsn[s] /\ c \in Int /\ flushLsn[s] >= flushLsn[s]
    BY <1>0, ReplicaNumbers, LsnRange
  <1>3. ASSUME NEW k \in Kinds, NEW p \in Proposers, NEW m, m = Message(k, p, s),
               FirstMessage(k, p, s, "AppendRequest"), Appends(s, m), m.commit = c, c # 0
        PROVE  Goal
    <2>1. m \in ToSet(conn[k][p][s].queue) /\ m.type = "AppendRequest" /\ m \in ToSafekeeper
      BY <1>0, <1>3, MessageCame
    <2>2. Backed(m.term, c)
      BY <1>3, <2>1 DEF ReplicaInv, AppendsBacked
    <2>3. PICK gen \in DOMAIN Conf : \E g : HighestTerm(g) = m.term /\ Durable(g, c, gen)
      BY <2>2 DEF Backed
    <2>4. PICK g : HighestTerm(g) = m.term /\ Durable(g, c, gen)
      BY <2>3
    <2>5. Matches(g, committed, c)
      BY <1>0, <2>2, <2>4, DurableMatches DEF Backed
    <2>6. HighestTerm(h) = m.term
      <3> DEFINE q == conn[k][p][s].queue
      <3>1. q \in Seq(ToSafekeeper) /\ q # <<>> /\ m = q[1]
        BY <1>0, <1>3 DEF TypeOK, FirstMessage, Message
      <3>2. InOrder(q, Followed(s))
        BY <1>0 DEF QueuesInOrder
      <3> HIDE DEF q
      <3>3. 1 \in 1..Len(q)
        BY <3>1
      <3>4. m.term \in Followed(s)
        BY <2>1, <3>1, <3>2, <3>3 DEF InOrder
      <3>5. cf[s].term = m.term /\ m.term \in Int
        BY <1>3, <2>1, TermsAreInts DEF Appends, ToSafekeeper
      <3> QED BY <3>4, <3>5 DEF Followed, Follows
    <2>7. Covers(h, g, c) /\ WellFormed(g)
      <3>1. Shared(g, c) /\ WellFormed(g)
        BY <2>4 DEF Durable, Outlasts, Rooted
      <3>2. HighestTerm(g) \in Int
        BY <3>1, HistoryTerm
      <3> QED BY <1>1, <2>4, <2>6, <3>1, <3>2 DEF Shared
    <2>8. \A l \in Int : l < d => TermAt(h, l) = TermAt(g, l)
      BY <1>1, <1>2, <2>7, CoversTerms
    <2> HIDE DEF h
    <2>9. Matches(h, committed, d)
      BY <1>1, <1>2, <2>5, <2>8, MatchesOther
    <2>10. cf'[s].hist = cf[s].hist /\ flushLsn'[s] >= flushLsn[s]
      BY <1>3 DEF Appends
    <2> QED BY <2>9, <2>10 DEF h
  <1>4. ASSUME NEW peer \in Safekeepers, broker[peer].commit = c,
               broker[peer].lastLogTerm = LastLogTerm(h, flushLsn[s]),
               cf'[s].hist = cf[s].hist, flushLsn'[s] = flushLsn[s]
        PROVE  Goal
    <2> DEFINE t == LastLogTerm(h, flushLsn[s])
    <2>1. Settled(t, c)
      BY <1>4 DEF ReplicaInv, PublishedSettled
    <2> HIDE DEF h
    <2>2. PICK k \in 1..Len(h) :
            /\ h[k].term = t
            /\ \A l \in Int : l < flushLsn[s] => TermAt(SubSeq(h, 1, k), l) = TermAt(h, l)
      BY <1>1, <1>2, FlushedTerms
    <2>3. Matches(SubSeq(h, 1, k), committed, c)
      BY <1>1, <2>1, <2>2 DEF Settled
    <2>4. \A l \in Int : l < d => TermAt(h, l) = TermAt(SubSeq(h, 1, k), l)
      BY <1>2, <1>4, <2>2
    <2>5. Matches(h, committed, d)
      BY <1>1, <1>2, <2>3, <2>4, MatchesOther
    <2> QED BY <1>2, <1>4, <2>5 DEF h
  <1> HIDE DEF Goal
  <1>5. Goal
    BY <1>3, <1>4 DEF Tells
  <1> QED BY <1>5 DEF Goal

\* update_commit_lsn
LEMMA NewCommitLsnFacts ==
  ASSUME NEW s, inmem[s].commit \in Int, NEW c \in Int, NEW f \in Int, inmem[s].commit <= f
  PROVE  LET d == NewCommitLsn(s, c, f)
         IN  d \in Int /\ inmem[s].commit <= d /\ d <= f /\ (d <= c \/ d = inmem[s].commit)
BY DEF NewCommitLsn, Lower, Higher


\* commit_lsn goes up, in memory or on disk, or back to what the control file has.
Advances(s) ==
  \/ cf'[s].commit >= cf[s].commit /\ inmem'[s].commit >= inmem[s].commit
  \/ cf'[s].commit = cf[s].commit /\ inmem'[s].commit = cf[s].commit

\* commit_lsn of a safekeeper that moves: below it is WAL that is flushed and committed.
LEMMA CommitLsnStep ==
  ASSUME QuorumsIntersect, ReplicaInv, CommitInv', Step, NEW s \in Safekeepers, CommitLsnMove(s)
  PROVE  /\ cf'[s].commit <= inmem'[s].commit /\ inmem'[s].commit <= flushLsn'[s]
         /\ Matches(cf'[s].hist, committed, inmem'[s].commit)
         /\ Advances(s)
PROOF
  <1> DEFINE h == cf[s].hist
             n == cf'[s].hist
             i == inmem[s].commit
             f == flushLsn'[s]
  <1>0. TypeOK /\ TypeOK' /\ HistoryInv /\ CommitInv
    BY DEF ReplicaInv, CommitInv, WithinInv, WalInv, AckInv, HistoryInv, ElectionInv
  <1>1. /\ cf[s].commit \in Int /\ i \in Int /\ flushLsn[s] \in Int /\ f \in Int
        /\ committed \in Seq(Terms)
    BY <1>0, ReplicaNumbers, LsnRange, LogFacts DEF TypeOK, SafekeeperTypeOK
  <1>2. cf[s].commit <= i /\ i <= flushLsn[s] /\ Matches(h, committed, i)
    BY DEF ReplicaInv, FilesInLog
  <1>3. CASE /\ SavedCommit(s, cf'[s])
             /\ inmem'[s].commit = inmem[s].commit \/ inmem'[s].commit = cf'[s].commit
    <2> DEFINE d == inmem'[s].commit
    <2>1. d \in Int /\ d <= i /\ cf'[s].commit <= d /\ Advances(s)
      BY <1>1, <1>2, <1>3 DEF SavedCommit, Advances
    <2> HIDE DEF d
    <2>2. f >= d /\ \A l \in Int : l < d => TermAt(n, l) = TermAt(h, l)
      BY <1>0, <1>2, <2>1, CommittedPartStays
    <2> HIDE DEF n, h, i, f
    <2>3. Matches(n, committed, d)
      BY <1>1, <1>2, <2>1, <2>2, MatchesOther
    <2>4. d <= f
      BY <1>1, <2>1, <2>2
    <2> QED BY <2>1, <2>3, <2>4 DEF d, n, f
  <1>4. ASSUME NEW c \in Lsns, Tells(s, c), inmem'[s].commit = NewCommitLsn(s, c, f),
               cf'[s].commit = cf[s].commit \/ cf'[s].commit = inmem'[s].commit
        PROVE  /\ cf'[s].commit <= inmem'[s].commit /\ inmem'[s].commit <= f
               /\ Matches(n, committed, inmem'[s].commit)
               /\ Advances(s)
    <2> DEFINE d == NewCommitLsn(s, c, f)
    <2>0. c \in Int
      BY LsnRange
    <2>1. flushLsn[s] <= f /\ n = h
      <3>1. \E e \in Int : e <= c /\ e <= f
        <4>1. CASE c <= f
          BY <1>1, <2>0, <4>1
        <4>2. CASE f <= c
          BY <1>1, <2>0, <4>2
        <4> QED BY <1>1, <2>0, <4>1, <4>2
      <3> QED BY <1>0, <1>1, <1>4, <3>1, ToldMatches
    <2>2. i <= f
      BY <1>1, <1>2, <2>1
    <2>3. d \in Int /\ i <= d /\ d <= f /\ (d <= c \/ d = i)
      BY <1>1, <2>0, <2>2, NewCommitLsnFacts
    <2> HIDE DEF d
    <2>4. Matches(h, committed, d)
      <3>1. CASE d = i
        BY <1>2, <3>1
      <3>2. CASE d <= c
        BY <1>0, <1>4, <2>3, <3>2, ToldMatches
      <3> QED BY <2>3, <3>1, <3>2
    <2>5. inmem'[s].commit = d
      BY <1>4 DEF d
    <2>6. cf'[s].commit <= d /\ d <= f /\ Advances(s)
      BY <1>1, <1>2, <1>4, <2>3, <2>5 DEF Advances
    <2> QED BY <2>1, <2>4, <2>5, <2>6
  <1> QED BY <1>3, <1>4 DEF CommitLsnMove

\* commit_lsn of all safekeepers, after a step: one of them has moved, or the log.
LEMMA FilesInLogStep ==
  ASSUME QuorumsIntersect, ReplicaInv, CommitInv', Step, [Next]_vars, IsPrefix(committed, committed')
  PROVE  FilesInLog'
PROOF
  <1>0. TypeOK /\ CommitInv
    BY DEF ReplicaInv, CommitInv, WithinInv, WalInv, AckInv, HistoryInv, ElectionInv
  <1>1. committed \in Seq(Terms) /\ committed' \in Seq(Terms)
    BY <1>0, LogGrows
  <1>2. ASSUME NEW s \in Safekeepers, cf'[s] = cf[s], inmem'[s] = inmem[s], flushLsn'[s] = flushLsn[s]
        PROVE  /\ cf'[s].commit <= inmem'[s].commit /\ inmem'[s].commit <= flushLsn'[s]
               /\ Matches(cf'[s].hist, committed', inmem'[s].commit)
    <2> DEFINE h == cf[s].hist
               c == inmem[s].commit
    <2>1. /\ cf[s].commit <= inmem[s].commit /\ inmem[s].commit <= flushLsn[s]
          /\ Matches(h, committed, c) /\ c \in Int
      BY <1>0, ReplicaNumbers DEF ReplicaInv, FilesInLog
    <2> HIDE DEF h, c
    <2>2. Matches(h, committed', c)
      BY <1>1, <2>1, MatchesMore
    <2> QED BY <1>2, <2>1, <2>2 DEF h, c
  <1>3. CASE UNCHANGED skVars
    BY <1>2, <1>3 DEF FilesInLog, skVars
  <1>4. ASSUME UNCHANGED committed, NEW s \in Safekeepers, LsnMove(s)
        PROVE  FilesInLog'
    <2>1. /\ cf'[s].commit <= inmem'[s].commit /\ inmem'[s].commit <= flushLsn'[s]
          /\ Matches(cf'[s].hist, committed', inmem'[s].commit)
      BY <1>4, CommitLsnStep DEF LsnMove
    <2>2. ASSUME NEW x \in Safekeepers, x # s
          PROVE  cf'[x] = cf[x] /\ inmem'[x] = inmem[x] /\ flushLsn'[x] = flushLsn[x]
      BY <1>4, <2>2 DEF LsnMove, OthersRest
    <2> QED BY <1>2, <2>1, <2>2 DEF FilesInLog
  <1> QED BY <1>0, <1>3, <1>4, LsnMoves

\* At first nothing is committed.
LEMMA ReplicaInit == Init => ReplicaInv
PROOF
  <1> SUFFICES ASSUME Init
               PROVE  ReplicaInv
    OBVIOUS
  <1>0. CommitInv
    BY CommitInit
  <1>1. committed = <<>> /\ LogEnd \in Int /\ StartLsn \in Int /\ LogEnd = StartLsn /\ StartLsn > 0
    BY LsnAssumption DEF Init, LogEnd
  <1>2. \A h : Matches(h, committed, StartLsn)
    BY <1>1 DEF Matches, LogEnd
  <1>3. LeadersInLog
    <2>1. \A p \in Proposers : wp[p].commit = 0
      BY DEF Init, WalProposerInit, NewProposer
    <2> QED BY <1>1, <2>1 DEF LeadersInLog
  <1>4. AppendsBacked
    <2>1. \A k \in Kinds, p \in Proposers, s \in Safekeepers : ToSet(conn[k][p][s].queue) = {}
      BY DEF Init, Closed, ToSet
    <2> QED BY <2>1 DEF AppendsBacked
  <1>5. PublishedSettled
    <2>1. ASSUME NEW s \in Safekeepers, NEW t, NEW c,
                 t = broker[s].lastLogTerm, c = broker[s].commit
          PROVE  Settled(t, c)
      <3> DEFINE h == cf[s].hist
      <3>1. TypeOK /\ KnownAreSound
        BY <1>0 DEF CommitInv, WithinInv, WalInv, AckInv, HistoryInv, ElectionInv
      <3>2. flushLsn[s] \in Int /\ StartLsn <= flushLsn[s]
        BY <3>1, ReplicaNumbers
      <3>3. t = LastLogTerm(h, flushLsn[s]) /\ c = StartLsn
        BY <2>1 DEF Init, SafekeeperInit, SafekeeperInfo
      <3>4. IsKnown(h)
        BY DEF IsKnown
      <3>5. WellFormed(h) /\ TermsWon(h)
        BY <3>1, <3>4 DEF KnownAreSound
      <3> HIDE DEF h
      <3>6. \E k \in 1..Len(h) : h[k].term = t
        BY <3>2, <3>3, <3>5, FlushedTerms
      <3> QED BY <1>2, <3>3, <3>5, <3>6 DEF Settled, TermsWon
    <2> QED BY <2>1 DEF PublishedSettled
  <1>6. FilesInLog
    <2>1. ASSUME NEW s \in Safekeepers
          PROVE  cf[s].commit = StartLsn /\ inmem[s].commit = StartLsn /\ flushLsn[s] = StartLsn
      BY DEF Init, SafekeeperInit
    <2> QED BY <1>1, <1>2, <2>1 DEF FilesInLog
  <1> QED BY <1>0, <1>3, <1>4, <1>5, <1>6 DEF ReplicaInv

\* Every step keeps the invariant.
LEMMA ReplicaNext ==
  ASSUME QuorumsIntersect, ReplicaInv, [Next]_vars
  PROVE  ReplicaInv' /\ CommitInv' /\ Step /\ CommitMove /\ IsPrefix(committed, committed')
PROOF
  <1>1. CommitInv
    BY DEF ReplicaInv
  <1>2. CommitInv' /\ Step /\ CommitMove /\ IsPrefix(committed, committed')
    BY <1>1, CommitNext
  <1>3. LeadersInLog'
    BY <1>1, <1>2, LeadersInLogStep DEF ReplicaInv
  <1>4. AppendsBacked'
    BY <1>2, AppendsBackedStep
  <1>5. PublishedSettled'
    BY <1>2, PublishedSettledStep
  <1>6. FilesInLog'
    BY <1>2, FilesInLogStep
  <1> QED BY <1>2, <1>3, <1>4, <1>5, <1>6 DEF ReplicaInv

\* What readers are given is a part of the log.
LEMMA ServedIsLog ==
  ASSUME ReplicaInv, NEW s \in Safekeepers, NEW c \in Int, StartLsn <= c, c <= inmem[s].commit
  PROVE  /\ WalUpTo(s, c) = SubSeq(committed, 1, c - StartLsn)
         /\ c - StartLsn \in 0..Len(committed)
PROOF
  <1>0. TypeOK /\ CommitInv /\ WalInv
    BY DEF ReplicaInv, CommitInv, WithinInv, WalInv, AckInv, HistoryInv, ElectionInv
  <1>1. /\ inmem[s].commit \in Int /\ inmem[s].commit \in Lsns /\ flushLsn[s] \in Int
        /\ flushLsn[s] <= WriteLsn(s) /\ WriteLsn(s) \in Int /\ StartLsn \in Int
        /\ inmem[s].commit <= flushLsn[s]
    BY <1>0, ReplicaNumbers, SafekeeperNumbers DEF TypeOK, ReplicaInv, FilesInLog
  <1>2. c \in Lsns /\ c <= WriteLsn(s)
    <2>1. inmem[s].commit <= MaxLsn /\ MaxLsn \in Int
      BY <1>1, LsnRange, LsnAssumption
    <2>2. c <= MaxLsn /\ c <= WriteLsn(s)
      BY <1>1, <2>1
    <2> QED BY <2>2, LsnRange
  <1>3. committed \in Seq(Terms) /\ Len(committed) \in Nat
    BY <1>0, LogFacts
  <1>4. Matches(cf[s].hist, committed, inmem[s].commit)
    BY DEF ReplicaInv, FilesInLog
  <1>5. c - StartLsn \in 0..Len(committed)
    BY <1>1, <1>3, <1>4 DEF Matches
  <1> DEFINE a == WalUpTo(s, c)
             b == SubSeq(committed, 1, c - StartLsn)
  <1>6. /\ a \in Seq(Terms) /\ Len(a) = c - StartLsn
        /\ \A i \in 1..(c - StartLsn) : a[i] = TermAt(cf[s].hist, StartLsn + i - 1)
    BY <1>0, <1>2, WalUpToFacts
  <1>7. /\ b \in Seq(Terms) /\ Len(b) = c - StartLsn
        /\ \A i \in 1..(c - StartLsn) : b[i] = committed[i]
    BY <1>3, <1>5, CutFacts
  <1>8. ASSUME NEW i \in 1..(c - StartLsn)
        PROVE  a[i] = b[i]
    <2> DEFINE l == StartLsn + i - 1
    <2>1. l \in Int /\ StartLsn <= l /\ l < inmem[s].commit /\ l - StartLsn + 1 = i
      BY <1>1
    <2>2. TermAt(cf[s].hist, l) = committed[i]
      BY <1>4, <2>1 DEF Matches
    <2> QED BY <1>6, <1>7, <2>2
  <1> HIDE DEF a, b
  <1>9. a = b
    BY <1>6, <1>7, <1>8
  <1> QED BY <1>5, <1>9 DEF a, b

\* A shorter part of the log is a prefix of a longer one, and of the log.
LEMMA PartsOfLog ==
  ASSUME NEW log \in Seq(Terms), NEW n \in 0..Len(log), NEW k \in 0..n
  PROVE  /\ IsPrefix(SubSeq(log, 1, k), SubSeq(log, 1, n)) /\ IsPrefix(SubSeq(log, 1, n), log)
PROOF
  <1> DEFINE a == SubSeq(log, 1, k)
             b == SubSeq(log, 1, n)
  <1>1. /\ a \in Seq(Terms) /\ Len(a) = k /\ \A i \in 1..k : a[i] = log[i]
        /\ b \in Seq(Terms) /\ Len(b) = n /\ \A i \in 1..n : b[i] = log[i]
    BY CutFacts
  <1> HIDE DEF a, b
  <1>2. IsPrefix(a, b)
    BY <1>1, PrefixByUnits
  <1>3. IsPrefix(b, log)
    BY <1>1, PrefixByUnits
  <1> QED BY <1>2, <1>3 DEF a, b

\* It is an invariant.
LEMMA ReplicaInvHolds == QuorumsIntersect => (Spec => []ReplicaInv)
PROOF
  <1> SUFFICES ASSUME QuorumsIntersect PROVE Spec => []ReplicaInv
    OBVIOUS
  <1>1. Init => ReplicaInv
    BY ReplicaInit
  <1>2. ReplicaInv /\ [Next]_vars => ReplicaInv'
    BY ReplicaNext
  <1> QED BY <1>1, <1>2, PTL DEF Spec

\* What a safekeeper reports as committed, in memory or in its control file, is flushed
\* and is what walproposers have declared committed, whoever told it and in whatever
\* order: safekeepers never disagree on committed WAL.
THEOREM CommitLsnsAreCommitted == QuorumsIntersect => (Spec => []CommitLsnIsCommitted)
PROOF
  <1>1. ReplicaInv => CommitLsnIsCommitted
    <2> SUFFICES ASSUME ReplicaInv, NEW s \in Safekeepers
                 PROVE  /\ IsPrefix(WalUpTo(s, inmem[s].commit), committed)
                        /\ cf[s].commit <= inmem[s].commit
                        /\ inmem[s].commit <= flushLsn[s]
      BY DEF CommitLsnIsCommitted
    <2>0. TypeOK /\ CommitInv
      BY DEF ReplicaInv, CommitInv, WithinInv, WalInv, AckInv, HistoryInv, ElectionInv
    <2>1. inmem[s].commit \in Int /\ StartLsn <= inmem[s].commit /\ inmem[s].commit <= inmem[s].commit
      BY <2>0, ReplicaNumbers
    <2> DEFINE n == inmem[s].commit - StartLsn
    <2>2. WalUpTo(s, inmem[s].commit) = SubSeq(committed, 1, n) /\ n \in 0..Len(committed)
      BY <2>1, ServedIsLog
    <2>3. committed \in Seq(Terms)
      BY <2>0, LogFacts
    <2> HIDE DEF n
    <2>4. n \in 0..n
      BY <2>2, <2>3
    <2>5. IsPrefix(SubSeq(committed, 1, n), committed)
      BY <2>2, <2>3, <2>4, PartsOfLog
    <2> QED BY <2>2, <2>5 DEF ReplicaInv, FilesInLog
  <1> QED BY <1>1, ReplicaInvHolds, PTL


-----------------------------------------------------------------------------
(* The log service *)

\* The first units of the log, as far as lsn.
LogUpTo(log, lsn) == SubSeq(log, 1, lsn - StartLsn)

\* commit_lsn and the WAL below it, in memory and in the control file.
ServesLog ==
  /\ committed \in Seq(Terms)
  /\ \A s \in Safekeepers :
       LET c == inmem[s].commit
           d == cf[s].commit
       IN  /\ c \in Int /\ d \in Int /\ StartLsn <= d /\ d <= c /\ c - StartLsn <= Len(committed)
           /\ WalUpTo(s, c) = LogUpTo(committed, c)
           /\ WalUpTo(s, d) = LogUpTo(committed, d)

\* What readers are given, and will be after a restart, are parts of the log.
LEMMA LogIsServed == ReplicaInv => ServesLog
PROOF
  <1> SUFFICES ASSUME ReplicaInv
               PROVE  ServesLog
    OBVIOUS
  <1>0. TypeOK /\ CommitInv
    BY DEF ReplicaInv, CommitInv, WithinInv, WalInv, AckInv, HistoryInv, ElectionInv
  <1>1. committed \in Seq(Terms)
    BY <1>0, LogFacts
  <1>2. ASSUME NEW s \in Safekeepers, NEW c, c = inmem[s].commit, NEW d, d = cf[s].commit
        PROVE  /\ c \in Int /\ d \in Int /\ StartLsn <= d /\ d <= c /\ c - StartLsn <= Len(committed)
               /\ WalUpTo(s, c) = LogUpTo(committed, c)
               /\ WalUpTo(s, d) = LogUpTo(committed, d)
    <2>1. c \in Int /\ d \in Int /\ StartLsn <= d /\ StartLsn <= c /\ d <= c /\ c <= inmem[s].commit
      BY <1>0, <1>2, ReplicaNumbers DEF ReplicaInv, FilesInLog
    <2>2. d <= inmem[s].commit
      BY <1>2, <2>1
    <2>3. /\ WalUpTo(s, c) = LogUpTo(committed, c) /\ c - StartLsn \in 0..Len(committed)
          /\ WalUpTo(s, d) = LogUpTo(committed, d)
      BY <2>1, <2>2, ServedIsLog DEF LogUpTo
    <2> QED BY <2>1, <2>3
  <1> QED BY <1>1, <1>2 DEF ServesLog

\* Longer parts of the log extend shorter ones.
LEMMA LogPrefixes ==
  ASSUME NEW log \in Seq(Terms), NEW c \in Int, NEW d \in Int, StartLsn <= d, d <= c,
         c - StartLsn <= Len(log)
  PROVE  IsPrefix(LogUpTo(log, d), LogUpTo(log, c)) /\ IsPrefix(LogUpTo(log, c), log)
PROOF
  <1>1. c - StartLsn \in 0..Len(log) /\ d - StartLsn \in 0..(c - StartLsn)
    BY LsnAssumption
  <1> QED BY <1>1, PartsOfLog DEF LogUpTo

Served == [s \in Safekeepers |-> WalUpTo(s, inmem[s].commit)]
Saved == [s \in Safekeepers |-> WalUpTo(s, cf[s].commit)]

\* Prefixes, in the words of the log service.
LEMMA SamePrefix ==
  /\ \A a, b : Service!IsPrefix(a, b) <=> IsPrefix(a, b)
  /\ \A a, b : Service!IsStrictPrefix(a, b) <=> IsStrictPrefix(a, b)
BY DEF Service!IsPrefix, IsPrefix, Service!IsStrictPrefix, IsStrictPrefix

\* A safekeeper moves: it serves more of the log, saves more of it, or restarts with
\* what it has saved.
LEMMA ServeOrRestart ==
  ASSUME ServesLog, ServesLog', UNCHANGED committed, NEW s \in Safekeepers, Advances(s), OthersRest(s)
  PROVE  Service!Serve(s) \/ Service!Restart(s)
PROOF
  <1> DEFINE i == inmem[s].commit
             d == cf[s].commit
             j == inmem'[s].commit
             e == cf'[s].commit
  <1>1. ASSUME NEW x \in Safekeepers, x # s
        PROVE  Served'[x] = Served[x] /\ Saved'[x] = Saved[x]
    BY <1>1 DEF OthersRest, Served, Saved, WalUpTo
  <1>2. /\ i \in Int /\ d \in Int /\ StartLsn <= d /\ d <= i /\ i - StartLsn <= Len(committed)
        /\ Served[s] = LogUpTo(committed, i) /\ Saved[s] = LogUpTo(committed, d)
    BY DEF ServesLog, Served, Saved
  <1>3. /\ j \in Int /\ e \in Int /\ StartLsn <= e /\ e <= j /\ j - StartLsn <= Len(committed)
        /\ Served'[s] = LogUpTo(committed, j) /\ Saved'[s] = LogUpTo(committed, e)
    BY DEF ServesLog, Served, Saved, LogUpTo, WalUpTo
  <1>4. committed \in Seq(Terms)
    BY DEF ServesLog
  <1>5. /\ Served' = [Served EXCEPT ![s] = Served'[s]] /\ Saved' = [Saved EXCEPT ![s] = Saved'[s]]
    BY <1>1 DEF Served, Saved
  <1>6. CASE e >= d /\ j >= i
    <2>1. /\ IsPrefix(Served[s], Served'[s]) /\ IsPrefix(Served'[s], committed)
          /\ IsPrefix(Saved[s], Saved'[s]) /\ IsPrefix(Saved'[s], Served'[s])
      <3> HIDE DEF i, j, d, e
      <3>1. StartLsn \in Int /\ StartLsn <= i /\ e - StartLsn <= Len(committed) /\ d <= e /\ i <= j
        BY <1>2, <1>3, <1>4, <1>6, LsnAssumption
      <3> QED BY <1>2, <1>3, <1>4, <3>1, LogPrefixes
    <2>2. Service!Serve(s)
      BY <1>5, <2>1, SamePrefix DEF Service!Serve, Served, Saved
    <2> QED BY <2>2
  <1>7. CASE e = d /\ j = d
    <2>1. Served'[s] = Saved[s] /\ Saved'[s] = Saved[s]
      BY <1>2, <1>3, <1>7
    <2>2. Saved' = Saved
      BY <1>5, <2>1 DEF Saved
    <2>3. Service!Restart(s)
      BY <1>5, <2>1, <2>2 DEF Service!Restart, Served, Saved
    <2> QED BY <2>3
  <1> QED BY <1>6, <1>7 DEF Advances

\* The log grows, while safekeepers have what they had.
LEMMA LogMoves ==
  ASSUME UNCHANGED skVars, IsPrefix(committed, committed')
  PROVE  Service!Commit \/ UNCHANGED Service!serviceVars
PROOF
  <1>1. Served' = Served /\ Saved' = Saved
    BY DEF Served, Saved, WalUpTo, skVars
  <1>2. CASE committed' = committed
    BY <1>1, <1>2 DEF Service!serviceVars, Served, Saved
  <1>3. CASE committed' # committed
    <2>1. IsStrictPrefix(committed, committed')
      BY <1>3 DEF IsStrictPrefix
    <2>2. Service!IsStrictPrefix(committed, committed')
      BY <2>1, SamePrefix
    <2> QED BY <1>1, <2>2 DEF Service!Commit, Served, Saved
  <1> QED BY <1>2, <1>3

\* Every step of the system is a step of the log service, or none.
LEMMA ServiceStep ==
  ASSUME QuorumsIntersect, ReplicaInv, ServesLog, ServesLog', [Next]_vars
  PROVE  [Service!Next]_(Service!serviceVars)
PROOF
  <1>1. TypeOK /\ CommitInv' /\ Step /\ IsPrefix(committed, committed')
    BY ReplicaNext DEF ReplicaInv, CommitInv, WithinInv, WalInv, AckInv, HistoryInv, ElectionInv
  <1>2. CASE UNCHANGED skVars
    BY <1>1, <1>2, LogMoves DEF Service!Next
  <1>3. ASSUME UNCHANGED committed, NEW s \in Safekeepers, LsnMove(s)
        PROVE  Service!Next
    <2>1. Advances(s) /\ OthersRest(s)
      BY <1>1, <1>3, CommitLsnStep DEF LsnMove
    <2>2. Service!Serve(s) \/ Service!Restart(s)
      BY <1>3, <2>1, ServeOrRestart
    <2> QED BY <2>2 DEF Service!Next
  <1> QED BY <1>1, <1>2, <1>3, LsnMoves

\* The safekeepers are the log service that WalService describes: one log, which only
\* grows, of which each serves a part; what a reader has been given is in the log for
\* ever, and a restart takes a safekeeper back to what it has saved, no further.
THEOREM SafekeepersAreTheLog == QuorumsIntersect => (Spec => ImplementsWalService)
PROOF
  <1> SUFFICES ASSUME QuorumsIntersect PROVE Spec => ImplementsWalService
    OBVIOUS
  <1>1. Init => Service!Init
    <2> SUFFICES ASSUME Init
                 PROVE  Service!Init
      OBVIOUS
    <2>1. ASSUME NEW s \in Safekeepers
          PROVE  WalUpTo(s, inmem[s].commit) = <<>> /\ WalUpTo(s, cf[s].commit) = <<>>
      <3>1. wal[s] = <<>> /\ inmem[s].commit = StartLsn /\ cf[s].commit = StartLsn
        BY DEF Init, SafekeeperInit
      <3>2. StartLsn - StartLsn = 0 /\ SubSeq(<<>>, 1, 0) = <<>>
        BY LsnAssumption
      <3> QED BY <3>1, <3>2 DEF WalUpTo
    <2> QED BY <2>1 DEF Init, Service!Init
  <1>2. ReplicaInv => ServesLog
    BY LogIsServed
  <1>3. ReplicaInv /\ ServesLog /\ ServesLog' /\ [Next]_vars => [Service!Next]_(Service!serviceVars)
    BY ServiceStep
  <1>4. Spec => []ReplicaInv
    BY ReplicaInvHolds
  <1> QED BY <1>1, <1>2, <1>3, <1>4, PTL DEF Spec, ImplementsWalService, Service!Spec


-----------------------------------------------------------------------------
(* peer_horizon_lsn *)

\* A quorum protects WAL beyond l, and every safekeeper has it as far as l.
Kept(l) ==
  \E c \in Lsns, gen \in DOMAIN Conf : \E g :
    l <= c /\ Durable(g, c, gen) /\ \A s \in Safekeepers : Holds(g, s, l)

HorizonsKept == \A l : IsHorizon(l) /\ l # 0 => l <= LogEnd /\ Kept(l)

\* What was acknowledged to an elected walproposer, up to its commitLsn, is on disk.
LeadersHold ==
  \A p \in Proposers, c \in Lsns : \A g :
    wp[p].state = "ELECTED" /\ c = wp[p].commit /\ g = wp[p].hist =>
      \A s \in Safekeepers, f \in Lsns : f <= c /\ AckedAt(p, s, f) => Holds(g, s, f)

SyncedInLog == \A p \in Proposers : wp[p].state = "SYNCED" => wp[p].start <= LogEnd

HorizonInv == ReplicaInv /\ LeadersHold /\ HorizonsKept /\ SyncedInLog

\* What all safekeepers have, they go on having.
LEMMA KeptStays ==
  ASSUME QuorumsIntersect, CommitInv, CommitInv', Step, NEW l \in Lsns, Kept(l)
  PROVE  Kept(l)'
PROOF
  <1>0. HistoryInv /\ ElectionInv' /\ TypeOK' /\ l \in Int
    BY LsnRange DEF CommitInv, WithinInv, WalInv, AckInv, HistoryInv, ElectionInv
  <1>1. PICK c \in Lsns, gen \in DOMAIN Conf : \E g :
               l <= c /\ Durable(g, c, gen) /\ \A s \in Safekeepers : Holds(g, s, l)
    BY DEF Kept
  <1>2. PICK g : l <= c /\ Durable(g, c, gen) /\ \A s \in Safekeepers : Holds(g, s, l)
    BY <1>1
  <1>3. Durable(g, c, gen)'
    BY <1>0, <1>2, DurableStays
  <1>4. c \in Int /\ WellFormed(g) /\ Shared(g, c)
    BY <1>2, LsnRange DEF Durable, Outlasts, Rooted
  <1>5. ASSUME NEW s \in Safekeepers
        PROVE  Holds(g, s, l)'
    BY <1>0, <1>2, <1>4, HoldsOn
  <1> QED BY <1>2, <1>3, <1>5 DEF Kept

\* WAL that was acknowledged stays on disk while its walproposer leads.
LEMMA LeadersHoldStep ==
  ASSUME CommitInv, CommitInv', Step, CommitMove, LeadersHold
  PROVE  LeadersHold'
PROOF
  <1>0. /\ TypeOK /\ TypeOK' /\ HistoryInv /\ AckInv /\ AcksOfTerm /\ NoCommitYet
        /\ LeadersCommit /\ \A l \in Lsns : l \in Int /\ l # 0
    BY Ranges, OptRanges
       DEF CommitInv, WithinInv, WalInv, AckInv, HistoryInv, ElectionInv
  <1> SUFFICES ASSUME NEW p \in Proposers, NEW c \in Lsns, NEW g,
                      wp'[p].state = "ELECTED", c = wp'[p].commit, g = wp'[p].hist,
                      NEW s \in Safekeepers, NEW f \in Lsns, f <= c, AckedAt(p, s, f)'
               PROVE  Holds(g, s, f)'
    BY DEF LeadersHold
  <1>1. \/ c = wp[p].commit
        \/ /\ c # wp[p].commit
           /\ \E x \in Safekeepers : Acknowledges(p, x) /\ c = Acknowledged(p, x, Answer(p, x)).commit
    <2>1. CASE Unmoved(p)
      BY <2>1 DEF Unmoved
    <2>2. ASSUME NEW x \in Safekeepers, Commits(p, x)
          PROVE  Acknowledges(p, x) /\ c = Acknowledged(p, x, Answer(p, x)).commit
      <3>1. Exited("SYNCED", wp[p].start).state = "SYNCED"
        BY DEF Exited, NewProposer
      <3> QED BY <2>2, <3>1 DEF Commits
    <2>3. Unmoved(p) \/ \E x \in Safekeepers : Commits(p, x)
      BY DEF CommitMove, Commits
    <2> QED BY <2>1, <2>2, <2>3
  <1>2. wp[p].state = "ELECTED" /\ Leads(p)
    <2>1. wp[p].state = "ELECTED"
      <3>1. ASSUME NEW x \in Safekeepers, Acknowledges(p, x) PROVE wp[p].state = "ELECTED"
        BY <1>0, <3>1, NewCommitFacts
      <3> QED BY <1>0, <1>1, <3>1 DEF NoCommitYet
    <2> QED BY <1>0, <2>1, ElectedMoves
  <1>3. g = wp[p].hist /\ HighestTerm(g) = wp[p].term
    BY <1>0, <1>2, LeaderNumbers DEF Leads
  <1>4. CASE AckedAt(p, s, f)
    <2>1. Shared(g, c) /\ WellFormed(g) /\ Holds(g, s, f)
      <3>1. CASE c = wp[p].commit
        <4>1. Durable(g, c, wp[p].gen)
          BY <1>0, <1>2, <1>3, <3>1 DEF LeadersCommit
        <4>2. Holds(g, s, f)
          BY <1>2, <1>3, <1>4, <3>1 DEF LeadersHold
        <4> QED BY <4>1, <4>2 DEF Durable, Outlasts, Rooted
      <3>2. ASSUME NEW x \in Safekeepers, Acknowledges(p, x), c # wp[p].commit,
                   c = Acknowledged(p, x, Answer(p, x)).commit
            PROVE  Shared(g, c) /\ WellFormed(g) /\ Holds(g, s, f)
        <4>1. Prepared(p, g, c)
          BY <1>3, <3>2, NewCommitPrepared
        <4> QED BY <1>4, <4>1 DEF Prepared, Outlasts, Rooted
      <3> QED BY <1>1, <3>1, <3>2
    <2> QED BY <1>0, <2>1, HoldsOn
  <1>5. CASE flushLsn'[s] >= f /\ HighestTerm(cf'[s].hist) = wp[p].term
    <2>1. wp[p].term \in Int
      BY <1>0, TermTypes
    <2> QED BY <1>3, <1>5, <2>1 DEF Holds
  <1> QED BY <1>0, <1>2, <1>4, <1>5, AckedCame

\* The truncateLsn that an acknowledgement from x leads to.
RaisesHorizon(p, x, l) ==
  LET w   == Acknowledged(p, x, Answer(p, x))
      log == WalOf(wp[p].hist, StartLsn, w.commit)
  IN  /\ Acknowledges(p, x) /\ l = w.truncate
      /\ committed' = IF Len(log) > Len(committed) THEN log ELSE committed

\* CalculateMinFlushLsn
LEMMA MinFlushLsnIsLeast ==
  ASSUME NEW flush \in [Safekeepers -> OptLsns], NEW s \in Safekeepers
  PROVE  MinFlushLsn(flush) <= flush[s]
PROOF
  <1> DEFINE T == {flush[x] : x \in Safekeepers}
  <1>1. T \in SUBSET OptLsns /\ flush[s] \in T
    OBVIOUS
  <1>2. MinFlushLsn(flush) = Min(T)
    BY DEF MinFlushLsn
  <1> HIDE DEF T
  <1>3. T \in SUBSET Nat /\ \A x \in T : x <= MaxLsn
    BY <1>1, OptBounds
  <1>4. IsFiniteSet(T)
    BY <1>3, Ranges, FS_BoundedSetOfNaturals
  <1>5. T \subseteq Int /\ T # {}
    BY <1>1, <1>3
  <1>6. \A y \in T : Min(T) <= y
    BY <1>4, <1>5, MinProperties
  <1> QED BY <1>1, <1>2, <1>6

\* A truncateLsn that goes up stays below what all have acknowledged, and below commitLsn.
LEMMA RaisedHorizonKept ==
  ASSUME CommitInv, LeadersHold, NEW p \in Proposers, NEW x \in Safekeepers, Acknowledges(p, x),
         NEW l, l = Acknowledged(p, x, Answer(p, x)).truncate, l # 0, l # wp[p].truncate
  PROVE  l \in Lsns /\ Kept(l) /\ l <= Acknowledged(p, x, Answer(p, x)).commit
PROOF
  <1> DEFINE m == Answer(p, x)
             w == Acknowledged(p, x, m)
             flush == [y \in Safekeepers |-> IF y = x THEN m.flush ELSE sks[p][y].flush]
             least == MinFlushLsn(flush)
             c == w.commit
             g == wp[p].hist
  <1>0. TypeOK /\ AcksOfTerm
    BY DEF CommitInv, WithinInv, WalInv, AckInv, HistoryInv, ElectionInv
  <1>1. /\ wp[p].state = "ELECTED" /\ wp[p].gen \in DOMAIN Conf
        /\ flush \in [Safekeepers -> OptLsns] /\ c \in OptLsns
    BY <1>0, NewCommitFacts
  <1>2. wp[p] \in ProposerRecords /\ wp[p].truncate \in OptLsns
    BY <1>0, Parts, OneRecord, ProposerFacts
  <1>3. least \in OptLsns /\ \A y \in Safekeepers : least <= flush[y]
    BY <1>1, MinFlushLsnType, MinFlushLsnIsLeast
  <1>4. l = Higher(wp[p].truncate, Lower(least, c))
    BY <1>2 DEF Acknowledged, ProposerRecords
  <1>5. \A y \in Safekeepers : flush[y] = IF y = x THEN m.flush ELSE sks[p][y].flush
    OBVIOUS
  <1>6. \A y \in Safekeepers : flush[y] \in OptLsns
    BY <1>1
  <1> HIDE DEF flush, least, c, w
  <1>7. least \in Nat /\ c \in Nat /\ wp[p].truncate \in Nat /\ \A y \in Safekeepers : flush[y] \in Nat
    BY <1>1, <1>2, <1>3, <1>6, OptRanges
  <1>8. l = Lower(least, c) /\ l \in OptLsns
    BY <1>1, <1>3, <1>4, <1>7 DEF Higher, Lower
  <1>9. l \in Lsns /\ l \in Nat /\ l <= c /\ l <= least /\ c # 0
    BY <1>7, <1>8, OptRanges DEF Lower
  <1>10. c \in Lsns
    BY <1>1, <1>9, OptRanges
  <1>11. ASSUME NEW s \in Safekeepers
         PROVE  AckedAt(p, s, l)
    <2>1. flush[s] >= l
      BY <1>3, <1>7, <1>9
    <2>2. (IF s = x THEN m.flush ELSE sks[p][s].flush) >= l
      BY <1>5, <2>1
    <2> QED BY <1>0, <1>9, <2>2, CountedIsAcked
  <1>12. c = Acknowledged(p, x, Answer(p, x)).commit
    BY DEF c, w
  <1>13. Durable(g, c, wp[p].gen)
    BY <1>10, <1>12, CommitIsDurable
  <1>14. ASSUME NEW s \in Safekeepers
         PROVE  Holds(g, s, l)
    <2>1. CASE c = wp[p].commit
      BY <1>1, <1>9, <1>10, <1>11, <2>1 DEF LeadersHold
    <2>2. CASE c # wp[p].commit
      <3>1. Prepared(p, g, c)
        BY <1>10, <1>12, <2>2, NewCommitPrepared
      <3> QED BY <1>9, <1>11, <3>1 DEF Prepared
    <2> QED BY <2>1, <2>2
  <1> QED BY <1>1, <1>9, <1>10, <1>12, <1>13, <1>14 DEF Kept


\* A horizon was there before, or an acknowledgement has just raised truncateLsn.
LEMMA HorizonMoves ==
  ASSUME TypeOK, TypeOK', Step, CommitMove, [Next]_vars, NEW l, IsHorizon(l)'
  PROVE  IsHorizon(l) \/ \E p \in Proposers, x \in Safekeepers : RaisesHorizon(p, x, l)
PROOF
  <1>0. Moves
    BY DEF Step, QuietMove, WinMove
  <1>1. ASSUME NEW s \in Safekeepers, l = inmem'[s].horizon \/ l = cf'[s].horizon
        PROVE  IsHorizon(l)
    <2>1. CASE UNCHANGED skVars
      BY <1>1, <2>1 DEF skVars, IsHorizon
    <2>2. ASSUME NEW x \in Safekeepers, LsnMove(x), x # s
          PROVE  IsHorizon(l)
      BY <1>1, <2>2 DEF LsnMove, OthersRest, IsHorizon
    <2>3. CASE LsnMove(s)
      <3>1. HorizonCame(s)
        BY <2>3 DEF LsnMove
      <3>2. ASSUME NEW k \in Kinds, NEW p \in Proposers, FirstMessage(k, p, s, "AppendRequest"),
                   l = Message(k, p, s).truncate
            PROVE  IsHorizon(l)
        <4>1. /\ Message(k, p, s) \in ToSet(conn[k][p][s].queue)
              /\ Message(k, p, s).type = "AppendRequest"
          BY <3>2, MessageCame
        <4> QED BY <3>2, <4>1 DEF IsHorizon
      <3>3. /\ l = inmem[s].horizon \/ l = cf[s].horizon => IsHorizon(l)
            /\ \A peer \in Safekeepers : l = broker[peer].horizon => IsHorizon(l)
        BY DEF IsHorizon
      <3> QED BY <1>1, <3>1, <3>2, <3>3 DEF HorizonCame, SavedHorizon
    <2> QED BY <2>1, <2>2, <2>3, LsnMoves
  <1>2. ASSUME NEW p \in Proposers, wp'[p].state = "ELECTED", l = wp'[p].truncate
        PROVE  IsHorizon(l) \/ \E x \in Safekeepers : RaisesHorizon(p, x, l)
    <2>1. ASSUME NEW s \in Safekeepers, NEW donor \in Safekeepers, Wins(p, s, donor)
          PROVE  IsHorizon(l)
      BY <1>2, <2>1, WinnersHorizon DEF Wins
    <2>2. CASE wp[p].state = "ELECTED" /\ Unmoved(p)
      BY <1>2, <2>2 DEF Unmoved, IsHorizon
    <2>3. ASSUME NEW x \in Safekeepers, Commits(p, x)
          PROVE  RaisesHorizon(p, x, l)
      <3>1. Exited("SYNCED", wp[p].start).state = "SYNCED"
        BY DEF Exited, NewProposer
      <3> QED BY <1>2, <2>3, <3>1 DEF Commits, RaisesHorizon
    <2>4. Unmoved(p) \/ \E x \in Safekeepers : Commits(p, x)
      BY DEF CommitMove, Commits
    <2> QED BY <1>2, <2>1, <2>2, <2>3, <2>4, ElectedMoves
  <1>3. ASSUME NEW k \in Kinds, NEW p \in Proposers, NEW s \in Safekeepers,
               NEW m \in ToSet(conn'[k][p][s].queue), m.type = "AppendRequest", l = m.truncate
        PROVE  IsHorizon(l) \/ \E x \in Safekeepers : RaisesHorizon(p, x, l)
    <2>1. CASE m \in ToSet(conn[k][p][s].queue)
      BY <1>3, <2>1 DEF IsHorizon
    <2>2. CASE m \in ToSet(conn["live"][p][s].queue)
      BY <1>3, <2>2 DEF IsHorizon, Kinds
    <2>3. CASE NewMessage(p, s, m)
      <3>1. NewsOf(p, m) /\ wp[p].state = "ELECTED"
        BY <1>3, <2>3, SentMessages DEF NewAppend
      <3>2. CASE m.truncate = wp[p].truncate
        BY <1>3, <3>1, <3>2 DEF IsHorizon
      <3>3. ASSUME NEW x \in Safekeepers, ReceiveAppendResponse(p, x), Acknowledges(p, x),
                   m.truncate = Acknowledged(p, x, Answer(p, x)).truncate
            PROVE  RaisesHorizon(p, x, l)
        BY <1>3, <3>3 DEF ReceiveAppendResponse, NowCommitted, RaisesHorizon
      <3> QED BY <3>1, <3>2, <3>3 DEF NewsOf
    <2> QED BY <1>0, <1>3, <2>1, <2>2, <2>3, QueueMoves
  <1>4. ASSUME NEW p \in Proposers, NEW s \in Safekeepers, NEW m \in ToSet(toWp'[p][s]),
               m.type = "Vote", l = m.truncate
        PROVE  IsHorizon(l)
    <2>1. CASE m \in ToSet(toWp[p][s])
      BY <1>4, <2>1 DEF IsHorizon
    <2>2. CASE m \notin ToSet(toWp[p][s])
      <3>1. m.truncate = inmem[s].horizon
        BY <1>0, <1>4, <2>2, VoteCame DEF NewVote, VoteReply
      <3> QED BY <1>4, <3>1 DEF IsHorizon
    <2> QED BY <2>1, <2>2
  <1>5. ASSUME NEW p \in Proposers, NEW s \in Safekeepers, sks'[p][s].state = "WAIT_ELECTED",
               l = sks'[p][s].vote.truncate
        PROVE  IsHorizon(l)
    <2>1. CASE sks[p][s].state = "WAIT_ELECTED" /\ sks'[p][s].vote = sks[p][s].vote
      BY <1>5, <2>1 DEF IsHorizon
    <2>2. ASSUME NEW m \in ToSet(toWp[p][s]), Given(m), sks'[p][s].vote = VoteOf(m)
          PROVE  IsHorizon(l)
      BY <1>5, <2>2 DEF Given, VoteOf, IsHorizon
    <2> QED BY <1>5, <2>1, <2>2, CountedCame
  <1>6. ASSUME NEW s \in Safekeepers, l = broker'[s].horizon
        PROVE  IsHorizon(l)
    <2>1. broker'[s] = broker[s] \/ broker'[s] = SafekeeperInfo(s)
      BY BrokerMoves
    <2> QED BY <1>6, <2>1 DEF SafekeeperInfo, IsHorizon
  <1> QED BY <1>1, <1>2, <1>3, <1>4, <1>5, <1>6 DEF IsHorizon

\* Horizons are LSNs.
LEMMA HorizonTypes ==
  ASSUME TypeOK, NEW l, IsHorizon(l)
  PROVE  l \in OptLsns
PROOF
  <1>1. \A s \in Safekeepers : /\ inmem[s].horizon \in OptLsns /\ cf[s].horizon \in OptLsns
                              /\ broker[s].horizon \in OptLsns
    BY Parts, SafekeeperFacts, OptRanges DEF BrokerOK, Infos
  <1>2. \A p \in Proposers : wp[p].truncate \in OptLsns
    <2>1. \A p \in Proposers : wp[p] \in ProposerRecords
      BY Parts DEF WalProposerOK, WalProposerTypeOK
    <2> QED BY <2>1, ProposerFacts
  <1>3. ASSUME NEW k \in Kinds, NEW p \in Proposers, NEW s \in Safekeepers,
               NEW m \in ToSet(conn[k][p][s].queue), m.type = "AppendRequest"
        PROVE  m.truncate \in OptLsns
    <2>1. m \in ToSafekeeper
      BY QueuedType
    <2> QED BY <1>3, <2>1 DEF ToSafekeeper
  <1>4. ASSUME NEW p \in Proposers, NEW s \in Safekeepers, NEW m \in ToSet(toWp[p][s]),
               m.type = "Vote"
        PROVE  m.truncate \in OptLsns
    BY <1>4, AnsweringType, AnswerFacts, OptRanges
  <1>5. \A p \in Proposers, s \in Safekeepers : sks[p][s].vote.truncate \in OptLsns
    BY Parts, OneRecord, SafekeeperRecordFacts, VoteFacts
  <1> QED BY <1>1, <1>2, <1>3, <1>4, <1>5 DEF IsHorizon

\* All horizons, after a step.
LEMMA HorizonsKeptStep ==
  ASSUME QuorumsIntersect, HorizonInv, CommitInv', Step, CommitMove, [Next]_vars,
         IsPrefix(committed, committed')
  PROVE  HorizonsKept'
PROOF
  <1>0. TypeOK /\ TypeOK' /\ CommitInv /\ LeadersHold /\ HorizonsKept
    BY DEF HorizonInv, ReplicaInv, CommitInv, WithinInv, WalInv, AckInv, HistoryInv, ElectionInv
  <1>1. LogEnd \in Int /\ LogEnd' \in Int /\ LogEnd <= LogEnd' /\ committed' \in Seq(Terms)
    BY <1>0, LogGrows
  <1>2. ASSUME NEW l, l # 0, IsHorizon(l)
        PROVE  l <= LogEnd' /\ Kept(l)'
    <2>1. l \in Lsns /\ l \in Int
      BY <1>0, <1>2, HorizonTypes, OptRanges
    <2>2. l <= LogEnd /\ Kept(l)
      BY <1>0, <1>2 DEF HorizonsKept
    <2> QED BY <1>0, <1>1, <2>1, <2>2, KeptStays
  <1>3. ASSUME NEW l, l # 0, NEW p \in Proposers, NEW x \in Safekeepers, RaisesHorizon(p, x, l)
        PROVE  l <= LogEnd' /\ Kept(l)'
    <2> DEFINE c == Acknowledged(p, x, Answer(p, x)).commit
    <2>1. Acknowledges(p, x) /\ l = Acknowledged(p, x, Answer(p, x)).truncate
      BY <1>3 DEF RaisesHorizon
    <2>2. CASE l = wp[p].truncate
      <3>1. wp[p].state = "ELECTED"
        BY <1>0, <2>1, NewCommitFacts
      <3>2. IsHorizon(l)
        BY <2>2, <3>1 DEF IsHorizon
      <3> QED BY <1>2, <1>3, <3>2
    <2>3. CASE l # wp[p].truncate
      <3>1. l \in Lsns /\ Kept(l) /\ l <= c
        BY <1>0, <1>3, <2>1, <2>3, RaisedHorizonKept
      <3>2. c <= LogEnd'
        BY <1>0, <1>1, <1>3, <2>1, NewCommitInLog DEF RaisesHorizon
      <3>3. c \in Int /\ l \in Int
        BY <1>0, <2>1, <3>1, NewCommitFacts, OptRanges
      <3> HIDE DEF c
      <3>4. l <= LogEnd'
        BY <1>1, <3>1, <3>2, <3>3
      <3> QED BY <1>0, <3>1, <3>4, KeptStays
    <2> QED BY <2>2, <2>3
  <1>4. ASSUME NEW l, IsHorizon(l)', l # 0
        PROVE  (l <= LogEnd /\ Kept(l))'
    BY <1>0, <1>2, <1>3, <1>4, HorizonMoves
  <1> QED BY <1>4 DEF HorizonsKept

\* sync-safekeepers ends with an LSN that is in the log.
LEMMA SyncedInLogStep ==
  ASSUME HorizonInv, CommitInv', CommitMove, IsPrefix(committed, committed')
  PROVE  SyncedInLog'
PROOF
  <1>0. TypeOK /\ TypeOK' /\ CommitInv /\ HorizonsKept /\ SyncedInLog
    BY DEF HorizonInv, ReplicaInv, CommitInv, WithinInv, WalInv, AckInv, HistoryInv, ElectionInv
  <1>1. /\ LogEnd \in Int /\ LogEnd' \in Int /\ LogEnd <= LogEnd' /\ committed' \in Seq(Terms)
        /\ 0 <= LogEnd
    BY <1>0, LogGrows, Ranges, OptRanges, LsnRange
  <1>2. \A p \in Proposers : wp'[p].start \in Int
    <2>1. \A p \in Proposers : wp'[p] \in ProposerRecords
      BY <1>0 DEF TypeOK, WalProposerOK, WalProposerTypeOK
    <2> QED BY <2>1, ProposerFacts, OptRanges
  <1>3. ASSUME NEW p \in Proposers, wp'[p].state = "SYNCED", Unmoved(p)
        PROVE  wp'[p].start <= LogEnd'
    <2>1. CASE wp'[p] = wp[p]
      <3>1. wp'[p].start <= LogEnd
        BY <1>0, <1>3, <2>1 DEF SyncedInLog
      <3> QED BY <1>1, <1>2, <3>1
    <2>2. CASE IsHorizon(wp'[p].start)
      <3>1. wp'[p].start = 0 \/ wp'[p].start <= LogEnd
        BY <1>0, <2>2 DEF HorizonsKept
      <3> QED BY <1>1, <1>2, <3>1
    <2> QED BY <1>3, <2>1, <2>2 DEF Unmoved
  <1>4. ASSUME NEW p \in Proposers, NEW s \in Safekeepers, wp'[p].state = "SYNCED", Commits(p, s)
        PROVE  wp'[p].start <= LogEnd'
    <2> DEFINE w == Acknowledged(p, s, Answer(p, s))
               flush == [x \in Safekeepers |-> IF x = s THEN Answer(p, s).flush ELSE sks[p][x].flush]
               a == AcknowledgedByQuorum(p, flush)
    <2>1. /\ w.state = "ELECTED" /\ w.commit \in OptLsns /\ w.commit >= a
          /\ wp[p].gen \in DOMAIN Conf /\ flush \in [Safekeepers -> OptLsns]
      BY <1>0, <1>4, NewCommitFacts DEF Commits
    <2>2. wp'[p] = Exited("SYNCED", wp[p].start) /\ SyncFinished(p, s, Answer(p, s))
      BY <1>4, <2>1 DEF Commits
    <2>3. wp'[p].start = wp[p].start
      BY <2>2 DEF Exited, NewProposer
    <2>4. a >= wp[p].start
      BY <2>2 DEF SyncFinished
    <2>5. w.commit <= LogEnd'
      BY <1>0, <1>1, <1>4, NewCommitInLog DEF Commits
    <2>6. a \in Int /\ w.commit \in Int
      BY <2>1, AcknowledgedByQuorumType, OptRanges
    <2> HIDE DEF w, a, flush
    <2> QED BY <1>1, <1>2, <2>1, <2>3, <2>4, <2>5, <2>6
  <1>5. ASSUME NEW q \in Proposers, wp'[q].state = "SYNCED"
        PROVE  wp'[q].start <= LogEnd'
    <2>1. Unmoved(q) \/ \E s \in Safekeepers : Commits(q, s)
      BY DEF CommitMove, Commits
    <2> QED BY <1>3, <1>4, <1>5, <2>1
  <1> QED BY <1>5 DEF SyncedInLog

\* At first the horizons are where WAL begins.
LEMMA HorizonInit == Init => HorizonInv
PROOF
  <1> SUFFICES ASSUME Init
               PROVE  HorizonInv
    OBVIOUS
  <1>0. ReplicaInv /\ CommitInv /\ TypeOK
    BY ReplicaInit DEF ReplicaInv, CommitInv, WithinInv, WalInv, AckInv, HistoryInv, ElectionInv
  <1>1. LogEnd = StartLsn /\ StartLsn \in Lsns /\ StartLsn \in Int
    BY Ranges, LsnAssumption DEF Init, LogEnd
  <1>2. /\ \A k \in Kinds, p \in Proposers, s \in Safekeepers : ToSet(conn[k][p][s].queue) = {}
        /\ \A p \in Proposers, s \in Safekeepers :
             ToSet(toWp[p][s]) = {} /\ sks[p][s].state = "OFFLINE"
        /\ \A p \in Proposers : wp[p].state = "COLLECTING_TERMS"
        /\ \A s \in Safekeepers : /\ cf[s].hist = <<[term |-> 0, lsn |-> StartLsn]>>
                                  /\ flushLsn[s] = StartLsn /\ cf[s].horizon = StartLsn
                                  /\ inmem[s].horizon = StartLsn
                                  /\ broker[s].horizon = StartLsn
        /\ won = {}
    BY SmallQueues DEF Init, SafekeeperInit, WalProposerInit, Closed, Offline, NewProposer,
                       SafekeeperInfo
  <1>3. LeadersHold /\ SyncedInLog
    BY <1>2 DEF LeadersHold, SyncedInLog
  <1>4. ASSUME NEW l, IsHorizon(l)
        PROVE  l = StartLsn
    <2>1. \E s \in Safekeepers : \/ l = inmem[s].horizon \/ l = cf[s].horizon
                                 \/ l = broker[s].horizon
      <3>1. ~(\E p \in Proposers : wp[p].state = "ELECTED" /\ l = wp[p].truncate)
        BY <1>2
      <3>2. ~(\E p \in Proposers, s \in Safekeepers :
                sks[p][s].state = "WAIT_ELECTED" /\ l = sks[p][s].vote.truncate)
        BY <1>2
      <3> QED BY <1>2, <1>4, <3>1, <3>2 DEF IsHorizon
    <2> QED BY <1>2, <2>1
  <1>5. Kept(StartLsn)
    <2>1. PICK gen \in DOMAIN Conf : \E g : Durable(g, LogEnd, gen)
      BY <1>0, LogFacts
    <2>2. PICK g : Durable(g, LogEnd, gen)
      BY <2>1
    <2>3. HighestTerm(g) = 0
      <3>1. ~Won(HighestTerm(g))
        BY <1>2 DEF Won
      <3> QED BY <2>2, <3>1 DEF Durable, Outlasts, Rooted
    <2>4. ASSUME NEW s \in Safekeepers
          PROVE  Holds(g, s, StartLsn)
      <3>1. WellFormed(cf[s].hist)
        BY <1>0 DEF CommitInv, WithinInv, WalInv, AckInv, HistoryInv, KnownAreSound, IsKnown
      <3>2. HighestTerm(cf[s].hist) \in Nat
        BY <3>1, WellFormedFacts
      <3> QED BY <1>1, <1>2, <2>3, <3>2 DEF Holds
    <2>5. Durable(g, StartLsn, gen)
      BY <1>1, <2>2
    <2> QED BY <1>1, <2>4, <2>5 DEF Kept
  <1>6. HorizonsKept
    BY <1>1, <1>4, <1>5 DEF HorizonsKept
  <1> QED BY <1>0, <1>3, <1>6 DEF HorizonInv

\* The invariant behind the two theorems below.
LEMMA HorizonInvHolds == QuorumsIntersect => (Spec => []HorizonInv)
PROOF
  <1> SUFFICES ASSUME QuorumsIntersect PROVE Spec => []HorizonInv
    OBVIOUS
  <1>1. Init => HorizonInv
    BY HorizonInit
  <1>2. HorizonInv /\ [Next]_vars => HorizonInv'
    <2> SUFFICES ASSUME HorizonInv, [Next]_vars
                 PROVE  HorizonInv'
      OBVIOUS
    <2>1. ReplicaInv /\ CommitInv /\ LeadersHold
      BY DEF HorizonInv, ReplicaInv
    <2>2. ReplicaInv' /\ CommitInv' /\ Step /\ CommitMove /\ IsPrefix(committed, committed')
      BY <2>1, ReplicaNext
    <2>3. LeadersHold'
      BY <2>1, <2>2, LeadersHoldStep
    <2>4. HorizonsKept'
      BY <2>2, HorizonsKeptStep
    <2>5. SyncedInLog'
      BY <2>2, SyncedInLogStep
    <2> QED BY <2>2, <2>3, <2>4, <2>5 DEF HorizonInv
  <1> QED BY <1>1, <1>2, PTL DEF Spec

\* Safekeepers may delete WAL below peer_horizon_lsn: all of them have flushed it, and it
\* is committed, whatever elections, crashes and late messages came in between.
THEOREM HorizonsAreFlushedEverywhere ==
  QuorumsIntersect => (Spec => []HorizonIsFlushedEverywhere)
PROOF
  <1>1. HorizonInv => HorizonIsFlushedEverywhere
    <2> SUFFICES ASSUME HorizonInv, NEW s \in Safekeepers, NEW x \in Safekeepers
                 PROVE  /\ inmem[s].horizon <= flushLsn[x]
                        /\ inmem[s].horizon <= StartLsn + Len(committed)
      BY DEF HorizonIsFlushedEverywhere
    <2> DEFINE l == inmem[s].horizon
    <2>0. TypeOK
      BY DEF HorizonInv, ReplicaInv, CommitInv, WithinInv, WalInv, AckInv, HistoryInv, ElectionInv
    <2>1. l \in Int /\ l # 0 /\ flushLsn[x] \in Int
      BY <2>0, Parts, SafekeeperFacts, SafekeeperNumbers, OptRanges
    <2>2. l <= LogEnd /\ Kept(l)
      BY <2>1 DEF HorizonInv, HorizonsKept, IsHorizon
    <2> HIDE DEF l
    <2>3. flushLsn[x] >= l
      BY <2>2 DEF Kept, Holds
    <2> QED BY <2>1, <2>2, <2>3 DEF LogEnd, l
  <1> QED BY <1>1, HorizonInvHolds, PTL

\* sync-safekeepers ends only with an LSN that is committed, so a basebackup at that LSN
\* stays valid.
THEOREM SyncedAreCommitted == QuorumsIntersect => (Spec => []SyncedIsCommitted)
PROOF
  <1>1. HorizonInv => SyncedIsCommitted
    BY DEF HorizonInv, SyncedInLog, LogEnd, SyncedIsCommitted
  <1> QED BY <1>1, HorizonInvHolds, PTL

=============================================================================
