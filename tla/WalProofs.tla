------------------------------ MODULE WalProofs ------------------------------
(***************************************************************************)
(* What becomes of WAL: flushed WAL is not cut as long as the term that    *)
(* acknowledged it lasts, what walproposer has been told is on disk is on  *)
(* disk, and the history of a safekeeper describes its WAL.  Everything    *)
(* that is stored or on its way in the term of an elected walproposer lies *)
(* within the WAL it has, so that walproposer's assertions hold.           *)
(***************************************************************************)
EXTENDS HistoryProofs

-----------------------------------------------------------------------------
(* Promises *)

HorizonsInOrder == \A s \in Safekeepers : cf[s].horizon <= inmem[s].horizon

\* An announcement of the term that a safekeeper follows already.
LEMMA SameTermNotCut ==
  ASSUME HistoryInv, NEW k \in Kinds, NEW p \in Proposers, NEW s \in Safekeepers,
         NEW m \in ToSet(conn[k][p][s].queue), m.type = "ProposerElected",
         ElectedAccepted(s, m), m.term = HighestTerm(cf[s].hist)
  PROVE  m.hist = cf[s].hist /\ m.start = flushLsn[s]
PROOF
  <1>0. TypeOK /\ KnownAreSound /\ KnownAgree /\ MessagesAreWinners
    BY DEF HistoryInv, ElectionInv
  <1>1. IsKnown(m.hist) /\ IsKnown(cf[s].hist)
    BY DEF IsKnown
  <1>2. WellFormed(m.hist) /\ WellFormed(cf[s].hist) /\ Agree(m.hist, cf[s].hist)
    BY <1>0, <1>1 DEF KnownAreSound, KnownAgree
  <1>3. m.term = HighestTerm(m.hist)
    BY <1>0 DEF MessagesAreWinners
  <1>4. m.hist = cf[s].hist
    BY <1>2, <1>3, SameHighestTerm
  <1>5. flushLsn[s] \in Lsns
    BY <1>0, Parts, SafekeeperFacts
  <1>6. m.start = flushLsn[s]
    BY <1>2, <1>4, <1>5, SameHistoryNotCut DEF ElectedAccepted, ElectedExpected, TruncationPoint
  <1> QED BY <1>4, <1>6

\* Flushed WAL is not cut in the term whose history a safekeeper has.
LEMMA NotCut ==
  ASSUME HistoryInv, TypeOK', Step, NEW s \in Safekeepers, cf'[s].term = HighestTerm(cf[s].hist)
  PROVE  flushLsn'[s] >= flushLsn[s]
PROOF
  <1>0. TypeOK /\ Moves
    BY DEF HistoryInv, ElectionInv, Step, QuietMove, WinMove
  <1>1. SafekeeperMove(s)
    BY <1>0 DEF Moves
  <1>2. flushLsn[s] \in Int /\ WriteLsn(s) \in Int
    BY <1>0, Parts, SafekeeperNumbers
  <1>3. CASE Keeps(s)
    BY <1>3 DEF Keeps
  <1>4. CASE Restarts(s)
    <2>1. PICK lsn \in flushLsn[s]..WriteLsn(s) : flushLsn'[s] = lsn
      BY <1>4 DEF Restarts
    <2> QED BY <1>2, <2>1
  <1>5. ASSUME NEW m, Appends(s, m) PROVE flushLsn'[s] >= flushLsn[s]
    BY <1>5 DEF Appends
  <1>6. ASSUME NEW k \in Kinds, NEW p \in Proposers, FirstMessage(k, p, s, "ProposerElected"),
               Adopts(s, Message(k, p, s)) \/ RestartsIn(s, Message(k, p, s))
        PROVE  flushLsn'[s] >= flushLsn[s]
    <2> DEFINE m == Message(k, p, s)
    <2>1. m \in ToSet(conn[k][p][s].queue) /\ m.type = "ProposerElected"
      BY <1>0, <1>6, MessageCame
    <2> HIDE DEF m
    <2>2. ElectedAccepted(s, m) /\ cf'[s].term = m.term
      BY <1>6 DEF m, Adopts, RestartsIn
    <2>3. m.start = flushLsn[s]
      BY <2>1, <2>2, SameTermNotCut
    <2>4. CASE Adopts(s, m)
      BY <1>2, <2>3, <2>4 DEF Adopts
    <2>5. CASE RestartsIn(s, m)
      <3>1. PICK lsn \in m.start..WriteLsn(s) : flushLsn'[s] = lsn
        BY <2>5 DEF RestartsIn
      <3> QED BY <1>2, <2>3, <3>1
    <2> QED BY <1>6, <2>4, <2>5 DEF m
  <1> QED BY <1>1, <1>3, <1>4, <1>5, <1>6 DEF SafekeeperMove

\* peer_horizon_lsn does not go back on disk, nor below that in memory.
LEMMA HorizonStep ==
  ASSUME HistoryInv, TypeOK', Step, HorizonsInOrder
  PROVE  HorizonsInOrder' /\ \A s \in Safekeepers : cf'[s].horizon >= cf[s].horizon
PROOF
  <1>0. TypeOK /\ Moves
    BY DEF HistoryInv, ElectionInv, Step, QuietMove, WinMove
  <1> SUFFICES ASSUME NEW s \in Safekeepers
               PROVE  cf'[s].horizon <= inmem'[s].horizon /\ cf'[s].horizon >= cf[s].horizon
    BY DEF HorizonsInOrder
  <1>1. HorizonMove(s)
    BY <1>0 DEF Moves, SafekeeperMove
  <1>2. /\ cf[s].horizon \in Int /\ inmem[s].horizon \in Int
        /\ cf'[s].horizon \in Int /\ inmem'[s].horizon \in Int
    <2>1. cf[s].horizon \in Lsns /\ inmem[s].horizon \in Lsns
      BY <1>0, Parts, SafekeeperFacts
    <2>2. cf'[s].horizon \in Lsns /\ inmem'[s].horizon \in Lsns
      BY PartsNext DEF SafekeeperTypeOK, ControlFiles
    <2> QED BY <2>1, <2>2, Ranges
  <1>3. cf[s].horizon <= inmem[s].horizon
    BY DEF HorizonsInOrder
  <1> QED BY <1>1, <1>2, <1>3 DEF HorizonMove

\* Nothing that a vote or an acknowledgement rests on is undone: the term and
\* peer_horizon_lsn of the control file do not go back, and no flushed WAL is cut in
\* the term that a safekeeper follows, whichever late ProposerElected it handles or
\* crashes in.
THEOREM PromisesHoldAlways == QuorumsIntersect => (Spec => PromisesAreKept)
PROOF
  <1> SUFFICES ASSUME QuorumsIntersect PROVE Spec => PromisesAreKept
    OBVIOUS
  <1> DEFINE Inv == HistoryInv /\ HorizonsInOrder
             Kept == \A s \in Safekeepers :
                       /\ cf'[s].term >= cf[s].term
                       /\ cf'[s].horizon >= cf[s].horizon
                       /\ cf'[s].term = HighestTerm(cf[s].hist) => flushLsn'[s] >= flushLsn[s]
  <1>1. Init => Inv
    <2> SUFFICES ASSUME Init PROVE HorizonsInOrder
      BY HistoryInit
    <2>1. \A s \in Safekeepers : cf[s].horizon = StartLsn /\ inmem[s].horizon = StartLsn
      BY DEF Init, SafekeeperInit
    <2> QED BY <2>1, Ranges DEF HorizonsInOrder
  <1>2. Inv /\ [Next]_vars => Inv'
    BY HistoryNext, HorizonStep
  <1>3. Inv /\ [Next]_vars => [Kept]_vars
    <2> SUFFICES ASSUME Inv, [Next]_vars PROVE Kept
      OBVIOUS
    <2>1. TypeOK' /\ Step
      BY HistoryNext
    <2> QED BY <2>1, FilesStep, HorizonStep, NotCut
  <1> HIDE DEF Inv
  <1>4. Spec => [][Kept]_vars
    BY <1>1, <1>2, <1>3, PTL DEF Spec
  <1> QED BY <1>4 DEF PromisesAreKept

-----------------------------------------------------------------------------
(* Acknowledgements *)

\* s has adopted the history of term t, or has gone on to a higher term.
Follows(s, t) == cf[s].term > t \/ HighestTerm(cf[s].hist) = t

Followed(s) == {t \in Terms : Follows(s, t)}

\* In queue q, every AppendRequest comes after the announcement of its term, unless
\* that has been adopted: its term is one of T.
InOrder(q, T) ==
  \A i \in 1..Len(q) :
    q[i].type = "AppendRequest" =>
      \/ q[i].term \in T
      \/ \E j \in 1..(i - 1) : q[j].type = "ProposerElected" /\ q[j].term = q[i].term

Announced(q, t) == \E m \in ToSet(q) : m.type = "ProposerElected" /\ m.term = t

ActiveFollow ==
  \A p \in Proposers, s \in Safekeepers :
    conn["live"][p][s].open /\ sks[p][s].state = "ACTIVE" =>
      wp[p].term \in Followed(s) \/ Announced(conn["live"][p][s].queue, wp[p].term)

QueuesInOrder ==
  \A k \in Kinds, p \in Proposers, s \in Safekeepers : InOrder(conn[k][p][s].queue, Followed(s))

\* What walproposer sends on a live connection once it is elected is of its term, and
\* WAL that came on it and is not flushed yet too.
LiveIsOwn ==
  \A p \in Proposers, s \in Safekeepers :
    /\ \A m \in ToSet(conn["live"][p][s].queue) :
         m.type # "VoteRequest" => wp[p].state = "ELECTED" /\ m.term = wp[p].term
    /\ conn["live"][p][s].dirty => wp[p].state = "ELECTED" /\ wp[p].term \in Followed(s)

\* flush is an LSN that s has reported to p.
Acked(p, s, flush) ==
  flush # 0 =>
    /\ wp[p].state = "ELECTED" /\ wp[p].term \in Followed(s)
    /\ cf[s].term = wp[p].term => flush <= flushLsn[s]

AcksAreTrue ==
  \A p \in Proposers, s \in Safekeepers :
    /\ \A m \in ToSet(toWp[p][s]) : m.type = "AppendResponse" => Acked(p, s, m.flush)
    /\ Acked(p, s, sks[p][s].flush)

AckInv == HistoryInv /\ ActiveFollow /\ QueuesInOrder /\ LiveIsOwn /\ AcksAreTrue

\* An order that more adopted terms do not disturb, ...
LEMMA InOrderMore ==
  ASSUME NEW q, NEW T, NEW U, InOrder(q, T), \A t \in T : t \in U
  PROVE  InOrder(q, U)
BY DEF InOrder

\* ... nor does taking the first message, if it is adopted, ...
LEMMA InOrderTail ==
  ASSUME NEW q \in Seq(ToSafekeeper), q # <<>>, NEW T, InOrder(q, T),
         Head(q).type = "ProposerElected" => Head(q).term \in T
  PROVE  InOrder(Tail(q), T)
PROOF
  <1>1. /\ Len(q) \in Nat /\ Len(q) >= 1 /\ Len(Tail(q)) = Len(q) - 1
        /\ \A i \in 1..Len(Tail(q)) : Tail(q)[i] = q[i + 1]
        /\ Head(q) = q[1]
    BY SeqFacts, HeadTailProperties
  <1> SUFFICES ASSUME NEW i \in 1..Len(Tail(q)), Tail(q)[i].type = "AppendRequest"
               PROVE  \/ Tail(q)[i].term \in T
                      \/ \E j \in 1..(i - 1) : /\ Tail(q)[j].type = "ProposerElected"
                                               /\ Tail(q)[j].term = Tail(q)[i].term
    BY DEF InOrder
  <1>2. i + 1 \in 1..Len(q) /\ Tail(q)[i] = q[i + 1]
    BY <1>1
  <1>3. \/ q[i + 1].term \in T
        \/ \E j \in 1..i : q[j].type = "ProposerElected" /\ q[j].term = q[i + 1].term
    BY <1>2 DEF InOrder
  <1>4. ASSUME NEW j \in 1..i, q[j].type = "ProposerElected", q[j].term = q[i + 1].term, j # 1
        PROVE  \E a \in 1..(i - 1) : /\ Tail(q)[a].type = "ProposerElected"
                                     /\ Tail(q)[a].term = q[i + 1].term
    <2>1. j - 1 \in 1..(i - 1) /\ j - 1 \in 1..Len(Tail(q)) /\ (j - 1) + 1 = j
      BY <1>1, <1>4
    <2>2. Tail(q)[j - 1] = q[j]
      BY <1>1, <2>1
    <2> QED BY <1>4, <2>1, <2>2
  <1> QED BY <1>1, <1>2, <1>3, <1>4

\* ... nor sending WAL of a term that is adopted or announced.
LEMMA InOrderAppend ==
  ASSUME NEW q \in Seq(ToSafekeeper), NEW m \in ToSafekeeper, NEW T, InOrder(q, T),
         m.type = "AppendRequest" => m.term \in T \/ Announced(q, m.term)
  PROVE  InOrder(Append(q, m), T)
PROOF
  <1> DEFINE n == Append(q, m)
  <1>1. Len(q) \in Nat /\ Len(n) = Len(q) + 1 /\ n[Len(q) + 1] = m /\ \A i \in 1..Len(q) : n[i] = q[i]
    BY SeqFacts, AppendProperties
  <1> HIDE DEF n
  <1> SUFFICES ASSUME NEW i \in 1..Len(n), n[i].type = "AppendRequest"
               PROVE  \/ n[i].term \in T
                      \/ \E j \in 1..(i - 1) : n[j].type = "ProposerElected" /\ n[j].term = n[i].term
    BY DEF InOrder, n
  <1>2. i \in 1..Len(q) \/ i = Len(q) + 1
    BY <1>1
  <1>3. CASE i \in 1..Len(q)
    <2>1. n[i] = q[i] /\ \A j \in 1..(i - 1) : n[j] = q[j]
      BY <1>1, <1>3
    <2>2. \/ q[i].term \in T
          \/ \E j \in 1..(i - 1) : q[j].type = "ProposerElected" /\ q[j].term = q[i].term
      BY <1>3, <2>1 DEF InOrder
    <2> QED BY <2>1, <2>2
  <1>4. CASE i = Len(q) + 1
    <2>1. n[i] = m /\ (m.term \in T \/ Announced(q, m.term))
      BY <1>1, <1>4
    <2>2. ASSUME NEW e \in ToSet(q), e.type = "ProposerElected", e.term = m.term
          PROVE  \E j \in 1..(i - 1) : n[j].type = "ProposerElected" /\ n[j].term = n[i].term
      <3>1. PICK j \in 1..Len(q) : e = q[j]
        BY RangeFacts
      <3>2. j \in 1..(i - 1) /\ n[j] = q[j]
        BY <1>1, <1>4, <3>1
      <3> QED BY <2>1, <2>2, <3>1, <3>2
    <2> QED BY <2>1, <2>2 DEF Announced
  <1> QED BY <1>2, <1>3, <1>4

\* The highest term of a history is a term.
LEMMA HistoryTerm ==
  ASSUME NEW g, WellFormed(g)
  PROVE  HighestTerm(g) \in Terms /\ HighestTerm(g) \in Int
PROOF
  <1>1. Len(g) \in 1..Len(g)
    BY WellFormedFacts
  <1> QED BY <1>1, WellFormedFacts

\* The terms of a safekeeper, before and after a step.
LEMMA FileTermsNow ==
  ASSUME HistoryInv, TypeOK', Step, NEW s \in Safekeepers
  PROVE  /\ cf[s].term \in Int /\ cf'[s].term \in Int /\ cf'[s].term >= cf[s].term
         /\ WellFormed(cf[s].hist) /\ HighestTerm(cf[s].hist) \in Int
         /\ HighestTerm(cf[s].hist) <= cf[s].term
PROOF
  <1>0. TypeOK /\ HistoriesWithinTerm /\ KnownAreSound
    BY DEF HistoryInv, ElectionInv
  <1>1. cf'[s].term \in Int
    <2>1. cf'[s].term \in Terms
      BY PartsNext DEF SafekeeperTypeOK, ControlFiles
    <2> QED BY <2>1, TermsAreInts
  <1>2. WellFormed(cf[s].hist)
    BY <1>0 DEF KnownAreSound, IsKnown
  <1> QED BY <1>0, <1>1, <1>2, HistoryTerm, TermTypes, FilesStep DEF HistoriesWithinTerm

\* The file's history, when a step replaces it, is that of an announcement.
LEMMA HistoryAdopted ==
  ASSUME HistoryInv, Step, NEW s \in Safekeepers, cf'[s].hist # cf[s].hist
  PROVE  \E k \in Kinds, p \in Proposers : \E m \in ToSet(conn[k][p][s].queue) :
           /\ m.type = "ProposerElected" /\ Adopts(s, m)
           /\ cf'[s].term = m.term /\ cf'[s].hist = m.hist /\ HighestTerm(m.hist) = m.term
           /\ cf[s].term <= m.term
PROOF
  <1>0. TypeOK /\ Moves /\ MessagesAreWinners
    BY DEF HistoryInv, ElectionInv, Step, QuietMove, WinMove
  <1>1. SafekeeperMove(s)
    BY <1>0 DEF Moves
  <1>2. PICK k \in Kinds, p \in Proposers :
               FirstMessage(k, p, s, "ProposerElected") /\ Adopts(s, Message(k, p, s))
    BY <1>1 DEF SafekeeperMove, Keeps, Restarts, Appends, RestartsIn
  <1> DEFINE m == Message(k, p, s)
  <1>3. m \in ToSet(conn[k][p][s].queue) /\ m.type = "ProposerElected"
    BY <1>0, <1>2, MessageCame
  <1>4. Adopts(s, m)
    BY <1>2
  <1> HIDE DEF m
  <1>5. HighestTerm(m.hist) = m.term
    BY <1>0, <1>3 DEF MessagesAreWinners
  <1>6. cf'[s].term = m.term /\ cf'[s].hist = m.hist /\ cf[s].term <= m.term
    BY <1>4 DEF Adopts, ElectedAccepted, ElectedExpected
  <1> QED BY <1>3, <1>4, <1>5, <1>6

\* Once a safekeeper follows a term, it does.
LEMMA FollowsStays ==
  ASSUME HistoryInv, TypeOK', Step, NEW s \in Safekeepers
  PROVE  \A t \in Terms : Follows(s, t) => Follows(s, t)'
PROOF
  <1> SUFFICES ASSUME NEW t \in Terms, Follows(s, t)
               PROVE  cf'[s].term > t \/ HighestTerm(cf'[s].hist) = t
    BY DEF Follows
  <1>1. /\ cf[s].term \in Int /\ cf'[s].term \in Int /\ cf'[s].term >= cf[s].term
        /\ HighestTerm(cf[s].hist) <= cf[s].term /\ HighestTerm(cf[s].hist) \in Int
        /\ t \in Int
    BY FileTermsNow, TermsAreInts
  <1>2. cf[s].term > t \/ HighestTerm(cf[s].hist) = t
    BY DEF Follows
  <1>3. CASE cf'[s].hist = cf[s].hist
    BY <1>1, <1>2, <1>3
  <1>4. CASE cf'[s].hist # cf[s].hist
    <2>1. HighestTerm(cf'[s].hist) = cf'[s].term
      BY <1>4, HistoryAdopted
    <2> QED BY <1>1, <1>2, <2>1
  <1> QED BY <1>3, <1>4

\* In the form the invariants use.
LEMMA FollowedGrows ==
  ASSUME HistoryInv, TypeOK', Step, NEW s \in Safekeepers
  PROVE  \A t \in Followed(s) : t \in Followed(s)'
PROOF
  <1>1. \A t \in Terms : Follows(s, t) => Follows(s, t)'
    BY FollowsStays
  <1> QED BY <1>1 DEF Followed

\* A ProposerElected that has been handled is adopted, or from a lower term.
LEMMA HandledIsFollowed ==
  ASSUME HistoryInv, TypeOK', Step, NEW k \in Kinds, NEW p \in Proposers, NEW s \in Safekeepers,
         Consumes(k, p, s, conn[k][p][s], conn'[k][p][s]),
         Head(conn[k][p][s].queue).type = "ProposerElected"
  PROVE  Head(conn[k][p][s].queue).term \in Followed(s)'
PROOF
  <1> DEFINE m == Head(conn[k][p][s].queue)
  <1>0. TypeOK /\ MessagesAreWinners
    BY DEF HistoryInv, ElectionInv
  <1>1. conn[k][p][s].queue # <<>> /\ (cf[s].term > m.term \/ cf'[s].hist = m.hist)
    BY DEF Consumes
  <1>2. conn[k][p][s].queue \in Seq(ToSafekeeper)
    BY <1>0, Parts, ConnectionFacts
  <1>3. m \in ToSet(conn[k][p][s].queue)
    BY <1>1, <1>2, QueueElements
  <1>4. m.term = HighestTerm(m.hist)
    BY <1>0, <1>3 DEF MessagesAreWinners
  <1>5. m.term \in Terms /\ m.term \in Int
    BY <1>0, <1>3, QueuedType, MessageFacts, TermsAreInts
  <1> HIDE DEF m
  <1>6. cf'[s].term > m.term \/ HighestTerm(cf'[s].hist) = m.term
    BY <1>1, <1>4, <1>5, FileTermsNow
  <1>7. ASSUME NEW t \in Terms, t = m.term PROVE t \in Followed(s)'
    BY <1>6, <1>7 DEF Followed, Follows
  <1> QED BY <1>5, <1>7 DEF m

\* A message is the first one, or behind it.
LEMMA HeadOrTail ==
  ASSUME NEW S, NEW q \in Seq(S), q # <<>>, NEW e \in ToSet(q)
  PROVE  e = Head(q) \/ e \in ToSet(Tail(q))
PROOF
  <1>1. /\ Len(q) \in Nat /\ Head(q) = q[1] /\ Tail(q) \in Seq(S) /\ Len(Tail(q)) = Len(q) - 1
        /\ \A i \in 1..Len(Tail(q)) : Tail(q)[i] = q[i + 1]
    BY SeqFacts, HeadTailProperties
  <1>2. PICK i \in 1..Len(q) : e = q[i]
    BY RangeFacts
  <1>3. CASE i = 1
    BY <1>1, <1>2, <1>3
  <1>4. CASE i # 1
    <2>1. i - 1 \in 1..Len(Tail(q)) /\ (i - 1) + 1 = i
      BY <1>1, <1>2, <1>4
    <2>2. Tail(q)[i - 1] = q[i]
      BY <1>1, <2>1
    <2> QED BY <1>1, <1>2, <2>1, <2>2, RangeFacts
  <1> QED BY <1>3, <1>4

\* What walproposer sends when it activates a safekeeper, and what it sends later.
LEMMA SentMessages ==
  ASSUME TypeOK, TypeOK', NEW p \in Proposers, NEW s \in Safekeepers, NEW m, NewMessage(p, s, m)
  PROVE  /\ m.type = "ProposerElected" =>
              wp'[p].state = "ELECTED" /\ m.term = wp'[p].term /\ m.hist = wp'[p].hist
         /\ m.type = "AppendRequest" =>
              /\ NewAppend(p, s, m) /\ sks[p][s].state = "ACTIVE"
              /\ wp[p].state = "ELECTED" /\ m.term = wp[p].term
         /\ m.type \in {"VoteRequest", "ProposerElected", "AppendRequest"}
PROOF
  <1>1. CASE m = VoteRequest(wp'[p])
    BY <1>1 DEF VoteRequest
  <1>2. CASE m = ProposerElected(wp'[p], sks'[p][s]) /\ sks'[p][s].state = "ACTIVE"
    <2>1. m.type = "ProposerElected" /\ m.term = wp'[p].term /\ m.hist = wp'[p].hist
      BY <1>2 DEF ProposerElected
    <2>2. wp'[p].state = "ELECTED"
      BY <1>2 DEF TypeOK, WalProposerPhases, SafekeeperPhase
    <2> QED BY <2>1, <2>2
  <1>3. CASE NewAppend(p, s, m)
    <2>1. m.type = "AppendRequest" /\ m.term = wp[p].term /\ sks[p][s].state = "ACTIVE"
      BY <1>3 DEF NewAppend
    <2>2. wp[p].state = "ELECTED"
      BY <2>1, Parts, OneRecord DEF SafekeeperPhase
    <2> QED BY <1>3, <2>1, <2>2
  <1> QED BY <1>1, <1>2, <1>3 DEF NewMessage

\* Safekeepers that are streamed to have the announcement, or it is on its way.
LEMMA ActiveStep ==
  ASSUME AckInv, TypeOK', Step
  PROVE  ActiveFollow'
PROOF
  <1>0. TypeOK /\ Moves /\ HistoryInv /\ ActiveFollow
    BY DEF AckInv, HistoryInv, ElectionInv, Step, QuietMove, WinMove
  <1> SUFFICES ASSUME NEW p \in Proposers, NEW s \in Safekeepers,
                      conn'["live"][p][s].open, sks'[p][s].state = "ACTIVE"
               PROVE  \/ wp'[p].term \in Followed(s)'
                      \/ Announced(conn'["live"][p][s].queue, wp'[p].term)
    BY DEF ActiveFollow
  <1> DEFINE c == conn["live"][p][s]
             n == conn'["live"][p][s]
  <1>1. ConnectionMove("live", p, s)
    BY <1>0 DEF Moves, Kinds
  <1>2. c.queue \in Seq(ToSafekeeper)
    BY <1>0, Parts, ConnectionFacts DEF Kinds
  <1>3. wp'[p].state = "ELECTED"
    BY DEF TypeOK, WalProposerPhases, SafekeeperPhase
  <1>4. ASSUME c.open, sks[p][s].state = "ACTIVE"
        PROVE  /\ wp'[p].term = wp[p].term
               /\ wp'[p].term \in Followed(s)' \/ Announced(c.queue, wp'[p].term)
    <2>1. wp[p].state = "ELECTED"
      BY <1>0, <1>4, Parts, OneRecord DEF SafekeeperPhase
    <2>2. wp'[p].term = wp[p].term
      BY <1>0, <1>3, <2>1, LeadersMove DEF Leads
    <2>3. wp[p].term \in Followed(s) \/ Announced(c.queue, wp[p].term)
      BY <1>0, <1>4 DEF ActiveFollow
    <2>4. wp[p].term \in Followed(s) => wp[p].term \in Followed(s)'
      BY <1>0, FollowedGrows
    <2> QED BY <2>2, <2>3, <2>4
  <1>5. CASE SameQueue("live", p, s, c, n)
    BY <1>4, <1>5 DEF SameQueue, Activated
  <1>6. CASE Dropped("live", p, s, c, n)
    BY <1>6 DEF Dropped
  <1>7. CASE Consumes("live", p, s, c, n)
    <2>1. c.open /\ sks[p][s].state = "ACTIVE" /\ c.queue # <<>> /\ n.queue = Tail(c.queue)
      BY <1>7 DEF Consumes, Activated
    <2>2. wp'[p].term \in Followed(s)' \/ Announced(c.queue, wp'[p].term)
      BY <1>4, <2>1
    <2>3. ASSUME NEW m \in ToSet(c.queue), m.type = "ProposerElected", m.term = wp'[p].term
          PROVE  wp'[p].term \in Followed(s)' \/ Announced(n.queue, wp'[p].term)
      <3>1. m = Head(c.queue) \/ m \in ToSet(n.queue)
        BY <1>2, <2>1, HeadOrTail, SMTT(60)
      <3>2. CASE m = Head(c.queue)
        BY <1>0, <1>7, <2>3, <3>2, HandledIsFollowed DEF Kinds
      <3>3. CASE m \in ToSet(n.queue)
        BY <2>3, <3>3 DEF Announced
      <3> QED BY <3>1, <3>2, <3>3
    <2> QED BY <2>2, <2>3 DEF Announced
  <1>8. CASE Sends("live", p, s, c, n)
    <2>1. PICK m \in ToSafekeeper : /\ NewMessage(p, s, m) /\ n.queue = Append(c.queue, m)
                                    /\ Activated(p, s) => m.type = "ProposerElected"
      BY <1>8 DEF Sends
    <2>2. ToSet(n.queue) = ToSet(c.queue) \cup {m}
      BY <1>2, <2>1, QueueElements
    <2>3. CASE Activated(p, s)
      <3>1. m.type = "ProposerElected" /\ m.term = wp'[p].term
        BY <1>0, <2>1, <2>3, SentMessages
      <3> QED BY <2>2, <3>1 DEF Announced
    <2>4. CASE ~Activated(p, s)
      <3>1. c.open /\ sks[p][s].state = "ACTIVE"
        BY <1>8, <2>4 DEF Sends, Activated
      <3>2. wp'[p].term \in Followed(s)' \/ Announced(c.queue, wp'[p].term)
        BY <1>4, <3>1, SMTT(60)
      <3> QED BY <2>2, <3>2 DEF Announced
    <2> QED BY <2>3, <2>4, SMTT(60)
  <1>9. CASE Leaves("live", p, s, c, n)
    BY <1>9 DEF Leaves
  <1> QED BY <1>1, <1>5, <1>6, <1>7, <1>8, <1>9 DEF ConnectionMove

\* On each connection, announcements come first.
LEMMA OrderStep ==
  ASSUME AckInv, TypeOK', Step
  PROVE  QueuesInOrder'
PROOF
  <1>0. TypeOK /\ Moves /\ HistoryInv /\ ActiveFollow /\ QueuesInOrder
    BY DEF AckInv, HistoryInv, ElectionInv, Step, QuietMove, WinMove
  <1> SUFFICES ASSUME NEW k \in Kinds, NEW p \in Proposers, NEW s \in Safekeepers
               PROVE  InOrder(conn'[k][p][s].queue, Followed(s)')
    BY DEF QueuesInOrder
  <1> DEFINE c == conn[k][p][s]
             l == conn["live"][p][s]
             n == conn'[k][p][s]
             T == Followed(s)
             U == Followed(s)'
  <1>1. ConnectionMove(k, p, s)
    BY <1>0 DEF Moves
  <1>2. c.queue \in Seq(ToSafekeeper) /\ l.queue \in Seq(ToSafekeeper)
    BY <1>0, Parts, ConnectionFacts DEF Kinds
  <1>3. \A t \in T : t \in U
    BY <1>0, FollowedGrows
  <1>4. InOrder(c.queue, T) /\ InOrder(l.queue, T)
    BY <1>0 DEF QueuesInOrder, Kinds
  <1>5. CASE SameQueue(k, p, s, c, n)
    <2>1. n.queue = c.queue
      BY <1>5 DEF SameQueue
    <2> HIDE DEF c, n, T, U
    <2> QED BY <1>3, <1>4, <2>1, InOrderMore DEF c, n, T, U
  <1>6. CASE Dropped(k, p, s, c, n)
    <2>1. n.queue = <<>>
      BY <1>6 DEF Dropped
    <2> QED BY <2>1 DEF InOrder
  <1>7. CASE Consumes(k, p, s, c, n)
    <2>1. c.queue # <<>> /\ n.queue = Tail(c.queue)
      BY <1>7 DEF Consumes
    <2>2. Head(c.queue).type = "ProposerElected" => Head(c.queue).term \in U
      BY <1>0, <1>7, HandledIsFollowed
    <2> HIDE DEF c, n, T, U
    <2>3. InOrder(c.queue, U)
      BY <1>3, <1>4, InOrderMore
    <2>4. InOrder(n.queue, U)
      BY <1>2, <2>1, <2>2, <2>3, InOrderTail
    <2> QED BY <2>4 DEF n, U
  <1>8. ASSUME l.open, NEW m \in ToSafekeeper, NewMessage(p, s, m)
        PROVE  InOrder(Append(l.queue, m), U)
    <2>1. m.type = "AppendRequest" => m.term \in T \/ Announced(l.queue, m.term)
      BY <1>0, <1>8, SentMessages DEF ActiveFollow
    <2> HIDE DEF l, T, U
    <2>2. InOrder(l.queue, U)
      BY <1>3, <1>4, InOrderMore
    <2>3. m.type = "AppendRequest" => m.term \in U \/ Announced(l.queue, m.term)
      BY <1>3, <2>1
    <2> QED BY <1>2, <2>2, <2>3, InOrderAppend
  <1>9. CASE Sends(k, p, s, c, n)
    <2>1. k = "live" /\ c.open /\ \E m \in ToSafekeeper : NewMessage(p, s, m) /\ n.queue = Append(c.queue, m)
      BY <1>9 DEF Sends
    <2> QED BY <1>8, <2>1
  <1>10. CASE Leaves(k, p, s, c, n)
    <2>1. CASE n.queue = l.queue
      <3> HIDE DEF l, n, T, U
      <3> QED BY <1>3, <1>4, <2>1, InOrderMore DEF n, U
    <2>2. ASSUME l.open, NEW m \in ToSafekeeper, NewAppend(p, s, m), n.queue = Append(l.queue, m)
          PROVE  InOrder(n.queue, U)
      BY <1>8, <2>2 DEF NewMessage
    <2> QED BY <1>10, <2>1, <2>2 DEF Leaves
  <1> QED BY <1>1, <1>5, <1>6, <1>7, <1>9, <1>10 DEF ConnectionMove

\* A message at the head of a live connection, or WAL that came on it, shows that the
\* sender leads and that the safekeeper follows it.
LEMMA AppendsFollow ==
  ASSUME AckInv, NEW p \in Proposers, NEW s \in Safekeepers,
         FirstMessage("live", p, s, "AppendRequest") \/ conn["live"][p][s].dirty
  PROVE  wp[p].state = "ELECTED" /\ wp[p].term \in Followed(s)
PROOF
  <1>0. TypeOK /\ QueuesInOrder /\ LiveIsOwn
    BY DEF AckInv, HistoryInv, ElectionInv
  <1>1. CASE conn["live"][p][s].dirty
    BY <1>0, <1>1 DEF LiveIsOwn
  <1>2. CASE FirstMessage("live", p, s, "AppendRequest")
    <2> DEFINE q == conn["live"][p][s].queue
               m == Message("live", p, s)
    <2>1. m \in ToSet(q) /\ m.type = "AppendRequest"
      BY <1>0, <1>2, MessageCame DEF Kinds
    <2>2. wp[p].state = "ELECTED" /\ m.term = wp[p].term
      BY <1>0, <2>1 DEF LiveIsOwn
    <2>3. q \in Seq(ToSafekeeper) /\ q # <<>> /\ m = q[1]
      BY <1>0, <1>2, Parts, ConnectionFacts DEF Kinds, FirstMessage, Message
    <2>4. 1 \in 1..Len(q)
      BY <2>3, SeqFacts
    <2>5. InOrder(q, Followed(s))
      BY <1>0 DEF QueuesInOrder, Kinds
    <2>6. m.term \in Followed(s)
      BY <2>1, <2>3, <2>4, <2>5 DEF InOrder
    <2> QED BY <2>2, <2>6
  <1> QED BY <1>1, <1>2

\* Live connections carry what their walproposer sends in its term.
LEMMA LiveStep ==
  ASSUME AckInv, TypeOK', Step
  PROVE  LiveIsOwn'
PROOF
  <1>0. TypeOK /\ Moves /\ HistoryInv /\ LiveIsOwn
    BY DEF AckInv, HistoryInv, ElectionInv, Step, QuietMove, WinMove
  <1>1. ASSUME NEW p \in Proposers, NEW s \in Safekeepers, wp[p].state = "ELECTED",
               conn'["live"][p][s] # Closed
        PROVE  wp'[p].state = "ELECTED" /\ wp'[p].term = wp[p].term
    BY <1>0, <1>1, LeadersMove DEF Leads, Exits
  <1>2. Closed.queue = <<>> /\ ~Closed.dirty /\ ToSet(<<>>) = {}
    BY SmallQueues DEF Closed
  <1>3. ASSUME NEW p \in Proposers, NEW s \in Safekeepers,
               NEW m \in ToSet(conn'["live"][p][s].queue), m.type # "VoteRequest"
        PROVE  wp'[p].state = "ELECTED" /\ m.term = wp'[p].term
    <2>0. conn'["live"][p][s] # Closed
      BY <1>2, <1>3
    <2>1. CASE m \in ToSet(conn["live"][p][s].queue)
      BY <1>0, <1>1, <1>3, <2>0, <2>1 DEF LiveIsOwn
    <2>2. CASE NewMessage(p, s, m)
      BY <1>0, <1>1, <1>3, <2>0, <2>2, SentMessages
    <2> QED BY <1>0, <1>3, <2>1, <2>2, QueueMoves DEF Kinds
  <1>4. ASSUME NEW p \in Proposers, NEW s \in Safekeepers, conn'["live"][p][s].dirty
        PROVE  wp'[p].state = "ELECTED" /\ wp'[p].term \in Followed(s)'
    <2> DEFINE c == conn["live"][p][s]
               n == conn'["live"][p][s]
    <2>1. ConnectionMove("live", p, s)
      BY <1>0, SMTT(60) DEF Moves, Kinds
    <2>2. c.dirty \/ FirstMessage("live", p, s, "AppendRequest")
      BY <1>4, <2>1 DEF ConnectionMove, SameQueue, Dropped, Consumes, Sends, Leaves, FirstMessage
    <2>3. wp[p].state = "ELECTED" /\ wp[p].term \in Followed(s)
      BY <2>2, AppendsFollow
    <2>4. wp[p].term \in Followed(s)'
      BY <1>0, <2>3, FollowedGrows
    <2>5. wp'[p].state = "ELECTED" /\ wp'[p].term = wp[p].term
      BY <1>1, <1>2, <1>4, <2>3
    <2> QED BY <2>4, <2>5
  <1> QED BY <1>3, <1>4 DEF LiveIsOwn

\* What was acknowledged in a term stays flushed in that term.
LEMMA AckedStays ==
  ASSUME AckInv, TypeOK', Step, NEW p \in Proposers, NEW s \in Safekeepers, NEW f \in OptLsns,
         Acked(p, s, f), wp[p].state = "ELECTED" => wp'[p].state = "ELECTED"
  PROVE  Acked(p, s, f)'
PROOF
  <1>0. TypeOK /\ HistoryInv
    BY DEF AckInv, HistoryInv, ElectionInv
  <1> SUFFICES ASSUME f # 0
               PROVE  /\ wp'[p].state = "ELECTED" /\ wp'[p].term \in Followed(s)'
                      /\ cf'[s].term = wp'[p].term => f <= flushLsn'[s]
    BY DEF Acked
  <1>1. /\ wp[p].state = "ELECTED" /\ wp[p].term \in Followed(s)
        /\ cf[s].term = wp[p].term => f <= flushLsn[s]
    BY DEF Acked
  <1>2. wp'[p].state = "ELECTED" /\ wp'[p].term = wp[p].term
    BY <1>0, <1>1, LeadersMove DEF Leads, Exits
  <1>3. wp[p].term \in Followed(s)'
    BY <1>0, <1>1, FollowedGrows
  <1>4. ASSUME cf'[s].term = wp[p].term PROVE f <= flushLsn'[s]
    <2>1. /\ cf[s].term \in Int /\ cf'[s].term \in Int /\ cf'[s].term >= cf[s].term
          /\ HighestTerm(cf[s].hist) \in Int /\ HighestTerm(cf[s].hist) <= cf[s].term
      BY <1>0, FileTermsNow
    <2>2. cf[s].term > wp[p].term \/ HighestTerm(cf[s].hist) = wp[p].term
      BY <1>1 DEF Followed, Follows
    <2>3. HighestTerm(cf[s].hist) = wp[p].term /\ cf[s].term = wp[p].term
      BY <1>4, <2>1, <2>2
    <2>4. flushLsn'[s] >= flushLsn[s]
      BY <1>0, <1>4, <2>3, NotCut
    <2>5. f \in Int /\ flushLsn[s] \in Int /\ flushLsn'[s] \in Int
      <3>1. f \in Lsns
        BY DEF OptLsns
      <3>2. flushLsn[s] \in Lsns
        BY <1>0, Parts, SafekeeperFacts
      <3>3. flushLsn'[s] \in Lsns
        BY PartsNext DEF SafekeeperTypeOK
      <3> QED BY <3>1, <3>2, <3>3, Ranges
    <2> QED BY <1>1, <2>3, <2>4, <2>5
  <1> QED BY <1>2, <1>3, <1>4

\* Acknowledgements are true, on their way and when they are recorded.
LEMMA AcksStep ==
  ASSUME AckInv, TypeOK', Step
  PROVE  AcksAreTrue'
PROOF
  <1>0. TypeOK /\ Moves /\ HistoryInv /\ AcksAreTrue
    BY DEF AckInv, HistoryInv, ElectionInv, Step, QuietMove, WinMove
  <1>1. ASSUME NEW p \in Proposers, NEW s \in Safekeepers, NEW m \in ToSet(toWp[p][s]),
               m.type = "AppendResponse"
        PROVE  m.flush \in OptLsns /\ Acked(p, s, m.flush)
    <2>1. m \in ToProposer
      BY <1>0, <1>1, AnsweringType
    <2>2. m.flush \in OptLsns
      BY <1>1, <2>1 DEF ToProposer
    <2> QED BY <1>0, <1>1, <2>2 DEF AcksAreTrue
  <1>2. ASSUME NEW p \in Proposers, NEW s \in Safekeepers, NEW m \in ToSet(toWp'[p][s]),
               m.type = "AppendResponse"
        PROVE  Acked(p, s, m.flush)'
    <2>1. wp[p].state = "ELECTED" => wp'[p].state = "ELECTED"
      BY <1>0, <1>2, LeadersMove DEF Leads, Exits
    <2>2. CASE m \in ToSet(toWp[p][s])
      BY <1>1, <1>2, <2>1, <2>2, AckedStays
    <2>3. CASE m.flush = 0
      BY <2>3 DEF Acked
    <2>4. CASE /\ m.flush = flushLsn'[s]
               /\ conn["live"][p][s].dirty \/ FirstMessage("live", p, s, "AppendRequest")
      <3>1. wp[p].state = "ELECTED" /\ wp[p].term \in Followed(s)
        BY <2>4, AppendsFollow
      <3>2. wp'[p].state = "ELECTED" /\ wp'[p].term = wp[p].term
        BY <1>0, <2>1, <3>1, LeadersMove DEF Leads
      <3>3. wp[p].term \in Followed(s)'
        BY <1>0, <3>1, FollowedGrows
      <3>4. m.flush <= flushLsn'[s]
        <4>1. flushLsn'[s] \in Lsns
          BY PartsNext DEF SafekeeperTypeOK
        <4>2. flushLsn'[s] \in Int
          BY <4>1, Ranges
        <4> QED BY <2>4, <4>2
      <3> QED BY <3>2, <3>3, <3>4 DEF Acked
    <2> QED BY <1>0, <1>2, <2>2, <2>3, <2>4 DEF Moves, AnswerMove, NewAnswer, NewVote, VoteReply
  <1>3. ASSUME NEW p \in Proposers, NEW s \in Safekeepers, NEW f, f = sks'[p][s].flush
        PROVE  Acked(p, s, f)'
    <2>0. sks[p][s].flush \in OptLsns /\ Acked(p, s, sks[p][s].flush)
      BY <1>0, Parts, OneRecord DEF AcksAreTrue, SafekeeperRecords
    <2>1. CASE wp[p].state = "ELECTED" /\ wp'[p].state = "ELECTED" /\ SafekeeperRecordMove(p, s)
      <3>1. f \in OptLsns /\ Acked(p, s, f)
        BY <1>1, <1>3, <2>0, <2>1 DEF SafekeeperRecordMove
      <3> QED BY <2>1, <3>1, AckedStays
    <2>2. CASE Exits(p)
      BY <1>3, <2>2 DEF Exits, Offline, Acked
    <2>3. CASE wp[p].state # "ELECTED"
      <3>1. sks[p][s].flush = 0
        BY <2>0, <2>3 DEF Acked
      <3>2. CASE ProposerMove(p)
        <4>1. CASE Rests(p) \/ (Campaigns(p) /\ SafekeeperRecordMove(p, s))
          <5>1. f = 0
            BY <1>3, <2>3, <3>1, <4>1 DEF Rests, SafekeeperRecordMove
          <5> QED BY <5>1 DEF Acked
        <4>2. Rests(p) \/ Exits(p) \/ (Campaigns(p) /\ SafekeeperRecordMove(p, s))
          BY <2>3, <3>2 DEF ProposerMove, Leads
        <4> QED BY <2>2, <4>1, <4>2
      <3>3. ASSUME NEW x \in Safekeepers, NEW donor \in Safekeepers, Wins(p, x, donor)
            PROVE  Acked(p, s, f)'
        <4>1. sks[p][s] \in SafekeeperRecords
          BY <1>0, Parts, OneRecord
        <4>2. sks'[p][s].flush = sks[p][s].flush
          BY <3>3, <4>1 DEF Wins, Streaming, SafekeeperRecords
        <4>3. f = 0
          BY <1>3, <3>1, <4>2
        <4> QED BY <4>3 DEF Acked
      <3> QED BY <1>0, <3>2, <3>3, ProposerCases
    <2> QED BY <1>0, <2>1, <2>2, <2>3, LeadersMove DEF Leads
  <1> QED BY <1>2, <1>3 DEF AcksAreTrue

\* Nothing is sent yet.
LEMMA AckInit == Init => AckInv
PROOF
  <1> SUFFICES ASSUME Init PROVE AckInv
    OBVIOUS
  <1>1. HistoryInv
    BY HistoryInit
  <1>2. /\ \A k \in Kinds, p \in Proposers, s \in Safekeepers :
             /\ conn[k][p][s].queue = <<>> /\ ~conn[k][p][s].open /\ ~conn[k][p][s].dirty
        /\ \A p \in Proposers, s \in Safekeepers :
             ToSet(toWp[p][s]) = {} /\ sks[p][s].flush = 0
        /\ ToSet(<<>>) = {}
    BY SmallQueues DEF Init, WalProposerInit, Closed, Offline
  <1>3. ActiveFollow /\ LiveIsOwn
    BY <1>2 DEF ActiveFollow, LiveIsOwn, Kinds
  <1>4. QueuesInOrder
    BY <1>2 DEF QueuesInOrder, InOrder
  <1>5. AcksAreTrue
    BY <1>2 DEF AcksAreTrue, Acked
  <1> QED BY <1>1, <1>3, <1>4, <1>5 DEF AckInv

\* Every step keeps the invariant, ...
LEMMA AckNext ==
  ASSUME QuorumsIntersect, AckInv, [Next]_vars
  PROVE  AckInv' /\ HistoryInv /\ HistoryInv' /\ Step /\ TypeOK /\ TypeOK'
PROOF
  <1>1. HistoryInv /\ HistoryInv' /\ Step /\ TypeOK /\ TypeOK'
    BY HistoryNext DEF AckInv
  <1> QED BY <1>1, ActiveStep, OrderStep, LiveStep, AcksStep DEF AckInv

\* ... and so the flush LSNs that walproposer counts for commit, also those of
\* safekeepers that are disconnected, are on the disks they are claimed to be on.
THEOREM AcknowledgementsAreTrue == QuorumsIntersect => (Spec => []AcknowledgedIsFlushed)
PROOF
  <1> SUFFICES ASSUME QuorumsIntersect PROVE Spec => []AcknowledgedIsFlushed
    OBVIOUS
  <1>1. Init => AckInv
    BY AckInit
  <1>2. AckInv /\ [Next]_vars => AckInv'
    BY AckNext
  <1>3. AckInv => AcknowledgedIsFlushed
    <2> SUFFICES ASSUME AckInv, NEW p \in Proposers, NEW s \in Safekeepers,
                        wp[p].state = "ELECTED", cf[s].term = wp[p].term
                 PROVE  sks[p][s].flush <= flushLsn[s]
      BY DEF AcknowledgedIsFlushed
    <2>1. Acked(p, s, sks[p][s].flush)
      BY DEF AckInv, AcksAreTrue
    <2>2. flushLsn[s] \in Lsns
      BY Parts, SafekeeperFacts DEF AckInv, HistoryInv, ElectionInv
    <2>3. 0 <= flushLsn[s]
      <3>1. flushLsn[s] \in Nat
        BY <2>2, Ranges
      <3> QED BY <3>1
    <2> QED BY <2>1, <2>3 DEF Acked
  <1> QED BY <1>1, <1>2, <1>3, PTL DEF Spec

-----------------------------------------------------------------------------
(* Histories describe WAL *)

\* h gives the term of every unit of log, which begins at LSN begin.
Describes(h, log, begin) == \A i \in 1..Len(log) : log[i] = TermAt(h, begin + i - 1)

WalIsDescribed == \A s \in Safekeepers : Describes(cf[s].hist, wal[s], StartLsn)

\* WAL on its way is what histories say about its term.
AppendsAreDescribed ==
  \A k \in Kinds, p \in Proposers, s \in Safekeepers : \A m \in ToSet(conn[k][p][s].queue) :
    m.type = "AppendRequest" =>
      \A g : IsKnown(g) => \A j \in 1..Len(g) :
        g[j].term = m.term => Describes(SubSeq(g, 1, j), m.wal, m.begin)

\* Until s follows the walproposer it voted for, its history is that of its vote.
VoteStands(s, t, vote) == t \in Followed(s) \/ vote.hist = UpTo(cf[s].hist, vote.flush)

VotesStand ==
  \A p \in Proposers, s \in Safekeepers :
    /\ sks[p][s].state = "WAIT_ELECTED" => VoteStands(s, wp[p].term, sks[p][s].vote)
    /\ \A m \in ToSet(toWp[p][s]) : Given(m) => VoteStands(s, wp[p].term, VoteOf(m))

\* So is that of the safekeeper an elected walproposer recovers from.
DonorStands(w) ==
  /\ w.donor \in Safekeepers /\ cf[w.donor].term >= w.term
  /\ w.term \in Followed(w.donor) \/ UpTo(cf[w.donor].hist, w.start) = Front(w.hist)
  /\ Last(w.hist).lsn = w.start

DonorsStand == \A p \in Proposers : wp[p].state = "ELECTED" => DonorStands(wp[p])

WalInv == AckInv /\ WalIsDescribed /\ AppendsAreDescribed /\ VotesStand /\ DonorsStand

\* An entry whose term was won before a step is in a history from before it.
LEMMA KnownBefore ==
  ASSUME HistoryInv, ElectionInv', Step, NEW g, IsKnown(g)', NEW j \in 1..Len(g), Won(g[j].term)
  PROVE  \E x : /\ IsKnown(x) /\ j \in 1..Len(x) /\ x[j].term = g[j].term
                /\ SubSeq(x, 1, j) = SubSeq(g, 1, j)
PROOF
  <1>0. TypeOK' /\ KnownAreSound
    BY DEF HistoryInv, ElectionInv
  <1>1. ASSUME NEW x, IsKnown(x), PartOf(g, x)
        PROVE  /\ IsKnown(x) /\ j \in 1..Len(x) /\ x[j].term = g[j].term
               /\ SubSeq(x, 1, j) = SubSeq(g, 1, j)
    <2>1. PICK k \in 1..Len(x) : g = SubSeq(x, 1, k)
      BY <1>1 DEF PartOf
    <2>2. x \in Seq(TermSwitches) /\ Len(x) \in Nat
      BY <1>0, <1>1, WellFormedFacts DEF KnownAreSound
    <2>3. Len(g) = k /\ \A i \in 1..k : g[i] = x[i]
      BY <2>1, <2>2, CutFacts
    <2>4. j \in 0..k /\ k \in 0..Len(x) /\ j \in 1..Len(x)
      BY <2>2, <2>3
    <2>5. SubSeq(g, 1, j) = SubSeq(x, 1, j)
      BY <2>1, <2>2, <2>4, CutOfCut
    <2> QED BY <1>1, <2>3, <2>4, <2>5
  <1>2. ASSUME NEW p \in Proposers, NEW s \in Safekeepers, NEW donor \in Safekeepers,
               Wins(p, s, donor), g = wp'[p].hist
        PROVE  \E x : /\ IsKnown(x) /\ j \in 1..Len(x) /\ x[j].term = g[j].term
                      /\ SubSeq(x, 1, j) = SubSeq(g, 1, j)
    <2> DEFINE h == VoteWith(p, s, Answer(p, s), donor).hist
    <2>1. /\ WellFormed(g) /\ Len(g) = Len(h) + 1 /\ g[Len(g)].term = wp[p].term
          /\ \A i \in 1..Len(h) : g[i] = h[i]
      <3>1. /\ WellFormed(g) /\ Len(g) = Len(h) + 1 /\ \A i \in 1..Len(h) : g[i] = h[i]
            /\ g[Len(g)] = [term |-> wp[p].term, lsn |-> VoteWith(p, s, Answer(p, s), donor).flush]
        BY <1>2, WinnersHistory
      <3> QED BY <3>1
    <2>2. IsKnown(h)
      BY <1>2, DonorsVote DEF Wins
    <2>3. ~Won(wp[p].term)
      BY <1>2, FreshTerm
    <2> HIDE DEF h
    <2>4. h \in Seq(TermSwitches) /\ Len(h) \in Nat /\ g \in Seq(TermSwitches)
      BY <1>0, <2>1, <2>2, WellFormedFacts DEF KnownAreSound
    <2>5. j \in 1..Len(h)
      BY <2>1, <2>3, <2>4
    <2>6. j \in 0..Len(h) /\ j <= Len(g) /\ \A i \in 1..j : h[i] = g[i]
      BY <2>1, <2>4, <2>5
    <2>7. SubSeq(h, 1, j) = SubSeq(g, 1, j)
      BY <2>4, <2>6, SameCut
    <2> QED BY <2>1, <2>2, <2>5, <2>7
  <1>3. \/ \E x : IsKnown(x) /\ PartOf(g, x)
        \/ \E p \in Proposers, s, donor \in Safekeepers : Wins(p, s, donor) /\ g = wp'[p].hist
    BY <1>0, KnownMoves
  <1> QED BY <1>1, <1>2, <1>3

\* What is described stays so when it is cut, ...
LEMMA DescribesCut ==
  ASSUME NEW h, NEW log \in Seq(Terms), NEW n \in 0..Len(log), NEW begin,
         Describes(h, log, begin)
  PROVE  Describes(h, SubSeq(log, 1, n), begin)
PROOF
  <1>1. Len(SubSeq(log, 1, n)) = n /\ \A i \in 1..n : SubSeq(log, 1, n)[i] = log[i]
    BY CutFacts
  <1>2. \A i \in 1..n : i \in 1..Len(log)
    BY SeqFacts
  <1> QED BY <1>1, <1>2 DEF Describes

\* ... and when what follows is described too.
LEMMA DescribesConcat ==
  ASSUME NEW h, NEW log \in Seq(Terms), NEW more \in Seq(Terms), NEW begin \in Int,
         Describes(h, log, begin), Describes(h, more, begin + Len(log))
  PROVE  Describes(h, log \o more, begin)
PROOF
  <1>1. /\ Len(log) \in Nat /\ Len(more) \in Nat /\ Len(log \o more) = Len(log) + Len(more)
        /\ \A i \in 1..Len(log) : (log \o more)[i] = log[i]
        /\ \A i \in 1..Len(more) : (log \o more)[Len(log) + i] = more[i]
    BY SeqFacts, ConcatProperties
  <1> SUFFICES ASSUME NEW i \in 1..Len(log \o more)
               PROVE  (log \o more)[i] = TermAt(h, begin + i - 1)
    BY DEF Describes
  <1>2. CASE i \in 1..Len(log)
    BY <1>1, <1>2 DEF Describes
  <1>3. CASE i \notin 1..Len(log)
    <2> DEFINE a == i - Len(log)
    <2>1. a \in 1..Len(more) /\ Len(log) + a = i /\ (begin + Len(log)) + a - 1 = begin + i - 1
      BY <1>1, <1>3
    <2> HIDE DEF a
    <2>2. (log \o more)[i] = more[a]
      BY <1>1, <2>1
    <2>3. more[a] = TermAt(h, (begin + Len(log)) + a - 1)
      BY <2>1 DEF Describes
    <2> QED BY <2>1, <2>2, <2>3
  <1> QED BY <1>2, <1>3

\* The WAL of a safekeeper, when a step is over.
LEMMA WalStep ==
  ASSUME WalInv, TypeOK', Step
  PROVE  WalIsDescribed'
PROOF
  <1>0. TypeOK /\ Moves /\ HistoryInv /\ AckInv /\ WalIsDescribed /\ AppendsAreDescribed
        /\ KnownAreSound /\ KnownAgree /\ MessagesAreWinners /\ QueuesInOrder
    BY DEF WalInv, AckInv, HistoryInv, ElectionInv, Step, QuietMove, WinMove
  <1> SUFFICES ASSUME NEW s \in Safekeepers PROVE Describes(cf'[s].hist, wal'[s], StartLsn)
    BY DEF WalIsDescribed
  <1>1. SafekeeperMove(s)
    BY <1>0 DEF Moves
  <1>2. /\ wal[s] \in Seq(Terms) /\ Len(wal[s]) \in Nat /\ StartLsn \in Int
        /\ flushLsn[s] \in Int /\ flushLsn[s] \in Lsns /\ StartLsn <= flushLsn[s]
        /\ flushLsn[s] <= WriteLsn(s) /\ WriteLsn(s) = StartLsn + Len(wal[s]) /\ WriteLsn(s) \in Int
    <2>1. flushLsn[s] \in Lsns /\ wal[s] \in Seq(Terms) /\ Len(wal[s]) \in Nat
      BY <1>0, Parts, SafekeeperFacts
    <2>2. flushLsn[s] <= WriteLsn(s)
      BY <1>0, Parts DEF SafekeeperTypeOK
    <2> QED BY <1>0, <2>1, <2>2, LsnRange, Ranges, Parts, SafekeeperNumbers DEF WriteLsn
  <1>3. Describes(cf[s].hist, wal[s], StartLsn)
    BY <1>0 DEF WalIsDescribed
  <1>4. \A lsn \in Int : StartLsn <= lsn /\ lsn <= WriteLsn(s) => lsn - StartLsn \in 0..Len(wal[s])
    BY <1>2
  <1>5. CASE Keeps(s)
    BY <1>3, <1>5 DEF Keeps
  <1>6. CASE Restarts(s)
    <2>1. PICK lsn \in flushLsn[s]..WriteLsn(s) : wal'[s] = SubSeq(wal[s], 1, lsn - StartLsn)
      BY <1>6 DEF Restarts
    <2>2. lsn - StartLsn \in 0..Len(wal[s])
      BY <1>2, <1>4, <2>1
    <2>3. Describes(cf[s].hist, SubSeq(wal[s], 1, lsn - StartLsn), StartLsn)
      BY <1>2, <1>3, <2>2, DescribesCut
    <2> QED BY <1>6, <2>1, <2>3 DEF Restarts
  <1>7. ASSUME NEW k \in Kinds, NEW p \in Proposers, FirstMessage(k, p, s, "AppendRequest"),
               Appends(s, Message(k, p, s))
        PROVE  Describes(cf'[s].hist, wal'[s], StartLsn)
    <2> DEFINE m == Message(k, p, s)
               h == cf[s].hist
               q == conn[k][p][s].queue
    <2>1. m \in ToSet(q) /\ m.type = "AppendRequest" /\ m \in ToSafekeeper
      BY <1>0, <1>7, MessageCame
    <2>2. q \in Seq(ToSafekeeper) /\ q # <<>> /\ m = q[1]
      BY <1>0, <1>7, Parts, ConnectionFacts DEF FirstMessage, Message
    <2>3. 1 \in 1..Len(q)
      BY <2>2, SeqFacts
    <2>4. m.term \in Followed(s)
      BY <1>0, <2>1, <2>2, <2>3 DEF InOrder, QueuesInOrder
    <2>5. /\ cf[s].term = m.term /\ WriteLsn(s) = m.begin /\ cf'[s].hist = h
          /\ wal'[s] = wal[s] \o m.wal
      BY <1>7 DEF Appends
    <2>6. m.wal \in Seq(Terms)
      BY <2>1, MessageFacts
    <2> HIDE DEF m, q
    <2>7. HighestTerm(h) = m.term
      <3>1. cf[s].term \in Int
        BY <1>0, TermTypes
      <3> QED BY <2>4, <2>5, <3>1 DEF Followed, Follows
    <2>8. IsKnown(h) /\ WellFormed(h)
      BY <1>0 DEF IsKnown, KnownAreSound
    <2>9. Len(h) \in 1..Len(h) /\ h[Len(h)].term = m.term /\ SubSeq(h, 1, Len(h)) = h
      BY <2>7, <2>8, WellFormedFacts, CutFacts
    <2>10. Describes(h, m.wal, m.begin)
      BY <1>0, <2>1, <2>8, <2>9 DEF AppendsAreDescribed, q
    <2>11. Describes(h, m.wal, StartLsn + Len(wal[s]))
      BY <1>2, <2>5, <2>10
    <2>12. Describes(h, wal[s] \o m.wal, StartLsn)
      BY <1>2, <1>3, <2>6, <2>11, DescribesConcat
    <2> QED BY <2>5, <2>12
  <1>8. ASSUME NEW k \in Kinds, NEW p \in Proposers, FirstMessage(k, p, s, "ProposerElected"),
               Adopts(s, Message(k, p, s)) \/ RestartsIn(s, Message(k, p, s))
        PROVE  Describes(cf'[s].hist, wal'[s], StartLsn)
    <2> DEFINE m == Message(k, p, s)
               h == cf[s].hist
    <2>1. m \in ToSet(conn[k][p][s].queue) /\ m.type = "ProposerElected"
      BY <1>0, <1>8, MessageCame
    <2>2. ElectedAccepted(s, m)
      BY <1>8 DEF Adopts, RestartsIn
    <2>3. IsKnown(h) /\ IsKnown(m.hist)
      BY <2>1 DEF IsKnown
    <2>4. WellFormed(h) /\ WellFormed(m.hist) /\ Agree(m.hist, h)
      BY <1>0, <2>3 DEF KnownAreSound, KnownAgree
    <2>5. HighestTerm(h) <= HighestTerm(m.hist)
      <3>1. m.term = HighestTerm(m.hist) /\ cf[s].term <= m.term /\ cf[s].term \in Int
        BY <1>0, <2>1, <2>2, TermTypes DEF MessagesAreWinners, ElectedAccepted, ElectedExpected
      <3>2. HighestTerm(h) <= cf[s].term
        BY <1>0 DEF HistoryInv, HistoriesWithinTerm
      <3> QED BY <2>4, <3>1, <3>2, HistoryTerm
    <2>6. m.start = ExpectedTruncation(m.hist, UpTo(h, flushLsn[s]), flushLsn[s])
      BY <2>2 DEF ElectedAccepted, ElectedExpected, TruncationPoint
    <2>7. m.start \in Lsns /\ m.start <= flushLsn[s]
      BY <1>2, <2>4, <2>6, TruncationFacts
    <2>8. m.start \in Int /\ StartLsn <= m.start /\ m.start <= WriteLsn(s)
      <3>1. m.start \in Int /\ StartLsn <= m.start
        BY <2>7, LsnRange
      <3> QED BY <1>2, <2>7, <3>1
    <2>9. CASE RestartsIn(s, m)
      <3>1. PICK lsn \in m.start..WriteLsn(s) : wal'[s] = SubSeq(wal[s], 1, lsn - StartLsn)
        BY <2>9 DEF RestartsIn
      <3>2. lsn - StartLsn \in 0..Len(wal[s])
        BY <1>2, <1>4, <2>8, <3>1, SMTT(60)
      <3>3. Describes(h, SubSeq(wal[s], 1, lsn - StartLsn), StartLsn)
        BY <1>2, <1>3, <3>2, DescribesCut
      <3> QED BY <2>9, <3>1, <3>3 DEF RestartsIn
    <2>10. CASE Adopts(s, m)
      <3> DEFINE n == m.start - StartLsn
                 w == SubSeq(wal[s], 1, n)
      <3>1. wal'[s] = w /\ cf'[s].hist = m.hist
        BY <2>10 DEF Adopts
      <3>2. n \in 0..Len(wal[s])
        BY <1>4, <2>8
      <3>3. Len(w) = n /\ \A i \in 1..n : w[i] = wal[s][i]
        BY <1>2, <3>2, CutFacts
      <3>4. ASSUME NEW i \in 1..n PROVE wal[s][i] = TermAt(m.hist, StartLsn + i - 1)
        <4> DEFINE l == StartLsn + i - 1
        <4>1. i \in 1..Len(wal[s]) /\ l \in Int /\ l < m.start
          BY <1>2, <2>8, <3>2
        <4>2. wal[s][i] = TermAt(h, l)
          BY <1>3, <4>1 DEF Describes
        <4> HIDE DEF l, m, h
        <4>3. TermAt(m.hist, l) = TermAt(h, l)
          BY <1>2, <2>4, <2>5, <2>6, <4>1, TruncationKeepsTerms
        <4> QED BY <4>2, <4>3 DEF l
      <3> QED BY <3>1, <3>3, <3>4 DEF Describes
    <2> QED BY <1>8, <2>9, <2>10
  <1> QED BY <1>1, <1>5, <1>6, <1>7, <1>8 DEF SafekeeperMove

\* A safekeeper whose term is not below t keeps its history, or follows t afterwards.
LEMMA HistoryStands ==
  ASSUME HistoryInv, TypeOK', Step, NEW s \in Safekeepers, NEW t \in Terms, cf[s].term >= t
  PROVE  cf'[s].hist = cf[s].hist \/ t \in Followed(s)'
PROOF
  <1> SUFFICES ASSUME cf'[s].hist # cf[s].hist PROVE t \in Followed(s)'
    OBVIOUS
  <1>1. HighestTerm(cf'[s].hist) = cf'[s].term
    BY HistoryAdopted
  <1>2. cf[s].term \in Int /\ cf'[s].term \in Int /\ cf'[s].term >= cf[s].term /\ t \in Int
    BY FileTermsNow, TermsAreInts
  <1>3. cf'[s].term > t \/ HighestTerm(cf'[s].hist) = t
    BY <1>1, <1>2
  <1> QED BY <1>3 DEF Followed, Follows

\* A vote goes on standing.
LEMMA VoteStandsOn ==
  ASSUME HistoryInv, TypeOK', Step, NEW s \in Safekeepers, NEW t \in Terms, cf[s].term >= t,
         NEW vote, VoteStands(s, t, vote)
  PROVE  VoteStands(s, t, vote)'
PROOF
  <1>1. t \in Followed(s) => t \in Followed(s)'
    BY FollowedGrows
  <1>2. cf'[s].hist = cf[s].hist \/ t \in Followed(s)'
    BY HistoryStands
  <1> QED BY <1>1, <1>2 DEF VoteStands

\* Votes stand, on their way and when they are counted.
LEMMA VotesStandStep ==
  ASSUME WalInv, TypeOK', Step
  PROVE  VotesStand'
PROOF
  <1>0. TypeOK /\ Moves /\ HistoryInv /\ VotesStand /\ VotesArePersisted /\ VotesAreSound
    BY DEF WalInv, AckInv, HistoryInv, ElectionInv, Step, QuietMove, WinMove
  <1>1. ASSUME NEW p \in Proposers, NEW s \in Safekeepers, HasVote(p, s),
               NEW t, t = wp[p].term, NEW vote, VoteStands(s, t, vote)
        PROVE  VoteStands(s, t, vote)'
    <2>1. t \in Terms /\ t \in Int /\ cf[s].term \in Int
      BY <1>0, <1>1, TermTypes, Parts, OneRecord DEF ProposerRecords
    <2>2. cf[s].term >= t
      BY <1>0, <1>1, <2>1 DEF VotesArePersisted
    <2> QED BY <1>0, <1>1, <2>1, <2>2, VoteStandsOn
  <1>2. ASSUME NEW p \in Proposers, NEW s \in Safekeepers, sks'[p][s].state = "WAIT_ELECTED",
               NEW t, t = wp'[p].term, NEW vote, vote = sks'[p][s].vote
        PROVE  VoteStands(s, t, vote)'
    <2>1. CASE /\ sks[p][s].state = "WAIT_ELECTED" /\ sks'[p][s].vote = sks[p][s].vote
               /\ wp'[p].term = wp[p].term
      <3>1. HasVote(p, s) /\ VoteStands(s, t, vote) /\ t = wp[p].term
        BY <1>0, <1>2, <2>1 DEF HasVote, VotesStand
      <3> QED BY <1>1, <3>1
    <2>2. ASSUME wp'[p].term = wp[p].term, NEW m \in ToSet(toWp[p][s]), Given(m),
                 sks'[p][s].vote = VoteOf(m)
          PROVE  VoteStands(s, t, vote)'
      <3>1. HasVote(p, s) /\ VoteStands(s, t, vote) /\ t = wp[p].term
        BY <1>0, <1>2, <2>2 DEF HasVote, VotesStand
      <3> QED BY <1>1, <3>1
    <2> QED BY <1>0, <1>2, <2>1, <2>2, CountedCame
  <1>3. ASSUME NEW p \in Proposers, NEW s \in Safekeepers, NEW m \in ToSet(toWp'[p][s]), Given(m),
               NEW t, t = wp'[p].term
        PROVE  VoteStands(s, t, VoteOf(m))'
    <2>1. CASE m \in ToSet(toWp[p][s])
      <3>1. Campaigning(wp[p])
        BY <1>0, <1>3, <2>1 DEF VotesAreSound, VoteIsSound, Given
      <3>2. t = wp[p].term
        BY <1>0, <1>3, <3>1, CampaignersMove
      <3>3. HasVote(p, s) /\ VoteStands(s, t, VoteOf(m))
        BY <1>0, <1>3, <2>1, <3>2 DEF HasVote, VotesStand
      <3> QED BY <1>1, <3>2, <3>3
    <2>2. CASE m \notin ToSet(toWp[p][s])
      <3>1. m.hist = UpTo(cf[s].hist, m.flush) /\ NewVote(s, Message("live", p, s), m)
        BY <1>0, <1>3, <2>2, VoteCame DEF Given
      <3>2. cf'[s].hist = cf[s].hist
        <4>1. cf'[s] = RaisedTerm(s, Message("live", p, s).term) /\ cf[s] \in ControlFiles
          BY <1>0, <3>1, Parts, SafekeeperFacts DEF NewVote
        <4> QED BY <4>1 DEF RaisedTerm, StartChange, ControlFiles
      <3>3. VoteOf(m).hist = UpTo(cf'[s].hist, VoteOf(m).flush)
        BY <3>1, <3>2 DEF VoteOf
      <3> QED BY <3>3 DEF VoteStands
    <2> QED BY <2>1, <2>2
  <1> QED BY <1>2, <1>3 DEF VotesStand

\* The safekeeper that walproposer recovers from.
LEMMA DonorsStandStep ==
  ASSUME WalInv, ElectionInv', Step
  PROVE  DonorsStand'
PROOF
  <1>0. TypeOK /\ TypeOK' /\ HistoryInv /\ VotesStand /\ VotesArePersisted /\ DonorsStand
    BY DEF WalInv, AckInv, HistoryInv, ElectionInv
  <1> SUFFICES ASSUME NEW p \in Proposers, wp'[p].state = "ELECTED", NEW w, w = wp'[p]
               PROVE  DonorStands(w)'
    BY DEF DonorsStand
  <1>1. CASE wp[p].state = "ELECTED" /\ Leads(p)
    <2>1. /\ w.donor = wp[p].donor /\ w.term = wp[p].term /\ w.start = wp[p].start
          /\ w.hist = wp[p].hist
      BY <1>1 DEF Leads
    <2>2. DonorStands(wp[p])
      BY <1>0, <1>1 DEF DonorsStand
    <2> DEFINE d == w.donor
    <2>3. /\ d \in Safekeepers /\ cf[d].term >= w.term /\ Last(w.hist).lsn = w.start
          /\ w.term \in Followed(d) \/ UpTo(cf[d].hist, w.start) = Front(w.hist)
      BY <2>1, <2>2 DEF DonorStands
    <2>4. w.term \in Terms /\ w.term \in Int
      <3>1. wp[p] \in ProposerRecords
        BY <1>0, <2>3, Parts, OneRecord
      <3> QED BY <2>1, <3>1, TermsAreInts DEF ProposerRecords
    <2> HIDE DEF d
    <2>5. cf'[d].term >= w.term
      BY <1>0, <2>3, <2>4, FileTermsNow
    <2>6. w.term \in Followed(d)' \/ UpTo(cf'[d].hist, w.start) = Front(w.hist)
      <3>1. w.term \in Followed(d) => w.term \in Followed(d)'
        BY <1>0, <2>3, FollowedGrows
      <3>2. cf'[d].hist = cf[d].hist \/ w.term \in Followed(d)'
        BY <1>0, <2>3, <2>4, HistoryStands
      <3> QED BY <2>3, <3>1, <3>2
    <2> QED BY <2>3, <2>5, <2>6 DEF DonorStands, d
  <1>2. ASSUME NEW s \in Safekeepers, NEW d \in Safekeepers, Wins(p, s, d)
        PROVE  DonorStands(w)'
    <2> DEFINE v == VoteWith(p, s, Answer(p, s), d)
    <2>1. d \in Voters(p, s) /\ UNCHANGED cf
      BY <1>2 DEF Wins, skVars
    <2>2. HasVote(p, d)
      BY <1>0, <1>2, <2>1, DonorsVote
    <2>3. w.donor = d /\ w.term = wp[p].term /\ w.start = v.flush
      BY <1>0, <1>2, WinnersTerm
    <2>4. /\ Front(w.hist) = v.hist /\ WellFormed(w.hist)
          /\ w.hist[Len(w.hist)] = [term |-> wp[p].term, lsn |-> v.flush]
      BY <1>0, <1>2, WinnersHistory
    <2>5. Last(w.hist).lsn = w.start
      <3>1. Last(w.hist) = w.hist[Len(w.hist)]
        BY <2>4, WellFormedFacts
      <3> QED BY <2>3, <2>4, <3>1
    <2>6. VoteStands(d, wp[p].term, v)
      <3>1. CASE d = s
        <4>1. v = VoteOf(Answer(p, s)) /\ Given(Answer(p, s)) /\ FirstAnswer(p, s, "Vote")
          BY <1>2, <3>1 DEF VoteWith, Wins
        <4>2. Answer(p, s) \in ToSet(toWp[p][s])
          BY <1>0, <4>1, Parts, AnswerCame
        <4> QED BY <1>0, <3>1, <4>1, <4>2 DEF VotesStand
      <3>2. CASE d # s
        <4>1. sks[p][d].state = "WAIT_ELECTED" /\ v = sks[p][d].vote
          BY <2>1, <3>2 DEF Voters, VoteWith
        <4> QED BY <1>0, <4>1 DEF VotesStand
      <3> QED BY <3>1, <3>2
    <2>7. cf[d].term >= w.term
      BY <1>0, <2>2, <2>3, TermTypes DEF VotesArePersisted
    <2> HIDE DEF v
    <2>8. w.term \in Followed(d) \/ UpTo(cf[d].hist, w.start) = Front(w.hist)
      BY <2>3, <2>4, <2>6 DEF VoteStands
    <2>9. Followed(d)' = Followed(d)
      BY <2>1 DEF Followed, Follows
    <2> QED BY <2>1, <2>3, <2>5, <2>7, <2>8, <2>9 DEF DonorStands
  <1> QED BY <1>0, <1>1, <1>2, ElectedMoves

\* What a history says about LSNs from its last entry on.
LEMMA LastTerm ==
  ASSUME NEW h, WellFormed(h), NEW l \in Int, Last(h).lsn <= l
  PROVE  TermAt(h, l) = HighestTerm(h)
PROOF
  <1>1. /\ h \in Seq(TermSwitches) /\ Len(h) \in Nat /\ Len(h) >= 1
        /\ \A i \in 1..Len(h) : h[i].lsn \in Int
        /\ Last(h) = h[Len(h)] /\ h[1].lsn = StartLsn
        /\ \A i, j \in 1..Len(h) : i < j => h[i].lsn <= h[j].lsn
    BY WellFormedFacts
  <1>2. Len(h) \in 1..Len(h) /\ 1 \in 1..Len(h) /\ StartLsn \in Int
    BY <1>1, Ranges
  <1>3. \A i \in 1..Len(h) : h[i].lsn <= l
    <2> SUFFICES ASSUME NEW i \in 1..Len(h) PROVE h[i].lsn <= l
      OBVIOUS
    <2>1. i < Len(h) \/ i = Len(h)
      BY <1>1
    <2>2. h[i].lsn <= h[Len(h)].lsn /\ h[i].lsn \in Int /\ h[Len(h)].lsn \in Int
      BY <1>1, <1>2, <2>1
    <2> QED BY <1>1, <2>2
  <1>4. StartLsn <= l
    BY <1>1, <1>2, <1>3
  <1>5. PICK k \in 1..Len(h) : UpTo(h, l) = SubSeq(h, 1, k) /\ (k < Len(h) => h[k + 1].lsn > l)
    BY <1>4, FlushedPart
  <1>6. k = Len(h)
    <2> SUFFICES ASSUME k < Len(h) PROVE FALSE
      BY <1>1
    <2>1. k + 1 \in 1..Len(h)
      BY <1>1
    <2>2. h[k + 1].lsn > l /\ h[k + 1].lsn <= l /\ h[k + 1].lsn \in Int
      BY <1>1, <1>3, <1>5, <2>1
    <2> QED BY <2>2
  <1>7. UpTo(h, l) = h
    BY <1>1, <1>2, <1>5, <1>6, CutFacts
  <1> QED BY <1>7 DEF TermAt, LastLogTerm

\* Below the start of its own WAL, the history of walproposer says what that of its
\* donor says.
LEMMA RecoveredTerms ==
  ASSUME NEW h, WellFormed(h), NEW d, WellFormed(d), Len(h) > 1, NEW start \in Int,
         Last(h).lsn = start, StartLsn <= start, UpTo(d, start) = Front(h),
         NEW l \in Int, l < start
  PROVE  TermAt(d, l) = TermAt(h, l)
PROOF
  <1>1. /\ h \in Seq(TermSwitches) /\ Len(h) \in Nat /\ Last(h) = h[Len(h)]
        /\ d \in Seq(TermSwitches) /\ Len(d) \in Nat
        /\ \A i \in 1..Len(d) : d[i].lsn \in Int
    BY WellFormedFacts
  <1>2. PICK k \in 1..Len(d) : UpTo(d, start) = SubSeq(d, 1, k) /\ (k < Len(d) => d[k + 1].lsn > start)
    BY FlushedPart
  <1>3. TermAt(SubSeq(d, 1, k), l) = TermAt(d, l)
    <2>1. k = Len(d) \/ d[k + 1].lsn > l
      <3>1. k < Len(d) => k + 1 \in 1..Len(d)
        BY <1>1
      <3> QED BY <1>1, <1>2, <3>1
    <2> QED BY <2>1, TermAtOfCut
  <1>4. Front(h) = SubSeq(h, 1, Len(h) - 1)
    BY <1>1 DEF Front
  <1>5. TermAt(SubSeq(h, 1, Len(h) - 1), l) = TermAt(h, l)
    <2> DEFINE j == Len(h) - 1
    <2>1. j \in 1..Len(h) /\ j + 1 = Len(h)
      BY <1>1
    <2>2. h[j + 1].lsn > l
      BY <1>1, <2>1
    <2> HIDE DEF j
    <2>3. TermAt(SubSeq(h, 1, j), l) = TermAt(h, l)
      BY <2>1, <2>2, TermAtOfCut
    <2> QED BY <2>3 DEF j
  <1> QED BY <1>2, <1>3, <1>4, <1>5

\* What p knows about the WAL of a safekeeper it may read from.
LEMMA DonorsTerms ==
  ASSUME WalInv, NEW p \in Proposers, NEW d \in Donors(p), wp[p].state = "ELECTED",
         cf[d].term = wp[p].term, NEW l \in Int, l < wp[p].start
  PROVE  TermAt(cf[d].hist, l) = TermAt(wp[p].hist, l)
PROOF
  <1>0. /\ TypeOK /\ KnownAreSound /\ KnownAgree /\ AcksAreTrue /\ DonorsStand /\ WinnersHaveWon
    BY DEF WalInv, AckInv, HistoryInv, ElectionInv
  <1> DEFINE h == wp[p].hist
             g == cf[d].hist
  <1>1. d \in Safekeepers
    BY DEF Donors
  <1>2. wp[p] \in ProposerRecords /\ ProposerPhase(wp[p])
    BY <1>0, <1>1, Parts, OneRecord
  <1>3. IsKnown(h) /\ IsKnown(g)
    BY <1>1 DEF IsKnown
  <1>4. WellFormed(h) /\ WellFormed(g) /\ Agree(g, h)
    BY <1>0, <1>3 DEF KnownAreSound, KnownAgree
  <1>5. HighestTerm(h) = wp[p].term
    BY <1>2 DEF ProposerPhase, HighestTerm
  <1>6. CASE wp[p].term \in Followed(d)
    <2>1. cf[d].term \in Int
      BY <1>0, <1>1, TermTypes
    <2>2. HighestTerm(g) = wp[p].term
      BY <1>6, <2>1 DEF Followed, Follows
    <2>3. g = h
      BY <1>4, <1>5, <2>2, SameHighestTerm
    <2> QED BY <2>3
  <1>7. CASE wp[p].term \notin Followed(d)
    <2>1. Acked(p, d, sks[p][d].flush)
      BY <1>0, <1>1 DEF AcksAreTrue
    <2>2. d = wp[p].donor
      BY <1>7, <2>1 DEF Acked, Donors
    <2>3. UpTo(g, wp[p].start) = Front(h) /\ Last(h).lsn = wp[p].start
      BY <1>0, <1>7, <2>2 DEF DonorsStand, DonorStands
    <2>4. wp[p].start \in Lsns
      BY <1>2 DEF ProposerPhase, ProposerRecords, OptLsns
    <2>5. wp[p].start \in Int /\ StartLsn <= wp[p].start
      BY <2>4, LsnRange
    <2>6. Len(h) > 1
      <3>0. Len(h) \in Nat /\ Len(h) >= 1
        BY <1>4, WellFormedFacts
      <3>1. Len(h) # 1
       <4> SUFFICES ASSUME Len(h) = 1 PROVE FALSE
         OBVIOUS
       <4>1. HighestTerm(h) = 0 /\ HighestTerm(h) \in Int
         BY <1>4, WellFormedFacts, HistoryTerm
       <4>2. HighestTerm(g) \in Int /\ HighestTerm(g) <= cf[d].term
         BY <1>0, <1>1, <1>4, HistoryTerm DEF WalInv, AckInv, HistoryInv, HistoriesWithinTerm
       <4>3. Len(g) \in 1..Len(g) /\ 1 \in 1..Len(g) /\ g[1].term = 0
         BY <1>4, WellFormedFacts
       <4>4. HighestTerm(g) = 0
         BY <1>4, <1>5, <4>1, <4>2, <4>3, WellFormedFacts
       <4>5. wp[p].term \in Terms
         BY <1>2 DEF ProposerRecords
       <4> QED BY <1>5, <1>7, <4>1, <4>4, <4>5 DEF Followed, Follows
      <3>2. \A n \in Nat : n >= 1 /\ n # 1 => n > 1
        OBVIOUS
      <3> QED BY <3>0, <3>1, <3>2
    <2> HIDE DEF h, g
    <2>7. TermAt(g, l) = TermAt(h, l)
      BY <1>4, <2>3, <2>5, <2>6, RecoveredTerms
    <2> QED BY <2>7 DEF h, g
  <1> QED BY <1>6, <1>7

\* WAL that walproposer sends is what its history says, its own and what it reads from
\* a donor.
LEMMA SentIsDescribed ==
  ASSUME WalInv, NEW p \in Proposers, NEW s \in Safekeepers, NEW m, NewAppend(p, s, m)
  PROVE  Describes(wp[p].hist, m.wal, m.begin)
PROOF
  <1>0. TypeOK /\ KnownAreSound /\ DonorsStand /\ WalIsDescribed
    BY DEF WalInv, AckInv, HistoryInv, ElectionInv
  <1>1. CASE m.wal = <<>>
    BY <1>1 DEF Describes
  <1>2. ASSUME NEW donor \in Safekeepers, CanRead(p, s, donor), m = AppendRequest(p, s, donor)
        PROVE  Describes(wp[p].hist, m.wal, m.begin)
    <2> DEFINE h == wp[p].hist
               begin == sks[p][s].streamingAt
               end == SendEnd(p, s)
               start == wp[p].start
    <2>1. sks[p][s].state = "ACTIVE"
      BY DEF NewAppend
    <2>2. /\ wp[p] \in ProposerRecords /\ ProposerPhase(wp[p])
          /\ sks[p][s] \in SafekeeperRecords /\ SafekeeperPhase(wp[p], sks[p][s])
      BY <1>0, Parts, OneRecord
    <2>3. wp[p].state = "ELECTED" /\ begin # 0
      BY <2>1, <2>2 DEF SafekeeperPhase
    <2>4. begin \in Lsns /\ start \in Lsns /\ wp[p].avail \in Lsns
      BY <2>2, <2>3 DEF ProposerPhase, ProposerRecords, SafekeeperRecords, OptLsns
    <2>5. begin \in Int /\ start \in Int /\ wp[p].avail \in Int /\ StartLsn \in Int /\ StartLsn <= begin
      BY <2>4, LsnRange, Ranges
    <2>6. end \in Int
      BY <2>5, MaxSendSizeAssumption DEF SendEnd, Lower
    <2>7. WellFormed(h) /\ HighestTerm(h) = wp[p].term
      BY <1>0, <2>2, <2>3 DEF KnownAreSound, IsKnown, ProposerPhase, HighestTerm
    <2>8. Last(h).lsn = start
      BY <1>0, <2>3 DEF DonorsStand, DonorStands
    <2> HIDE DEF end
    <2>9. /\ m.begin = begin
          /\ m.wal = [i \in 1..(end - begin) |-> IF begin + i - 1 >= start THEN wp[p].term
                                                 ELSE wal[donor][begin + i - StartLsn]]
      BY <1>2 DEF AppendRequest, end
    <2>10. \A i \in 1..Len(m.wal) : i \in 1..(end - begin)
      <3>1. CASE end - begin >= 0
        <4>1. end - begin \in Nat
          BY <2>5, <2>6, <3>1
        <4>2. Len(m.wal) = end - begin
          BY <2>9, <4>1
        <4> QED BY <4>2
      <3>2. CASE end - begin < 0
        <4>1. 1..(end - begin) = 1..0
          BY <2>5, <2>6, <3>2
        <4>2. m.wal = [i \in 1..0 |-> IF begin + i - 1 >= start THEN wp[p].term
                                      ELSE wal[donor][begin + i - StartLsn]]
          BY <2>9, <4>1
        <4>3. Len(m.wal) = 0
          BY <4>2
        <4> QED BY <4>3
      <3> QED BY <2>5, <2>6, <3>1, <3>2
    <2>11. ASSUME NEW i \in 1..(end - begin) PROVE m.wal[i] = TermAt(h, begin + i - 1)
      <3> DEFINE l == begin + i - 1
      <3>1. l \in Int /\ begin <= l /\ l < end /\ i \in Int
        BY <2>5, <2>6
      <3>2. CASE l >= start
        <4>1. m.wal[i] = wp[p].term
          BY <2>9, <3>2
        <4>2. TermAt(h, l) = HighestTerm(h)
          BY <2>5, <2>7, <2>8, <3>1, <3>2, LastTerm
        <4> QED BY <2>7, <4>1, <4>2
      <3>3. CASE l < start
        <4>1. m.wal[i] = wal[donor][begin + i - StartLsn]
          BY <2>5, <2>9, <3>1, <3>3
        <4>2. /\ donor \in Donors(p) /\ cf[donor].term = wp[p].term
              /\ flushLsn[donor] >= Lower(end, start)
          BY <1>2, <2>5, <2>6, <3>1, <3>3 DEF CanRead, end
        <4> DEFINE a == begin + i - StartLsn
        <4>3. /\ flushLsn[donor] \in Int /\ Len(wal[donor]) \in Nat
              /\ flushLsn[donor] <= StartLsn + Len(wal[donor])
          BY <1>0, Parts, SafekeeperNumbers, SafekeeperFacts DEF SafekeeperTypeOK, WriteLsn
        <4>4. a \in 1..Len(wal[donor]) /\ StartLsn + a - 1 = l
          <5>1. l < Lower(end, start)
            BY <2>5, <2>6, <3>1, <3>3 DEF Lower
          <5>2. Lower(end, start) \in Int
            BY <2>5, <2>6 DEF Lower
          <5>3. l < flushLsn[donor]
            BY <3>1, <4>2, <4>3, <5>1, <5>2
          <5>4. l < StartLsn + Len(wal[donor])
            BY <2>5, <3>1, <4>3, <5>3
          <5>5. a = l - StartLsn + 1 /\ a \in Int /\ StartLsn <= l
            BY <2>5, <3>1
          <5> HIDE DEF a, l
          <5> QED BY <2>5, <3>1, <4>3, <5>4, <5>5
        <4> HIDE DEF a, l
        <4>5. wal[donor][a] = TermAt(cf[donor].hist, l)
          BY <1>0, <4>4 DEF WalIsDescribed, Describes
        <4>6. TermAt(cf[donor].hist, l) = TermAt(h, l)
          BY <2>3, <3>1, <3>3, <4>2, DonorsTerms
        <4> QED BY <4>1, <4>5, <4>6 DEF a, l
      <3> QED BY <2>5, <3>1, <3>2, <3>3
    <2> QED BY <2>9, <2>10, <2>11 DEF Describes
  <1> QED BY <1>1, <1>2 DEF NewAppend

\* WAL on its way is described by every history that has its term.
LEMMA AppendsStep ==
  ASSUME WalInv, ElectionInv', Step
  PROVE  AppendsAreDescribed'
PROOF
  <1>0. /\ TypeOK /\ TypeOK' /\ Moves /\ HistoryInv /\ KnownAreSound /\ KnownAgree
        /\ MessagesAreWinners /\ WinnersHaveWon /\ AppendsAreDescribed
    BY DEF WalInv, AckInv, HistoryInv, ElectionInv, Step, QuietMove, WinMove
  <1> SUFFICES ASSUME NEW k \in Kinds, NEW p \in Proposers, NEW s \in Safekeepers,
                      NEW m \in ToSet(conn'[k][p][s].queue), m.type = "AppendRequest",
                      NEW g, IsKnown(g)', NEW j \in 1..Len(g), g[j].term = m.term
               PROVE  Describes(SubSeq(g, 1, j), m.wal, m.begin)
    BY DEF AppendsAreDescribed
  <1>1. CASE m \in ToSet(conn[k][p][s].queue) \/ m \in ToSet(conn["live"][p][s].queue)
    <2>1. Won(m.term)
      BY <1>0, <1>1 DEF MessagesAreWinners, Kinds
    <2>2. PICK x : /\ IsKnown(x) /\ j \in 1..Len(x) /\ x[j].term = g[j].term
                   /\ SubSeq(x, 1, j) = SubSeq(g, 1, j)
      BY <1>0, <2>1, KnownBefore
    <2>3. Describes(SubSeq(x, 1, j), m.wal, m.begin)
      BY <1>0, <1>1, <2>2 DEF AppendsAreDescribed, Kinds
    <2> QED BY <2>2, <2>3
  <1>2. CASE NewMessage(p, s, m)
    <2>1. NewAppend(p, s, m) /\ wp[p].state = "ELECTED" /\ m.term = wp[p].term
      BY <1>0, <1>2, SentMessages
    <2>2. Won(m.term)
      BY <1>0, <2>1 DEF WinnersHaveWon, Won
    <2>3. PICK x : /\ IsKnown(x) /\ j \in 1..Len(x) /\ x[j].term = g[j].term
                   /\ SubSeq(x, 1, j) = SubSeq(g, 1, j)
      BY <1>0, <2>2, KnownBefore
    <2>4. IsKnown(wp[p].hist)
      BY <2>1 DEF IsKnown
    <2>5. WellFormed(x) /\ WellFormed(wp[p].hist) /\ Agree(wp[p].hist, x)
      BY <1>0, <2>3, <2>4 DEF KnownAreSound, KnownAgree
    <2>6. x[j].term = HighestTerm(wp[p].hist)
      <3>1. ProposerPhase(wp[p])
        BY <1>0, Parts, OneRecord
      <3> QED BY <2>1, <2>3, <3>1 DEF ProposerPhase, HighestTerm
    <2>7. wp[p].hist = SubSeq(x, 1, j)
      BY <2>3, <2>5, <2>6, SameTermSameHistory
    <2> QED BY <2>1, <2>3, <2>7, SentIsDescribed
  <1> QED BY <1>0, <1>1, <1>2, QueueMoves

\* Nothing is written yet.
LEMMA WalInit == Init => WalInv
PROOF
  <1> SUFFICES ASSUME Init PROVE WalInv
    OBVIOUS
  <1>1. AckInv
    BY AckInit
  <1>2. /\ \A k \in Kinds, p \in Proposers, s \in Safekeepers : ToSet(conn[k][p][s].queue) = {}
        /\ \A p \in Proposers, s \in Safekeepers :
             ToSet(toWp[p][s]) = {} /\ sks[p][s].state = "OFFLINE"
        /\ \A p \in Proposers : wp[p].state = "COLLECTING_TERMS"
        /\ \A s \in Safekeepers : wal[s] = <<>>
    BY SmallQueues DEF Init, SafekeeperInit, WalProposerInit, Closed, Offline, NewProposer
  <1>3. WalIsDescribed
    BY <1>2 DEF WalIsDescribed, Describes
  <1>4. AppendsAreDescribed /\ VotesStand /\ DonorsStand
    BY <1>2 DEF AppendsAreDescribed, VotesStand, DonorsStand
  <1> QED BY <1>1, <1>3, <1>4 DEF WalInv

\* Every step keeps the invariant, ...
LEMMA WalNext ==
  ASSUME QuorumsIntersect, WalInv, [Next]_vars
  PROVE  /\ WalInv' /\ AckInv /\ AckInv' /\ HistoryInv /\ HistoryInv' /\ Step
         /\ TypeOK /\ TypeOK' /\ ElectionInv'
PROOF
  <1>1. AckInv /\ AckInv' /\ HistoryInv /\ HistoryInv' /\ Step /\ TypeOK /\ TypeOK'
    BY AckNext DEF WalInv
  <1>2. ElectionInv'
    BY <1>1 DEF HistoryInv
  <1> QED BY <1>1, <1>2, WalStep, AppendsStep, VotesStandStep, DonorsStandStep DEF WalInv

\* ... and so the term history in the control file says which term wrote each unit of
\* WAL, on disk and not flushed yet, after every cut, crash, restart and recovery from
\* a donor.
THEOREM HistoriesDescribeWal == QuorumsIntersect => (Spec => []HistoryDescribesWal)
PROOF
  <1> SUFFICES ASSUME QuorumsIntersect PROVE Spec => []HistoryDescribesWal
    OBVIOUS
  <1>1. Init => WalInv
    BY WalInit
  <1>2. WalInv /\ [Next]_vars => WalInv'
    BY WalNext
  <1>3. WalInv => HistoryDescribesWal
    <2> SUFFICES ASSUME WalInv, NEW s \in Safekeepers
                 PROVE  wal[s] = WalOf(cf[s].hist, StartLsn, WriteLsn(s))
      BY DEF HistoryDescribesWal
    <2>1. wal[s] \in Seq(Terms) /\ Len(wal[s]) \in Nat /\ StartLsn \in Nat
      BY Parts, SafekeeperFacts, Ranges DEF WalInv, AckInv, HistoryInv, ElectionInv
    <2>2. \A i \in 1..Len(wal[s]) : wal[s][i] = TermAt(cf[s].hist, StartLsn + i - 1)
      BY DEF WalInv, WalIsDescribed, Describes
    <2>3. WriteLsn(s) - StartLsn = Len(wal[s])
      BY <2>1 DEF WriteLsn
    <2>4. wal[s] = [i \in 1..Len(wal[s]) |-> wal[s][i]]
      BY <2>1
    <2>5. wal[s] = [i \in 1..Len(wal[s]) |-> TermAt(cf[s].hist, StartLsn + i - 1)]
      BY <2>2, <2>4
    <2> QED BY <2>3, <2>5 DEF WalOf
  <1> QED BY <1>1, <1>2, <1>3, PTL DEF Spec


-----------------------------------------------------------------------------
(* WAL of a term lies within the WAL of its walproposer *)

\* WAL of term t that safekeepers have, or that is on its way to them, ends by LSN a.
Within(t, a) ==
  /\ \A s \in Safekeepers : HighestTerm(cf[s].hist) = t => WriteLsn(s) <= a
  /\ \A k \in Kinds, p \in Proposers, s \in Safekeepers : \A m \in ToSet(conn[k][p][s].queue) :
       m.term = t => /\ m.type = "ProposerElected" => m.start <= a
                     /\ m.type = "AppendRequest" => m.begin + Len(m.wal) <= a

\* So do the places from which walproposer w streams, or may start to.
StreamsWithin(w, sk, answers) ==
  /\ sk.state = "ACTIVE" => sk.streamingAt <= w.avail
  /\ \A m \in answers :
       m.type = "Vote" /\ m.term = w.term /\ HighestTerm(m.hist) = w.term => m.flush <= w.avail

WithinAvail ==
  \A p \in Proposers :
    wp[p].state = "ELECTED" =>
      /\ wp[p].start <= wp[p].avail
      /\ Within(wp[p].term, wp[p].avail)
      /\ \A s \in Safekeepers : StreamsWithin(wp[p], sks[p][s], ToSet(toWp[p][s]))

\* SendProposerElected starts streaming before the start of the term, or at the end of
\* the safekeeper's WAL when that is of the term already.
LEMMA StreamingBound ==
  ASSUME NEW h, WellFormed(h), NEW g, WellFormed(g), NEW f \in Lsns,
         HighestTerm(g) <= HighestTerm(h)
  PROVE  LET x == StartStreamingAt(h, HighestTerm(h), g, f)
         IN  \/ x \in Lsns /\ x <= Last(h).lsn
             \/ HighestTerm(g) = HighestTerm(h) /\ x = f
PROOF
  <1> DEFINE k == CommonEntries(h, g)
             t == HighestTerm(h)
             x == StartStreamingAt(h, t, g, f)
             e == IF k < Len(g) THEN g[k + 1].lsn ELSE f
  <1>1. /\ h \in Seq(TermSwitches) /\ Len(h) \in Nat /\ Len(h) >= 1 /\ Last(h) = h[Len(h)]
        /\ \A i \in 1..Len(h) : h[i].lsn \in Lsns /\ h[i].lsn \in Int /\ h[i].term \in Int
        /\ \A i, j \in 1..Len(h) : i < j => h[i].term < h[j].term /\ h[i].lsn <= h[j].lsn
        /\ t = h[Len(h)].term
    BY WellFormedFacts
  <1>2. /\ g \in Seq(TermSwitches) /\ Len(g) \in Nat /\ Len(g) >= 1
        /\ \A i \in 1..Len(g) : g[i].lsn \in Lsns /\ g[i].term \in Int /\ g[i].term <= HighestTerm(g)
    BY WellFormedFacts
  <1>3. /\ k \in Nat /\ k <= Len(h) /\ k <= Len(g)
        /\ \A i \in 1..k : h[i].term = g[i].term
    BY <1>1, <1>2, CommonEntriesProperties
  <1>4. HighestTerm(g) \in Int
    BY HistoryTerm
  <1>5. \A i \in 1..Len(h) : h[i].lsn <= Last(h).lsn
    <2> SUFFICES ASSUME NEW i \in 1..Len(h) PROVE h[i].lsn <= h[Len(h)].lsn
      BY <1>1
    <2>1. Len(h) \in 1..Len(h) /\ (i < Len(h) \/ i = Len(h))
      BY <1>1
    <2> QED BY <1>1, <2>1
  <1>6. x = IF k = 0 THEN h[1].lsn ELSE IF h[k].term = t THEN f ELSE Lower(h[k + 1].lsn, e)
    BY DEF StartStreamingAt
  <1> HIDE DEF k, t, x, e
  <1>7. CASE k = 0
    <2>1. 1 \in 1..Len(h) /\ x = h[1].lsn
      BY <1>1, <1>6, <1>7
    <2>2. x \in Lsns /\ x <= Last(h).lsn
      BY <1>1, <1>5, <2>1
    <2> QED BY <2>2 DEF x, t
  <1>8. CASE k # 0 /\ h[k].term = t
    <2>1. x = f /\ k \in 1..Len(g) /\ k \in 1..k
      BY <1>2, <1>3, <1>6, <1>8
    <2>2. g[k].term = t /\ g[k].term \in Int /\ t <= HighestTerm(g)
      BY <1>2, <1>3, <1>8, <2>1
    <2>3. HighestTerm(g) = t
      <3>1. HighestTerm(g) <= t
        BY DEF t
      <3> QED BY <1>4, <2>2, <3>1
    <2> QED BY <2>1, <2>3 DEF x, t
  <1>9. CASE k # 0 /\ h[k].term # t
    <2>1. k # Len(h)
      BY <1>1, <1>9
    <2>2. k + 1 \in 1..Len(h) /\ (k < Len(g) => k + 1 \in 1..Len(g))
      BY <1>1, <1>2, <1>3, <2>1
    <2>3. e \in Lsns /\ h[k + 1].lsn \in Lsns
      BY <1>1, <1>2, <2>2 DEF e
    <2>4. e \in Int /\ h[k + 1].lsn \in Int
      BY <2>3, Ranges
    <2>5. x = Lower(h[k + 1].lsn, e)
      BY <1>6, <1>9
    <2>6. x \in Lsns /\ x <= h[k + 1].lsn
      BY <2>3, <2>4, <2>5 DEF Lower
    <2>7. x \in Int /\ h[k + 1].lsn <= Last(h).lsn /\ Last(h).lsn \in Int
      <3>1. Len(h) \in 1..Len(h)
        BY <1>1
      <3> QED BY <1>1, <1>5, <2>2, <2>6, <3>1, Ranges
    <2>8. x <= Last(h).lsn
      BY <2>4, <2>6, <2>7
    <2> QED BY <2>6, <2>8 DEF x, t
  <1> QED BY <1>7, <1>8, <1>9

\* Where a safekeeper stands after a step, in the WAL of the term its history ends in.
LEMMA FilesWithin ==
  ASSUME AckInv, TypeOK', Step, NEW s \in Safekeepers, NEW t, NEW a \in Int, Within(t, a),
         HighestTerm(cf'[s].hist) = t
  PROVE  WriteLsn(s)' <= a
PROOF
  <1>0. /\ TypeOK /\ Moves /\ HistoryInv /\ QueuesInOrder /\ MessagesAreWinners
        /\ KnownAreSound /\ KnownAgree
    BY DEF AckInv, HistoryInv, ElectionInv, Step, QuietMove, WinMove
  <1>1. SafekeeperMove(s)
    BY <1>0 DEF Moves
  <1>2. /\ wal[s] \in Seq(Terms) /\ Len(wal[s]) \in Nat /\ StartLsn \in Int
        /\ flushLsn[s] \in Lsns /\ flushLsn[s] \in Int /\ StartLsn <= flushLsn[s]
        /\ flushLsn[s] <= WriteLsn(s)
        /\ WriteLsn(s) = StartLsn + Len(wal[s]) /\ WriteLsn(s) \in Int
    <2>1. flushLsn[s] \in Lsns /\ wal[s] \in Seq(Terms) /\ Len(wal[s]) \in Nat
          /\ flushLsn[s] <= WriteLsn(s)
      BY <1>0, Parts, SafekeeperFacts
    <2> QED BY <1>0, <2>1, LsnRange, Ranges, Parts, SafekeeperNumbers DEF WriteLsn
  <1>3. WriteLsn(s)' = StartLsn + Len(wal'[s])
    BY DEF WriteLsn
  <1>4. \A lsn \in Int : StartLsn <= lsn /\ lsn <= WriteLsn(s) =>
          StartLsn + Len(SubSeq(wal[s], 1, lsn - StartLsn)) = lsn
    <2> SUFFICES ASSUME NEW lsn \in Int, StartLsn <= lsn, lsn <= WriteLsn(s)
                 PROVE  StartLsn + Len(SubSeq(wal[s], 1, lsn - StartLsn)) = lsn
      OBVIOUS
    <2>1. lsn - StartLsn \in 0..Len(wal[s])
      BY <1>2
    <2>2. Len(SubSeq(wal[s], 1, lsn - StartLsn)) = lsn - StartLsn
      BY <1>2, <2>1, CutFacts
    <2> QED BY <1>2, <2>2
  <1>5. HighestTerm(cf[s].hist) = t => WriteLsn(s) <= a
    BY DEF Within
  <1>6. CASE Keeps(s)
    BY <1>2, <1>3, <1>5, <1>6 DEF Keeps
  <1>7. CASE Restarts(s)
    <2>1. cf'[s].hist = cf[s].hist
      BY <1>7 DEF Restarts
    <2>2. PICK lsn \in flushLsn[s]..WriteLsn(s) : wal'[s] = SubSeq(wal[s], 1, lsn - StartLsn)
      BY <1>7 DEF Restarts
    <2>3. lsn \in Int /\ StartLsn <= lsn /\ lsn <= WriteLsn(s)
      BY <1>2, <2>2
    <2>4. WriteLsn(s)' = lsn
      BY <1>3, <1>4, <2>2, <2>3
    <2> QED BY <1>2, <1>5, <2>1, <2>3, <2>4
  <1>8. ASSUME NEW k \in Kinds, NEW p \in Proposers, FirstMessage(k, p, s, "AppendRequest"),
               Appends(s, Message(k, p, s))
        PROVE  WriteLsn(s)' <= a
    <2> DEFINE m == Message(k, p, s)
               q == conn[k][p][s].queue
    <2>1. m \in ToSet(q) /\ m.type = "AppendRequest" /\ m \in ToSafekeeper
      BY <1>0, <1>8, MessageCame
    <2>2. q \in Seq(ToSafekeeper) /\ q # <<>> /\ m = q[1]
      BY <1>0, <1>8, Parts, ConnectionFacts DEF FirstMessage, Message
    <2>3. 1 \in 1..Len(q)
      BY <2>2, SeqFacts
    <2>4. m.term \in Followed(s)
      BY <1>0, <2>1, <2>2, <2>3 DEF InOrder, QueuesInOrder
    <2>5. /\ cf[s].term = m.term /\ WriteLsn(s) = m.begin /\ cf'[s].hist = cf[s].hist
          /\ wal'[s] = wal[s] \o m.wal
      BY <1>8 DEF Appends
    <2>6. m.wal \in Seq(Terms) /\ Len(m.wal) \in Nat
      BY <2>1, MessageFacts, SeqFacts
    <2>7. m.term = t
      <3>1. cf[s].term \in Int
        BY <1>0, TermTypes
      <3>2. HighestTerm(cf[s].hist) = m.term
        BY <2>4, <2>5, <3>1 DEF Followed, Follows
      <3> QED BY <2>5, <3>2
    <2>8. m.begin + Len(m.wal) <= a
      BY <2>1, <2>7 DEF Within
    <2> HIDE DEF m, q
    <2>9. Len(wal'[s]) = Len(wal[s]) + Len(m.wal)
      BY <1>2, <2>5, <2>6, ConcatProperties
    <2>10. WriteLsn(s)' = m.begin + Len(m.wal)
      <3>1. \A x, y, z \in Int : x + (y + z) = (x + y) + z
        OBVIOUS
      <3>2. StartLsn \in Int /\ Len(wal[s]) \in Int /\ Len(m.wal) \in Int
        BY <1>2, <2>6
      <3>3. StartLsn + (Len(wal[s]) + Len(m.wal)) = (StartLsn + Len(wal[s])) + Len(m.wal)
        BY ONLY <3>1, <3>2
      <3>4. WriteLsn(s)' = StartLsn + (Len(wal[s]) + Len(m.wal))
        BY ONLY <1>3, <2>9
      <3>5. m.begin = StartLsn + Len(wal[s])
        BY <1>2, <2>5
      <3> QED BY ONLY <3>3, <3>4, <3>5
    <2> QED BY <2>8, <2>10
  <1>9. ASSUME NEW k \in Kinds, NEW p \in Proposers, FirstMessage(k, p, s, "ProposerElected"),
               Adopts(s, Message(k, p, s)) \/ RestartsIn(s, Message(k, p, s))
        PROVE  WriteLsn(s)' <= a
    <2> DEFINE m == Message(k, p, s)
    <2>1. m \in ToSet(conn[k][p][s].queue) /\ m.type = "ProposerElected" /\ m \in ToSafekeeper
      BY <1>0, <1>9, MessageCame
    <2>2. m.start \in Int /\ StartLsn <= m.start
      BY <2>1, MessageFacts, LsnRange
    <2>3. m.start <= WriteLsn(s)
      BY <1>9 DEF Adopts, RestartsIn, ElectedAccepted, ElectedExpected
    <2>4. CASE RestartsIn(s, m)
      <3>1. PICK lsn \in m.start..WriteLsn(s) : wal'[s] = SubSeq(wal[s], 1, lsn - StartLsn)
        BY <2>4 DEF RestartsIn
      <3>2. cf'[s].hist = cf[s].hist
        BY <2>4 DEF RestartsIn
      <3> HIDE DEF m
      <3>3. lsn \in Int /\ StartLsn <= lsn /\ lsn <= WriteLsn(s)
        BY <1>2, <2>2, <3>1
      <3>4. WriteLsn(s)' = lsn
        BY <1>3, <1>4, <3>1, <3>3
      <3> QED BY <1>2, <1>5, <3>2, <3>3, <3>4
    <2>5. CASE Adopts(s, m)
      <3>1. wal'[s] = SubSeq(wal[s], 1, m.start - StartLsn) /\ cf'[s].hist = m.hist
        BY <2>5 DEF Adopts
      <3>2. m.term = t
        BY <1>0, <2>1, <3>1 DEF MessagesAreWinners
      <3>3. m.start <= a
        BY <2>1, <3>2 DEF Within
      <3> HIDE DEF m
      <3>4. WriteLsn(s)' = m.start
        BY <1>3, <1>4, <2>2, <2>3, <3>1
      <3> QED BY <3>3, <3>4
    <2> QED BY <1>9, <2>4, <2>5
  <1> QED BY <1>1, <1>6, <1>7, <1>8, <1>9 DEF SafekeeperMove

\* What SendAppendRequests sends ends within the WAL that walproposer has.
LEMMA SentWithin ==
  ASSUME TypeOK, NEW p \in Proposers, NEW s \in Safekeepers, NEW m, NewAppend(p, s, m),
         sks[p][s].streamingAt <= wp[p].avail
  PROVE  m.begin + Len(m.wal) <= wp[p].avail
PROOF
  <1>1. /\ wp[p] \in ProposerRecords /\ ProposerPhase(wp[p])
        /\ sks[p][s] \in SafekeeperRecords /\ SafekeeperPhase(wp[p], sks[p][s])
    BY Parts, OneRecord
  <1>2. wp[p].state = "ELECTED" /\ sks[p][s].state = "ACTIVE" /\ m.begin = sks[p][s].streamingAt
    BY <1>1 DEF NewAppend, SafekeeperPhase
  <1>3. sks[p][s].streamingAt \in Int /\ wp[p].avail \in Int
    <2>1. sks[p][s].streamingAt \in OptLsns /\ wp[p].avail \in OptLsns
      BY <1>1 DEF SafekeeperRecords, ProposerRecords
    <2> QED BY <2>1, OptRanges
  <1>4. CASE m.wal = <<>>
    BY <1>2, <1>3, <1>4, EmptySeq
  <1>5. ASSUME NEW donor \in Safekeepers, m = AppendRequest(p, s, donor)
        PROVE  m.begin + Len(m.wal) <= wp[p].avail
    <2> DEFINE b == sks[p][s].streamingAt
               e == SendEnd(p, s)
               F(i) == IF b + i - 1 >= wp[p].start THEN wp[p].term ELSE wal[donor][b + i - StartLsn]
    <2>1. e \in Int /\ e <= wp[p].avail
      BY <1>3, MaxSendSizeAssumption DEF SendEnd, Lower
    <2>2. m.wal = [i \in 1..(e - b) |-> F(i)]
      BY <1>5 DEF AppendRequest
    <2> HIDE DEF e, b, F
    <2>3. b \in Int /\ b <= wp[p].avail /\ m.begin = b
      BY <1>2, <1>3 DEF b
    <2>4. CASE e - b >= 0
      <3>1. e - b \in Nat
        BY <2>1, <2>3, <2>4
      <3>2. Len(m.wal) = e - b
        BY <2>2, <3>1
      <3> QED BY <1>3, <2>1, <2>3, <3>2
    <2>5. CASE e - b < 0
      <3>1. 1..(e - b) = 1..0
        BY <2>1, <2>3, <2>5
      <3>2. m.wal = [i \in 1..0 |-> F(i)]
        BY <2>2, <3>1
      <3>3. Len(m.wal) = 0
        BY <3>2
      <3> QED BY <1>3, <2>3, <3>3
    <2> QED BY <2>1, <2>3, <2>4, <2>5
  <1> QED BY <1>4, <1>5 DEF NewAppend

\* Two walproposers elected in the same term are the same.
LEMMA OneLeader ==
  ASSUME ElectionSafety, WinnersHaveWon, NEW p \in Proposers, NEW q \in Proposers,
         wp[p].state = "ELECTED", wp[q].state = "ELECTED", wp[p].term = wp[q].term
  PROVE  p = q
PROOF
  <1>1. <<p, wp[p].term>> \in won /\ <<q, wp[q].term>> \in won
    BY DEF WinnersHaveWon
  <1>2. <<p, wp[p].term>>[2] = <<q, wp[q].term>>[2]
    OBVIOUS
  <1>3. <<p, wp[p].term>> = <<q, wp[q].term>>
    BY <1>1, <1>2 DEF ElectionSafety
  <1> QED BY <1>3

\* A vote that is not fatal for an elected walproposer is of its term.
LEMMA VoteOfTerm ==
  ASSUME HistoryInv, NEW p \in Proposers, NEW s \in Safekeepers, NEW m \in ToSet(toWp[p][s]),
         m.type = "Vote", ~VoteFatal(p, m)
  PROVE  m.term = wp[p].term /\ HighestTerm(m.hist) <= wp[p].term /\ IsKnown(m.hist)
PROOF
  <1>0. TypeOK /\ VotesAreSound
    BY DEF HistoryInv, ElectionInv
  <1>1. VoteIsSound(wp[p], m)
    BY <1>0 DEF VotesAreSound
  <1>2. m.term \in Int /\ wp[p].term \in Int
    <2>1. m \in ToProposer
      BY <1>0, AnsweringType
    <2>2. m.term \in Terms
      BY <2>1 DEF ToProposer
    <2> QED BY <1>0, <2>2, TermTypes, TermsAreInts
  <1>3. m.term = wp[p].term
    <2>1. CASE m.given
      BY <1>1, <2>1 DEF VoteIsSound
    <2>2. CASE ~m.given
      BY <1>1, <1>2, <2>2 DEF VoteIsSound, VoteFatal
    <2> QED BY <2>1, <2>2
  <1>4. IsKnown(m.hist)
    BY DEF IsKnown
  <1> QED BY <1>1, <1>3, <1>4 DEF VoteIsSound

\* Numbers in the records of an elected walproposer.
LEMMA LeaderNumbers ==
  ASSUME TypeOK, NEW p \in Proposers, NEW s \in Safekeepers, wp[p].state = "ELECTED"
  PROVE  /\ wp[p].start \in Lsns /\ wp[p].avail \in Lsns /\ wp[p].start \in Int /\ wp[p].avail \in Int
         /\ wp[p].term \in Terms /\ wp[p].term \in Int
         /\ sks[p][s].streamingAt \in Int /\ HighestTerm(wp[p].hist) = wp[p].term
         /\ StartLsn <= wp[p].start
PROOF
  <1>1. wp[p] \in ProposerRecords /\ ProposerPhase(wp[p]) /\ sks[p][s] \in SafekeeperRecords
    BY Parts, OneRecord
  <1>2. /\ wp[p].start \in Lsns /\ wp[p].avail \in Lsns /\ wp[p].term \in Terms
        /\ wp[p].hist # <<>> /\ Last(wp[p].hist).term = wp[p].term
        /\ sks[p][s].streamingAt \in OptLsns
    BY <1>1 DEF ProposerPhase, ProposerRecords, SafekeeperRecords, OptLsns
  <1> QED BY <1>2, LsnRange, OptRanges, TermsAreInts DEF HighestTerm

\* Where an elected walproposer streams from when a late vote comes.
LEMMA JoinsWithin ==
  ASSUME WalInv, WithinAvail, NEW p \in Proposers, NEW s \in Safekeepers, wp[p].state = "ELECTED",
         NEW m \in ToSet(toWp[p][s]), m.type = "Vote", ~VoteFatal(p, m)
  PROVE  StreamsFrom(wp[p], m) <= wp[p].avail
PROOF
  <1>0. TypeOK /\ HistoryInv /\ KnownAreSound /\ DonorsStand
    BY DEF WalInv, AckInv, HistoryInv, ElectionInv
  <1>1. m.term = wp[p].term /\ HighestTerm(m.hist) <= wp[p].term /\ IsKnown(m.hist)
    BY <1>0, VoteOfTerm
  <1>2. IsKnown(wp[p].hist)
    BY DEF IsKnown
  <1>3. WellFormed(m.hist) /\ WellFormed(wp[p].hist)
    BY <1>0, <1>1, <1>2 DEF KnownAreSound
  <1>4. /\ wp[p].start \in Int /\ wp[p].avail \in Int /\ HighestTerm(wp[p].hist) = wp[p].term
    BY <1>0, LeaderNumbers
  <1>5. m.flush \in Lsns
    <2>1. m \in ToProposer
      BY <1>0, AnsweringType
    <2> QED BY <2>1 DEF ToProposer
  <1>6. wp[p].start <= wp[p].avail /\ Last(wp[p].hist).lsn = wp[p].start
    BY <1>0 DEF WithinAvail, DonorsStand, DonorStands
  <1>7. HighestTerm(m.hist) = wp[p].term => m.flush <= wp[p].avail
    BY <1>1 DEF WithinAvail, StreamsWithin
  <1> DEFINE x == StreamsFrom(wp[p], m)
  <1>8. \/ x \in Lsns /\ x <= Last(wp[p].hist).lsn
        \/ HighestTerm(m.hist) = wp[p].term /\ x = m.flush
    BY <1>1, <1>3, <1>4, <1>5, StreamingBound DEF StreamsFrom
  <1> HIDE DEF x
  <1>9. CASE x \in Lsns /\ x <= Last(wp[p].hist).lsn
    <2>1. x \in Int
      BY <1>9, Ranges
    <2>2. x <= wp[p].avail
      BY <1>4, <1>6, <1>9, <2>1
    <2> QED BY <2>2 DEF x
  <1>10. CASE HighestTerm(m.hist) = wp[p].term /\ x = m.flush
    BY <1>7, <1>10 DEF x
  <1> QED BY <1>8, <1>9, <1>10

\* An elected walproposer goes on.
LEMMA LeaderStreamsWithin ==
  ASSUME WalInv, WithinAvail, HistoryInv', Step, NEW p \in Proposers, NEW s \in Safekeepers,
         wp[p].state = "ELECTED", wp'[p].state = "ELECTED"
  PROVE  /\ wp'[p].avail >= wp[p].avail
         /\ sks'[p][s].state = "ACTIVE" => sks'[p][s].streamingAt <= wp'[p].avail
PROOF
  <1>0. TypeOK /\ TypeOK' /\ HistoryInv
    BY DEF WalInv, AckInv, HistoryInv, ElectionInv
  <1>1. Leads(p) /\ SafekeeperRecordMove(p, s)
    BY <1>0, LeadersMove
  <1>2. wp'[p].avail >= wp[p].avail
    BY <1>1 DEF Leads
  <1>3. wp[p].avail \in Int /\ sks[p][s].streamingAt \in Int
    BY <1>0, LeaderNumbers
  <1>4. wp'[p].avail \in Int /\ sks'[p][s].streamingAt \in Int
    <2>1. wp'[p] \in ProposerRecords /\ sks'[p][s] \in SafekeeperRecords
      BY <1>0, PartsNext DEF WalProposerOK, WalProposerTypeOK
    <2>2. wp'[p].avail \in OptLsns /\ sks'[p][s].streamingAt \in OptLsns
      BY <2>1 DEF ProposerRecords, SafekeeperRecords
    <2> QED BY <2>2, OptRanges
  <1>5. ASSUME sks'[p][s].state = "ACTIVE" PROVE sks'[p][s].streamingAt <= wp[p].avail
    <2>1. CASE sks[p][s].state = "ACTIVE" /\ sks'[p][s].streamingAt = sks[p][s].streamingAt
      BY <2>1 DEF WithinAvail, StreamsWithin
    <2>2. CASE sks'[p][s].streamingAt = SendEnd(p, s)
      BY <1>3, <2>2, MaxSendSizeAssumption DEF SendEnd, Lower
    <2>3. ASSUME NEW m \in ToSet(toWp[p][s]), m.type = "Vote", ~VoteFatal(p, m),
                 sks'[p][s].streamingAt = StreamsFrom(wp[p], m)
          PROVE  sks'[p][s].streamingAt <= wp[p].avail
      BY <2>3, JoinsWithin
    <2> QED BY <1>1, <1>5, <2>1, <2>2, <2>3 DEF SafekeeperRecordMove
  <1> QED BY <1>2, <1>3, <1>4, <1>5

\* Everything in the term of an elected walproposer stays within its WAL.
LEMMA LeaderWithin ==
  ASSUME WalInv, WithinAvail, HistoryInv', Step, NEW p \in Proposers,
         wp[p].state = "ELECTED", wp'[p].state = "ELECTED",
         NEW t, t = wp'[p].term, NEW a, a = wp'[p].avail
  PROVE  Within(t, a)'
PROOF
  <1>0. /\ TypeOK /\ TypeOK' /\ HistoryInv /\ AckInv /\ Moves /\ WinnersHaveWon /\ WinnersHaveWon'
        /\ ElectionSafety /\ ElectionSafety'
    BY DEF WalInv, AckInv, HistoryInv, ElectionInv, Step, QuietMove, WinMove
  <1>1. CASE Safekeepers = {}
    BY <1>1 DEF Within
  <1>2. ASSUME NEW x \in Safekeepers
        PROVE  /\ t = wp[p].term /\ a >= wp[p].avail /\ wp[p].avail \in Int /\ a \in Int
               /\ Within(t, wp[p].avail)
    <2>1. t = wp[p].term
      BY <1>0, LeadersMove DEF Leads, Exits
    <2>2. a >= wp[p].avail
      BY <1>2, LeaderStreamsWithin
    <2>3. wp[p].avail \in Int
      BY <1>0, <1>2, LeaderNumbers
    <2>4. a \in Int
      <3>1. wp'[p] \in ProposerRecords
        BY <1>0, PartsNext DEF WalProposerOK, WalProposerTypeOK
      <3>2. wp'[p].avail \in OptLsns
        BY <3>1 DEF ProposerRecords
      <3> QED BY <3>2, OptRanges
    <2> QED BY <2>1, <2>2, <2>3, <2>4 DEF WithinAvail
  <1>3. ASSUME NEW s \in Safekeepers, HighestTerm(cf'[s].hist) = t
        PROVE  WriteLsn(s)' <= a
    <2>1. WriteLsn(s)' <= wp[p].avail
      BY <1>0, <1>2, <1>3, FilesWithin
    <2>2. WriteLsn(s)' \in Int
      <3>1. wal'[s] \in Seq(Terms)
        BY <1>0, PartsNext DEF SafekeeperTypeOK
      <3>2. Len(wal'[s]) \in Nat
        BY <3>1, SeqFacts
      <3> QED BY <3>2, Ranges DEF WriteLsn
    <2> QED BY <1>2, <2>1, <2>2
  <1>4. ASSUME NEW k \in Kinds, NEW q \in Proposers, NEW s \in Safekeepers,
               NEW m \in ToSet(conn'[k][q][s].queue), m.term = t
        PROVE  /\ m.type = "ProposerElected" => m.start <= a
               /\ m.type = "AppendRequest" => m.begin + Len(m.wal) <= a
    <2>1. ASSUME NEW j \in Kinds, m \in ToSet(conn[j][q][s].queue)
          PROVE  /\ m.type = "ProposerElected" => m.start <= a
                 /\ m.type = "AppendRequest" => m.begin + Len(m.wal) <= a
      <3>1. /\ m.type = "ProposerElected" => m.start <= wp[p].avail
            /\ m.type = "AppendRequest" => m.begin + Len(m.wal) <= wp[p].avail
        BY <1>2, <1>4, <2>1 DEF Within
      <3>2. m \in ToSafekeeper
        BY <1>0, <2>1, QueuedType
      <3>3. m.type = "ProposerElected" => m.start \in Int
        BY <3>2, MessageFacts, LsnRange
      <3>4. m.type = "AppendRequest" => m.begin + Len(m.wal) \in Int
        <4> SUFFICES ASSUME m.type = "AppendRequest" PROVE m.begin + Len(m.wal) \in Int
          OBVIOUS
        <4>1. m.begin \in Lsns /\ m.wal \in Seq(Terms)
          BY <3>2, MessageFacts
        <4>2. m.begin \in Int /\ Len(m.wal) \in Nat
          BY <4>1, LsnRange, SeqFacts
        <4> QED BY <4>2
      <3> QED BY <1>2, <3>1, <3>3, <3>4
    <2>2. ASSUME NewMessage(q, s, m), m.type = "ProposerElected"
          PROVE  m.start <= a
      <3>1. wp'[q].state = "ELECTED" /\ m.term = wp'[q].term
        BY <1>0, <2>2, SentMessages
      <3>2. q = p
        <4>1. <<p, t>> \in won' /\ <<q, t>> \in won'
          BY <1>0, <1>4, <3>1 DEF WinnersHaveWon
        <4>2. <<p, t>>[2] = <<q, t>>[2]
          OBVIOUS
        <4>3. <<p, t>> = <<q, t>>
          BY <1>0, <4>1, <4>2 DEF ElectionSafety
        <4> QED BY <4>3
      <3>3. m = ProposerElected(wp'[p], sks'[p][s]) /\ sks'[p][s].state = "ACTIVE"
        BY <2>2, <3>2 DEF NewMessage, VoteRequest, NewAppend
      <3>4. m.start = sks'[p][s].streamingAt
        BY <3>3 DEF ProposerElected
      <3> QED BY <3>3, <3>4, LeaderStreamsWithin
    <2>3. ASSUME NewMessage(q, s, m), m.type = "AppendRequest"
          PROVE  m.begin + Len(m.wal) <= a
      <3>1. NewAppend(q, s, m) /\ wp[q].state = "ELECTED" /\ m.term = wp[q].term
            /\ sks[q][s].state = "ACTIVE"
        BY <1>0, <2>3, SentMessages
      <3>2. q = p
        BY <1>0, <1>2, <1>4, <3>1, OneLeader
      <3>3. sks[p][s].streamingAt <= wp[p].avail
        BY <3>1, <3>2 DEF WithinAvail, StreamsWithin
      <3>4. m.begin + Len(m.wal) <= wp[p].avail
        BY <1>0, <3>1, <3>2, <3>3, SentWithin
      <3>5. m.begin + Len(m.wal) \in Int
        <4>1. m.begin = sks[p][s].streamingAt /\ sks[p][s].streamingAt \in Int
          BY <1>0, <3>1, <3>2, LeaderNumbers DEF NewAppend
        <4>2. m \in ToSafekeeper
          <5>1. conn'[k][q][s].queue \in Seq(ToSafekeeper)
            BY <1>0, PartsNext DEF ConnOK, Connections
          <5> QED BY <1>4, <5>1, RangeFacts
        <4>3. m.wal \in Seq(Terms)
          BY <2>3, <4>2, MessageFacts
        <4>4. Len(m.wal) \in Nat
          BY <4>3, SeqFacts
        <4> QED BY <4>1, <4>4
      <3> QED BY <1>2, <3>4, <3>5
    <2> QED BY <1>0, <1>4, <2>1, <2>2, <2>3, QueueMoves DEF Kinds
  <1> QED BY <1>1, <1>3, <1>4 DEF Within

\* ... and the votes that may come late.
LEMMA LeaderVotesWithin ==
  ASSUME WalInv, WithinAvail, HistoryInv', Step, NEW p \in Proposers, NEW s \in Safekeepers,
         wp[p].state = "ELECTED", wp'[p].state = "ELECTED",
         NEW m \in ToSet(toWp'[p][s]), m.type = "Vote", m.term = wp'[p].term,
         HighestTerm(m.hist) = wp'[p].term
  PROVE  m.flush <= wp'[p].avail
PROOF
  <1>0. TypeOK /\ TypeOK' /\ HistoryInv /\ Moves
    BY DEF WalInv, AckInv, HistoryInv, ElectionInv, Step, QuietMove, WinMove
  <1>1. wp'[p].term = wp[p].term
    BY <1>0, LeadersMove DEF Leads, Exits
  <1>2. wp'[p].avail >= wp[p].avail
    BY LeaderStreamsWithin
  <1>3. wp[p].avail \in Int /\ wp'[p].avail \in Int
    <2>1. wp[p].avail \in Int
      BY <1>0, LeaderNumbers
    <2>2. wp'[p] \in ProposerRecords
      BY <1>0, PartsNext DEF WalProposerOK, WalProposerTypeOK
    <2>3. wp'[p].avail \in OptLsns
      BY <2>2 DEF ProposerRecords
    <2> QED BY <2>1, <2>3, OptRanges
  <1>4. CASE m \in ToSet(toWp[p][s])
    <2>1. m.flush <= wp[p].avail
      BY <1>1, <1>4 DEF WithinAvail, StreamsWithin
    <2>2. m \in ToProposer
      BY <1>0, <1>4, AnsweringType
    <2>3. m.flush \in Lsns
      BY <2>2 DEF ToProposer
    <2>4. m.flush \in Int
      BY <2>3, Ranges
    <2> QED BY <1>2, <1>3, <2>1, <2>4
  <1>5. CASE m \notin ToSet(toWp[p][s])
    <2> DEFINE h == cf[s].hist
    <2>1. m.hist = UpTo(h, m.flush) /\ m.flush = WriteLsn(s) /\ m.term = cf'[s].term
      BY <1>0, <1>5, VoteCame
    <2>2. /\ cf[s].term \in Int /\ cf'[s].term \in Int /\ cf'[s].term >= cf[s].term
          /\ WellFormed(h) /\ HighestTerm(h) \in Int /\ HighestTerm(h) <= cf[s].term
      BY <1>0, FileTermsNow
    <2>3. WriteLsn(s) \in Int /\ StartLsn <= WriteLsn(s)
      <3>1. WriteLsn(s) \in Lsns
        BY <1>0, Parts, SafekeeperFacts
      <3> QED BY <3>1, LsnRange
    <2> HIDE DEF h
    <2>4. HighestTerm(m.hist) <= HighestTerm(h)
      BY <2>1, <2>2, <2>3, FlushedPart
    <2>5. HighestTerm(h) = wp[p].term
      BY <1>1, <2>1, <2>2, <2>4
    <2>6. WriteLsn(s) <= wp[p].avail
      BY <2>5 DEF WithinAvail, Within, h
    <2> QED BY <1>2, <1>3, <2>1, <2>3, <2>6
  <1> QED BY <1>4, <1>5

\* Nobody has or sends anything in the term of a winner yet.
LEMMA NothingOfTerm ==
  ASSUME HistoryInv, ElectionInv', NEW p \in Proposers, NEW s \in Safekeepers,
         NEW d \in Safekeepers, Wins(p, s, d)
  PROVE  /\ \A h : IsKnown(h) => HighestTerm(h) # wp[p].term
         /\ \A k \in Kinds, q \in Proposers, x \in Safekeepers : \A m \in ToSet(conn[k][q][x].queue) :
              m.type # "VoteRequest" => m.term # wp[p].term
         /\ \A q \in Proposers : wp[q].state = "ELECTED" => wp[q].term # wp[p].term
PROOF
  <1>0. TypeOK /\ KnownAreSound /\ MessagesAreWinners /\ WinnersHaveWon
    BY DEF HistoryInv, ElectionInv
  <1>1. /\ ~Won(wp[p].term)
        /\ \A g : IsKnown(g) => \A i \in 1..Len(g) : g[i].term # wp[p].term
    BY FreshTerm
  <1>2. ASSUME NEW h, IsKnown(h) PROVE HighestTerm(h) # wp[p].term
    <2>1. WellFormed(h)
      BY <1>0, <1>2 DEF KnownAreSound
    <2>2. Len(h) \in 1..Len(h) /\ HighestTerm(h) = h[Len(h)].term
      BY <2>1, WellFormedFacts
    <2> QED BY <1>1, <1>2, <2>2
  <1>3. ASSUME NEW k \in Kinds, NEW q \in Proposers, NEW x \in Safekeepers,
               NEW m \in ToSet(conn[k][q][x].queue), m.type # "VoteRequest"
        PROVE  m.term # wp[p].term
    <2>1. m \in ToSafekeeper
      BY <1>0, QueuedType
    <2>2. m.type = "ProposerElected" \/ m.type = "AppendRequest"
      BY <1>3, <2>1 DEF ToSafekeeper
    <2>3. CASE m.type = "ProposerElected"
      <3>1. m.term = HighestTerm(m.hist) /\ IsKnown(m.hist)
        BY <1>0, <2>3 DEF MessagesAreWinners, IsKnown
      <3> QED BY <1>2, <3>1
    <2>4. CASE m.type = "AppendRequest"
      BY <1>0, <1>1, <2>4 DEF MessagesAreWinners
    <2> QED BY <2>2, <2>3, <2>4
  <1>4. ASSUME NEW q \in Proposers, wp[q].state = "ELECTED" PROVE wp[q].term # wp[p].term
    BY <1>0, <1>1, <1>4 DEF WinnersHaveWon, Won
  <1> QED BY <1>2, <1>3, <1>4

\* Where a winner starts to stream from.
LEMMA WinnerStreamsWithin ==
  ASSUME WalInv, HistoryInv', Step, NEW p \in Proposers, NEW s \in Safekeepers,
         NEW d \in Safekeepers, Wins(p, s, d), NEW x \in Safekeepers, sks'[p][x].state = "ACTIVE"
  PROVE  sks'[p][x].streamingAt <= wp'[p].avail
PROOF
  <1>0. TypeOK /\ HistoryInv /\ KnownAreSound /\ ElectionInv'
    BY DEF WalInv, AckInv, HistoryInv, ElectionInv
  <1> DEFINE v == VoteWith(p, s, Answer(p, s), d)
             w == VoteWith(p, s, Answer(p, s), x)
             h == wp'[p].hist
             t == wp[p].term
  <1>1. /\ wp'[p].term = t /\ wp'[p].avail = v.flush
    BY <1>0, WinnersTerm
  <1>2. /\ WellFormed(h) /\ HighestTerm(h) = t
        /\ h[Len(h)] = [term |-> t, lsn |-> v.flush]
    BY <1>0, WinnersHistory
  <1>3. sks[p][x] \in SafekeeperRecords /\ SafekeeperPhase(wp[p], sks[p][x]) /\ wp[p].state = "CAMPAIGN"
    BY <1>0, Parts, OneRecord DEF Wins
  <1>4. wp'[p] = ElectedProposer(p, s, Answer(p, s), d)
    BY DEF Wins
  <1>5. x = s \/ sks[p][x].state = "WAIT_ELECTED"
    BY <1>3 DEF Wins, SafekeeperPhase
  <1>6. sks'[p][x] = Streaming(wp'[p], sks[p][x], w)
    BY <1>4, <1>5 DEF Wins
  <1>7. sks'[p][x].streamingAt = StartStreamingAt(h, t, w.hist, w.flush)
    BY <1>1, <1>3, <1>6 DEF Streaming, SafekeeperRecords
  <1>8. IsKnown(w.hist) /\ HighestTerm(w.hist) < t /\ w.flush \in Lsns
    BY <1>0, <1>5, WinnersVote
  <1>9. WellFormed(w.hist)
    BY <1>0, <1>8 DEF KnownAreSound
  <1> HIDE DEF w, h, v, t
  <1>10. HighestTerm(w.hist) \in Int /\ t \in Int /\ Last(h).lsn = v.flush
    <2>1. Last(h) = h[Len(h)]
      BY <1>2, WellFormedFacts
    <2>2. HighestTerm(w.hist) \in Int /\ HighestTerm(h) \in Int
      BY <1>2, <1>9, HistoryTerm
    <2> QED BY <1>2, <2>1, <2>2
  <1>11. HighestTerm(w.hist) <= HighestTerm(h) /\ HighestTerm(w.hist) # HighestTerm(h)
    BY <1>2, <1>8, <1>10
  <1>12. StartStreamingAt(h, t, w.hist, w.flush) <= Last(h).lsn
    BY <1>2, <1>8, <1>9, <1>11, StreamingBound
  <1> QED BY <1>1, <1>7, <1>10, <1>12

\* A new walproposer is within its WAL.
LEMMA WinnerWithin ==
  ASSUME WalInv, HistoryInv', Step, NEW p \in Proposers, NEW s \in Safekeepers,
         NEW d \in Safekeepers, Wins(p, s, d), NEW t, t = wp'[p].term, NEW a, a = wp'[p].avail
  PROVE  Within(t, a)'
PROOF
  <1>0. /\ TypeOK /\ TypeOK' /\ HistoryInv /\ Moves /\ ElectionInv'
        /\ WinnersHaveWon' /\ ElectionSafety'
    BY DEF WalInv, AckInv, HistoryInv, ElectionInv, Step, QuietMove, WinMove
  <1>1. t = wp[p].term /\ wp'[p].state = "ELECTED"
    BY <1>0, WinnersTerm
  <1>2. /\ \A h : IsKnown(h) => HighestTerm(h) # t
        /\ \A k \in Kinds, q \in Proposers, x \in Safekeepers : \A m \in ToSet(conn[k][q][x].queue) :
             m.type # "VoteRequest" => m.term # t
        /\ \A q \in Proposers : wp[q].state = "ELECTED" => wp[q].term # t
    BY <1>0, <1>1, NothingOfTerm
  <1>3. \A x \in Safekeepers : HighestTerm(cf'[x].hist) # t
    <2>1. \A x \in Safekeepers : cf'[x] = cf[x] /\ IsKnown(cf[x].hist)
      BY DEF Wins, skVars, IsKnown
    <2> QED BY <1>2, <2>1
  <1>4. ASSUME NEW k \in Kinds, NEW q \in Proposers, NEW x \in Safekeepers,
               NEW m \in ToSet(conn'[k][q][x].queue), m.term = t,
               m.type \in {"ProposerElected", "AppendRequest"}
        PROVE  m.type = "ProposerElected" /\ m.start <= a
    <2>1. NewMessage(q, x, m)
      BY <1>0, <1>2, <1>4, QueueMoves DEF Kinds
    <2>2. m.type # "AppendRequest"
      BY <1>0, <1>2, <1>4, <2>1, SentMessages
    <2>3. m.type = "ProposerElected" /\ wp'[q].state = "ELECTED" /\ m.term = wp'[q].term
      BY <1>0, <1>4, <2>1, <2>2, SentMessages
    <2>4. q = p
      <3>1. <<p, t>> \in won' /\ <<q, t>> \in won'
        BY <1>0, <1>1, <1>4, <2>3 DEF WinnersHaveWon
      <3>2. <<p, t>>[2] = <<q, t>>[2]
        OBVIOUS
      <3>3. <<p, t>> = <<q, t>>
        BY <1>0, <3>1, <3>2 DEF ElectionSafety
      <3> QED BY <3>3
    <2>5. m = ProposerElected(wp'[p], sks'[p][x]) /\ sks'[p][x].state = "ACTIVE"
      BY <2>1, <2>3, <2>4 DEF NewMessage, VoteRequest, NewAppend
    <2>6. m.start = sks'[p][x].streamingAt
      BY <2>5 DEF ProposerElected
    <2> QED BY <2>3, <2>5, <2>6, WinnerStreamsWithin
  <1> QED BY <1>3, <1>4 DEF Within

\* Votes that come late to a winner have no WAL of its term.
LEMMA WinnerVotesWithin ==
  ASSUME HistoryInv, ElectionInv', Step, NEW p \in Proposers, NEW s \in Safekeepers,
         NEW d \in Safekeepers, Wins(p, s, d), NEW x \in Safekeepers,
         NEW m \in ToSet(toWp'[p][x]), m.type = "Vote"
  PROVE  HighestTerm(m.hist) # wp'[p].term
PROOF
  <1>0. TypeOK /\ Moves /\ KnownAreSound
    BY DEF HistoryInv, ElectionInv, Step, QuietMove, WinMove
  <1>1. wp'[p].term = wp[p].term
    BY <1>0, WinnersTerm
  <1>2. /\ \A h : IsKnown(h) => HighestTerm(h) # wp[p].term
        /\ \A g : IsKnown(g) => \A i \in 1..Len(g) : g[i].term # wp[p].term
    BY NothingOfTerm, FreshTerm
  <1>3. CASE m \in ToSet(toWp[p][x])
    <2>1. IsKnown(m.hist)
      BY <1>3 DEF IsKnown
    <2> QED BY <1>1, <1>2, <2>1
  <1>4. CASE m \notin ToSet(toWp[p][x])
    <2> DEFINE h == cf[x].hist
    <2>1. m.hist = UpTo(h, m.flush) /\ m.flush = WriteLsn(x)
      BY <1>0, <1>4, VoteCame
    <2>2. IsKnown(h) /\ WellFormed(h)
      BY <1>0 DEF KnownAreSound, IsKnown
    <2>3. m.flush \in Int /\ StartLsn <= m.flush
      <3>1. WriteLsn(x) \in Lsns
        BY <1>0, Parts, SafekeeperFacts
      <3> QED BY <2>1, <3>1, LsnRange
    <2> HIDE DEF h
    <2>4. PICK k \in 1..Len(h) : m.hist = SubSeq(h, 1, k)
      BY <2>1, <2>2, <2>3, FlushedPart
    <2>5. Len(SubSeq(h, 1, k)) = k /\ SubSeq(h, 1, k)[k] = h[k] /\ WellFormed(SubSeq(h, 1, k))
      <3>1. h \in Seq(TermSwitches) /\ k \in 0..Len(h) /\ k \in 1..k
        BY <2>2, <2>4, WellFormedFacts
      <3> QED BY <2>2, <2>4, <3>1, CutFacts, WellFormedCut
    <2>6. HighestTerm(m.hist) = h[k].term
      BY <2>4, <2>5, WellFormedFacts
    <2> QED BY <1>1, <1>2, <2>2, <2>6
  <1> QED BY <1>3, <1>4

\* Every step keeps the WAL of a term within that of its walproposer.
LEMMA WithinStep ==
  ASSUME WalInv, WithinAvail, HistoryInv', Step
  PROVE  WithinAvail'
PROOF
  <1>0. TypeOK /\ TypeOK' /\ HistoryInv /\ ElectionInv'
    BY DEF WalInv, AckInv, HistoryInv, ElectionInv
  <1> SUFFICES ASSUME NEW p \in Proposers, wp'[p].state = "ELECTED",
                      NEW t, t = wp'[p].term, NEW a, a = wp'[p].avail
               PROVE  /\ wp'[p].start <= a /\ Within(t, a)'
                      /\ \A s \in Safekeepers :
                           StreamsWithin(wp'[p], sks'[p][s], ToSet(toWp'[p][s]))
    BY DEF WithinAvail
  <1>1. CASE wp[p].state = "ELECTED"
    <2>1. Leads(p)
      BY <1>0, <1>1, LeadersMove
    <2>2. wp[p].donor \in Safekeepers
      BY <1>1 DEF WalInv, DonorsStand, DonorStands
    <2>3. /\ wp[p].start <= wp[p].avail /\ wp[p].start \in Int /\ wp[p].avail \in Int
          /\ a >= wp[p].avail /\ wp'[p].start = wp[p].start
      BY <1>0, <1>1, <2>1, <2>2, LeaderNumbers DEF WithinAvail, Leads
    <2>4. a \in Int
      <3>1. wp'[p] \in ProposerRecords
        BY <1>0, PartsNext DEF WalProposerOK, WalProposerTypeOK
      <3>2. wp'[p].avail \in OptLsns
        BY <3>1 DEF ProposerRecords
      <3> QED BY <3>2, OptRanges
    <2>5. wp'[p].start <= a
      BY <2>3, <2>4
    <2>6. Within(t, a)'
      BY <1>1, LeaderWithin
    <2> QED BY <1>1, <2>5, <2>6, LeaderStreamsWithin, LeaderVotesWithin DEF StreamsWithin
  <1>2. ASSUME NEW s \in Safekeepers, NEW d \in Safekeepers, Wins(p, s, d)
        PROVE  /\ wp'[p].start <= a /\ Within(t, a)'
               /\ \A x \in Safekeepers :
                    StreamsWithin(wp'[p], sks'[p][x], ToSet(toWp'[p][x]))
    <2>1. wp'[p].start = a
      BY <1>0, <1>2, WinnersTerm
    <2>2. a \in Int
      <3>1. wp'[p] \in ProposerRecords
        BY <1>0, PartsNext DEF WalProposerOK, WalProposerTypeOK
      <3>2. wp'[p].avail \in OptLsns
        BY <3>1 DEF ProposerRecords
      <3> QED BY <3>2, OptRanges
    <2>3. wp'[p].start <= a
      BY <2>1, <2>2
    <2>4. Within(t, a)'
      BY <1>2, WinnerWithin
    <2> QED BY <1>0, <1>2, <2>3, <2>4, WinnerStreamsWithin, WinnerVotesWithin DEF StreamsWithin
  <1> QED BY <1>0, <1>1, <1>2, ElectedMoves

WithinInv == WalInv /\ WithinAvail

\* Nobody is elected at first, ...
LEMMA WithinInit == Init => WithinInv
PROOF
  <1> SUFFICES ASSUME Init PROVE WithinInv
    OBVIOUS
  <1>1. \A p \in Proposers : wp[p].state # "ELECTED"
    BY DEF Init, WalProposerInit, NewProposer
  <1> QED BY <1>1, WalInit DEF WithinInv, WithinAvail

\* ... and every step keeps the invariant.
LEMMA WithinNext ==
  ASSUME QuorumsIntersect, WithinInv, [Next]_vars
  PROVE  WithinInv' /\ Step
PROOF
  <1>1. WalInv' /\ HistoryInv' /\ Step
    BY WalNext, HistoryNext DEF WithinInv, WalInv, AckInv
  <1> QED BY <1>1, WithinStep DEF WithinInv

\* The assertions in walproposer.c hold: a vote that is not fatal is of the term of
\* the walproposer that gets it, and streaming starts and goes on within the WAL it
\* has, whichever late votes, announcements and WAL of its term there are.
THEOREM AssertionsHold == QuorumsIntersect => (Spec => []ProposerAssertions)
PROOF
  <1> SUFFICES ASSUME QuorumsIntersect PROVE Spec => []ProposerAssertions
    OBVIOUS
  <1>1. Init => WithinInv
    BY WithinInit
  <1>2. WithinInv /\ [Next]_vars => WithinInv'
    BY WithinNext
  <1>3. WithinInv => ProposerAssertions
    <2> SUFFICES ASSUME WithinInv, NEW p \in Proposers, NEW s \in Safekeepers
                 PROVE  /\ FirstAnswer(p, s, "Vote") /\ ~VoteFatal(p, Answer(p, s)) =>
                             Answer(p, s).term = wp[p].term
                        /\ sks[p][s].state = "ACTIVE" => sks[p][s].streamingAt <= wp[p].avail
      BY DEF ProposerAssertions
    <2>0. TypeOK /\ HistoryInv
      BY DEF WithinInv, WalInv, AckInv, HistoryInv, ElectionInv
    <2>1. ASSUME FirstAnswer(p, s, "Vote"), ~VoteFatal(p, Answer(p, s))
          PROVE  Answer(p, s).term = wp[p].term
      <3>1. Answer(p, s) \in ToSet(toWp[p][s]) /\ Answer(p, s).type = "Vote"
        BY <2>0, <2>1, Parts, AnswerCame DEF FirstAnswer, Answer
      <3> QED BY <2>0, <2>1, <3>1, VoteOfTerm
    <2>2. ASSUME sks[p][s].state = "ACTIVE" PROVE sks[p][s].streamingAt <= wp[p].avail
      <3>1. wp[p].state = "ELECTED"
        BY <2>0, <2>2, Parts, OneRecord DEF SafekeeperPhase
      <3> QED BY <2>2, <3>1 DEF WithinInv, WithinAvail, StreamsWithin
    <2> QED BY <2>1, <2>2
  <1> QED BY <1>1, <1>2, <1>3, PTL DEF Spec

=============================================================================
