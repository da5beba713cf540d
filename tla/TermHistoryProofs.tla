------------------------- MODULE TermHistoryProofs --------------------------
(***************************************************************************)
(* What the operators on term histories return, for all histories and all  *)
(* LSNs.  Facts about every prefix or every LSN are proved through the     *)
(* greatest element of a set (SetHasMax), which takes the place of         *)
(* induction.                                                              *)
(***************************************************************************)
EXTENDS TermHistory, FiniteSetTheorems, SequenceTheorems, TLAPS

-----------------------------------------------------------------------------
(* Greatest and least elements *)

\* A nonempty finite set of integers has a greatest element.
LEMMA SetHasMax ==
  ASSUME NEW T, IsFiniteSet(T), T \subseteq Int, T # {}
  PROVE  \E x \in T : \A y \in T : x >= y
PROOF
  <1> DEFINE Above(x) == {y \in T : y > x}
             R == StrictSubsetOrdering(T)
             A == {Above(x) : x \in T}
  <1>1. IsWellFoundedOn(R, SUBSET T)
    BY FS_StrictSubsetOrderingWellFounded, FS_FiniteSubsetsOfFinite
  <1>2. A \subseteq SUBSET T /\ A # {}
    OBVIOUS
  <1> HIDE DEF R
  <1>3. PICK a \in A : \A b \in A : ~(<<b, a>> \in R)
    BY <1>1, <1>2, WFMin
  <1>4. PICK x \in T : a = Above(x)
    BY <1>3
  <1>5. ASSUME NEW y \in T, y > x
        PROVE  FALSE
    <2>0. x \in Int /\ y \in Int /\ ~(y > y)
      OBVIOUS
    <2>1. \A z \in T : z > y => z > x
      BY <1>5, <2>0
    <2>2. Above(y) \subseteq Above(x) /\ y \in Above(x) /\ y \notin Above(y)
      BY <1>5, <2>0, <2>1, Zenon
    <2>3. <<Above(y), a>> \in R
      BY <2>2, <1>4 DEF R, StrictSubsetOrdering
    <2> QED BY <2>3, <1>3
  <1> QED BY <1>5

\* ... and a least one.
LEMMA SetHasMin ==
  ASSUME NEW T, IsFiniteSet(T), T \subseteq Int, T # {}
  PROVE  \E x \in T : \A y \in T : x <= y
PROOF
  <1> DEFINE Below(x) == {y \in T : y < x}
             R == StrictSubsetOrdering(T)
             A == {Below(x) : x \in T}
  <1>1. IsWellFoundedOn(R, SUBSET T)
    BY FS_StrictSubsetOrderingWellFounded, FS_FiniteSubsetsOfFinite
  <1>2. A \subseteq SUBSET T /\ A # {}
    OBVIOUS
  <1> HIDE DEF R
  <1>3. PICK a \in A : \A b \in A : ~(<<b, a>> \in R)
    BY <1>1, <1>2, WFMin
  <1>4. PICK x \in T : a = Below(x)
    BY <1>3
  <1>5. ASSUME NEW y \in T, y < x
        PROVE  FALSE
    <2>0. x \in Int /\ y \in Int /\ ~(y < y)
      OBVIOUS
    <2>1. \A z \in T : z < y => z < x
      BY <1>5, <2>0
    <2>2. Below(y) \subseteq Below(x) /\ y \in Below(x) /\ y \notin Below(y)
      BY <1>5, <2>0, <2>1, Zenon
    <2>3. <<Below(y), a>> \in R
      BY <2>2, <1>4 DEF R, StrictSubsetOrdering
    <2> QED BY <2>3, <1>3
  <1> QED BY <1>5

\* Max and Min of a nonempty finite set of integers.
LEMMA MaxProperties ==
  ASSUME NEW T, IsFiniteSet(T), T \subseteq Int, T # {}
  PROVE  Max(T) \in T /\ \A y \in T : Max(T) >= y
BY SetHasMax DEF Max

\* The minimum of a non-empty set of numbers.
LEMMA MinProperties ==
  ASSUME NEW T, IsFiniteSet(T), T \subseteq Int, T # {}
  PROVE  Min(T) \in T /\ \A y \in T : Min(T) <= y
BY SetHasMin DEF Min

-----------------------------------------------------------------------------
(* Sequences *)

\* Length and entries of a sequence.
LEMMA SeqFacts ==
  ASSUME NEW S, NEW th \in Seq(S)
  PROVE  /\ Len(th) \in Nat
         /\ th # <<>> <=> Len(th) # 0
         /\ \A i \in 1..Len(th) : th[i] \in S
BY EmptySeq, LenProperties, ElementOfSeq

\* Terms and LSNs of a history.
LEMMA HistoryFacts ==
  ASSUME NEW T, NEW L, NEW th \in Seq([term : T, lsn : L])
  PROVE  /\ Len(th) \in Nat
         /\ th # <<>> <=> Len(th) # 0
         /\ \A i \in 1..Len(th) : th[i].term \in T /\ th[i].lsn \in L
PROOF
  <1> DEFINE S == [term : T, lsn : L]
  <1>1. \A x \in S : x.term \in T /\ x.lsn \in L
    OBVIOUS
  <1> HIDE DEF S
  <1>2. th \in Seq(S)
    BY DEF S
  <1> QED BY <1>1, <1>2, SeqFacts

-----------------------------------------------------------------------------
(* UpTo and CommonEntries *)

\* UpTo is the longest prefix of the history that begins within the WAL.
LEMMA UpToProperties ==
  ASSUME NEW S, NEW th \in Seq(S), NEW upTo \in Int,
         \A i \in 1..Len(th) : th[i].lsn \in Int
  PROVE  \E k \in 0..Len(th) :
           /\ UpTo(th, upTo) = SubSeq(th, 1, k)
           /\ \A i \in 1..k : th[i].lsn <= upTo
           /\ k < Len(th) => th[k + 1].lsn > upTo
PROOF
  <1> DEFINE P(k) == /\ \A i \in 1..k : th[i].lsn <= upTo
                     /\ k < Len(th) => th[k + 1].lsn > upTo
             T == {k \in 0..Len(th) : \A i \in 1..k : th[i].lsn <= upTo}
  <1>1. Len(th) \in Nat
    OBVIOUS
  <1>2. IsFiniteSet(T) /\ T \subseteq Int
    <2>1. T \in SUBSET (0..Len(th))
      BY Zenon
    <2>2. IsFiniteSet(0..Len(th)) /\ 0..Len(th) \subseteq Int
      BY <1>1, FS_Interval
    <2> QED BY <2>1, <2>2, FS_Subset
  <1>3. 0 \in T
    BY <1>1
  <1>4. PICK k \in T : \A j \in T : k >= j
    BY <1>2, <1>3, SetHasMax
  <1>5. k < Len(th) => k + 1 \notin T
    BY <1>1, <1>4
  <1>6. P(k)
    BY <1>1, <1>5
  <1>7. \E j \in 0..Len(th) : P(j)
    BY <1>6
  <1>8. (CHOOSE j \in 0..Len(th) : P(j)) \in 0..Len(th) /\ P(CHOOSE j \in 0..Len(th) : P(j))
    BY <1>7
  <1> QED BY <1>8 DEF UpTo

\* CommonEntries counts the entries that agree, up to the first that does not.
LEMMA CommonEntriesProperties ==
  ASSUME NEW S, NEW th1 \in Seq(S), NEW th2 \in Seq(S)
  PROVE  LET k == CommonEntries(th1, th2)
         IN  /\ k \in Nat /\ k <= Len(th1) /\ k <= Len(th2)
             /\ \A i \in 1..k : th1[i].term = th2[i].term
             /\ k < Len(th1) /\ k < Len(th2) => th1[k + 1].term # th2[k + 1].term
PROOF
  <1> DEFINE n == Lower(Len(th1), Len(th2))
             P(k) == /\ \A i \in 1..k : th1[i].term = th2[i].term
                     /\ k < n => th1[k + 1].term # th2[k + 1].term
             T == {k \in 0..n : \A i \in 1..k : th1[i].term = th2[i].term}
  <1>1. Len(th1) \in Nat /\ Len(th2) \in Nat
    OBVIOUS
  <1>2. n \in Nat /\ n <= Len(th1) /\ n <= Len(th2) /\ n \in {Len(th1), Len(th2)}
    BY <1>1 DEF Lower
  <1> HIDE DEF n
  <1>3. IsFiniteSet(T) /\ T \subseteq Int
    <2>1. T \in SUBSET (0..n)
      BY Zenon
    <2>2. IsFiniteSet(0..n) /\ 0..n \subseteq Int
      BY <1>2, FS_Interval
    <2> QED BY <2>1, <2>2, FS_Subset
  <1>4. 0 \in T
    BY <1>2
  <1>5. PICK k \in T : \A j \in T : k >= j
    BY <1>3, <1>4, SetHasMax
  <1>6. P(k)
    BY <1>2, <1>5
  <1>7. \E j \in 0..n : P(j)
    BY <1>6
  <1>8. (CHOOSE j \in 0..n : P(j)) \in 0..n /\ P(CHOOSE j \in 0..n : P(j))
    BY <1>7
  <1>9. CommonEntries(th1, th2) = CHOOSE j \in 0..n : P(j)
    BY DEF CommonEntries, n
  <1> QED BY <1>2, <1>8, <1>9, SMTT(60)

-----------------------------------------------------------------------------
(* Histories whose terms and LSNs come from given sets *)

Histories(T, L) == Seq([term : T, lsn : L])

\* The term of the last entry occurs nowhere else.
LastTermIsNew(th) == \A i \in 1..(Len(th) - 1) : th[i].term # Last(th).term

\* A cut history is a history of the same kind.
LEMMA UpToType ==
  ASSUME NEW T, NEW L \in SUBSET Int, NEW th \in Histories(T, L),
         NEW upTo \in Int
  PROVE  UpTo(th, upTo) \in Histories(T, L)
PROOF
  <1> DEFINE S == [term : T, lsn : L]
  <1>1. Len(th) \in Nat /\ \A i \in 1..Len(th) : th[i] \in S
    BY SeqFacts DEF Histories
  <1>2. \A i \in 1..Len(th) : th[i].lsn \in Int
    BY HistoryFacts DEF Histories
  <1> HIDE DEF S
  <1>3. PICK k \in 0..Len(th) : UpTo(th, upTo) = SubSeq(th, 1, k)
    <2>1. th \in Seq(S)
      BY DEF S, Histories
    <2> QED BY <1>2, <2>1, UpToProperties
  <1>4. \A i \in 1..k : th[i] \in S
    BY <1>1
  <1>5. SubSeq(th, 1, k) \in Seq(S)
    BY <1>1, <1>4, SubSeqProperties
  <1> QED BY <1>3, <1>5 DEF S, Histories

\* The last log term is a term of the history, or 0.
LEMMA LastLogTermType ==
  ASSUME NEW T, 0 \in T, NEW L \in SUBSET Int, NEW th \in Histories(T, L),
         NEW lsn \in Int
  PROVE  LastLogTerm(th, lsn) \in T
PROOF
  <1> DEFINE h == UpTo(th, lsn)
  <1>1. h \in Histories(T, L)
    BY UpToType
  <1> HIDE DEF h
  <1>2. h # <<>> => h[Len(h)].term \in T
    BY <1>1, HistoryFacts DEF Histories
  <1> QED BY <1>2 DEF LastLogTerm, HighestTerm, Last, h

\* Streaming starts at one of the LSNs in the histories, or at the end of WAL.
LEMMA StartStreamingAtType ==
  ASSUME NEW T, NEW L \in SUBSET Int,
         NEW propTh \in Histories(T, L), propTh # <<>>,
         NEW skTh \in Histories(T, L), NEW flush \in L
  PROVE  StartStreamingAt(propTh, Last(propTh).term, skTh, flush) \in L
PROOF
  <1> DEFINE S == [term : T, lsn : L]
             last == CommonEntries(propTh, skTh)
             end == IF last < Len(skTh) THEN skTh[last + 1].lsn ELSE flush
  <1>1. /\ Len(propTh) \in Nat /\ Len(propTh) # 0 /\ Len(skTh) \in Nat
        /\ \A i \in 1..Len(propTh) : propTh[i].lsn \in L
        /\ \A i \in 1..Len(skTh) : skTh[i].lsn \in L
    BY HistoryFacts DEF Histories
  <1>2. last \in Nat /\ last <= Len(propTh) /\ last <= Len(skTh)
    BY CommonEntriesProperties DEF Histories
  <1> HIDE DEF last
  <1>3. end \in L
    BY <1>1, <1>2
  <1>4. last # 0 /\ propTh[last].term # Last(propTh).term => last < Len(propTh)
    BY <1>1, <1>2 DEF Last
  <1>5. last < Len(propTh) => propTh[last + 1].lsn \in L
    BY <1>1, <1>2
  <1>6. last < Len(propTh) => Lower(propTh[last + 1].lsn, end) \in L
    BY <1>3, <1>5 DEF Lower
  <1> HIDE DEF end
  <1>7. propTh[1].lsn \in L
    BY <1>1
  <1>8. StartStreamingAt(propTh, Last(propTh).term, skTh, flush) =
          IF last = 0 THEN propTh[1].lsn
          ELSE IF propTh[last].term = Last(propTh).term THEN flush
          ELSE Lower(propTh[last + 1].lsn, end)
    BY DEF StartStreamingAt, last, end
  <1> QED BY <1>4, <1>6, <1>7, <1>8

\* The C and the Rust computations of the divergence point agree, for every two
\* histories: where SendProposerElected starts streaming is the LSN that
\* handle_elected expects to be told to truncate at, provided the walproposer's
\* own term is the last entry of its history and no other.
THEOREM StreamingMatchesTruncation ==
  ASSUME NEW T, NEW L \in SUBSET (Nat \ {0}),
         NEW propTh \in Histories(T, L), propTh # <<>>,
         NEW skTh \in Histories(T, L), NEW flush \in L,
         LastTermIsNew(propTh)
  PROVE  StartStreamingAt(propTh, Last(propTh).term, skTh, flush)
           = ExpectedTruncation(propTh, skTh, flush)
PROOF
  <1> DEFINE last == CommonEntries(propTh, skTh)
             end == IF last < Len(skTh) THEN skTh[last + 1].lsn ELSE flush
             lcp == FindHighestCommonPoint(propTh, skTh, flush)
  <1>1. /\ Len(propTh) \in Nat /\ Len(propTh) # 0 /\ Len(skTh) \in Nat
        /\ \A i \in 1..Len(propTh) : propTh[i].lsn \in L
        /\ \A i \in 1..Len(skTh) : skTh[i].lsn \in L
    BY HistoryFacts DEF Histories
  <1>2. last \in Nat /\ last <= Len(propTh) /\ last <= Len(skTh)
    BY CommonEntriesProperties DEF Histories
  <1>3. StartStreamingAt(propTh, Last(propTh).term, skTh, flush) =
          IF last = 0 THEN propTh[1].lsn
          ELSE IF propTh[last].term = Last(propTh).term THEN flush
          ELSE Lower(propTh[last + 1].lsn, end)
    BY DEF StartStreamingAt
  <1>4. lcp = IF last = 0 THEN NoPoint
              ELSE [term |-> propTh[last].term,
                    lsn  |-> IF last = Len(propTh) THEN flush
                             ELSE Lower(propTh[last + 1].lsn, end)]
    BY DEF FindHighestCommonPoint
  <1> HIDE DEF last, lcp
  <1>5. end \in L
    BY <1>1, <1>2
  <1>6. last # 0 => (propTh[last].term = Last(propTh).term <=> last = Len(propTh))
    BY <1>1, <1>2 DEF Last, LastTermIsNew
  <1>7. last # 0 /\ last # Len(propTh) => Lower(propTh[last + 1].lsn, end) \in L
    BY <1>1, <1>2, <1>5 DEF Lower
  <1> HIDE DEF end
  <1>8. CASE last = 0
    BY <1>3, <1>4, <1>8 DEF lcp, ExpectedTruncation
  <1>9. CASE last # 0 /\ last = Len(propTh)
    <2>1. lcp = [term |-> propTh[last].term, lsn |-> flush] /\ lcp # NoPoint
      BY <1>1, <1>4, <1>9 DEF NoPoint
    <2> QED BY <1>3, <1>6, <1>9, <2>1 DEF lcp, ExpectedTruncation
  <1>10. CASE last # 0 /\ last # Len(propTh)
    <2>1. lcp.lsn = Lower(propTh[last + 1].lsn, end) /\ lcp # NoPoint
      BY <1>4, <1>7, <1>10 DEF NoPoint
    <2> QED BY <1>3, <1>6, <1>10, <2>1 DEF lcp, ExpectedTruncation
  <1> QED BY <1>8, <1>9, <1>10

=============================================================================
