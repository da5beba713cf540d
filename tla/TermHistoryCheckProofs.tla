----------------------- MODULE TermHistoryCheckProofs -----------------------
(***************************************************************************)
(* The histories that elections produce are well formed, so the two        *)
(* computations of the divergence point agree on all of them, however many *)
(* terms there are and however long the WAL is.                            *)
(***************************************************************************)
EXTENDS TermHistoryCheck, TermHistoryProofs

Switches == [term : Nat, lsn : Lsns]

\* Terms grow strictly along a history, LSNs do not fall.
Ordered(th) ==
  \A i, j \in 1..Len(th) : i < j => th[i].term < th[j].term /\ th[i].lsn <= th[j].lsn

\* The history of the winner of term t begins with the timeline and ends with t.
WellFormed(th, t) ==
  /\ th \in Seq(Switches)
  /\ th # <<>>
  /\ th[1] = [term |-> 0, lsn |-> StartLsn]
  /\ Last(th).term = t
  /\ Ordered(th)

\* The inductive invariant: every winner's history is well formed.
AllWellFormed ==
  /\ history \in Seq(Seq(Switches))
  /\ history # <<>>
  /\ \A t \in 1..Len(history) : WellFormed(history[t], t - 1)

\* LSNs are numbers, and none is Lsn(0).
LEMMA LsnFacts == Lsns \subseteq Int /\ Lsns \subseteq Nat \ {0}
BY BoundsAssumption DEF Lsns

\* A cut history keeps its first entry, its order, and begins within the WAL.
LEMMA CutHistory ==
  ASSUME NEW t, NEW th, WellFormed(th, t), NEW lsn \in Lsns
  PROVE  /\ UpTo(th, lsn) \in Seq(Switches)
         /\ UpTo(th, lsn) # <<>>
         /\ UpTo(th, lsn)[1] = th[1]
         /\ Ordered(UpTo(th, lsn))
         /\ \A i \in 1..Len(UpTo(th, lsn)) :
              UpTo(th, lsn)[i].lsn <= lsn /\ UpTo(th, lsn)[i].term <= t
PROOF
  <1>1. /\ Len(th) \in Nat /\ Len(th) # 0
        /\ \A i \in 1..Len(th) : th[i] \in Switches /\ th[i].term \in Nat /\ th[i].lsn \in Lsns
    BY HistoryFacts, SeqFacts DEF WellFormed, Switches
  <1>2. \A i \in 1..Len(th) : th[i].lsn \in Int
    BY <1>1, LsnFacts
  <1>3. PICK k \in 0..Len(th) :
          /\ UpTo(th, lsn) = SubSeq(th, 1, k)
          /\ \A i \in 1..k : th[i].lsn <= lsn
          /\ k < Len(th) => th[k + 1].lsn > lsn
    <2>1. th \in Seq(Switches) /\ lsn \in Int
      BY LsnFacts DEF WellFormed
    <2> QED BY <1>2, <2>1, UpToProperties
  <1>4. k # 0
    <2>1. th[1].lsn = StartLsn /\ StartLsn <= lsn
      BY BoundsAssumption DEF WellFormed, Lsns
    <2> QED BY <1>1, <1>2, <1>3, <2>1, LsnFacts
  <1> DEFINE h == SubSeq(th, 1, k)
  <1>5. h \in Seq(Switches) /\ Len(h) = k /\ \A i \in 1..k : h[i] = th[i]
    <2>1. \A i \in 1..k : th[i] \in Switches
      BY <1>1
    <2> QED BY <1>1, <1>4, <2>1, SubSeqProperties
  <1>6. \A i \in 1..Len(th) : th[i].term <= t
    BY <1>1 DEF WellFormed, Ordered, Last
  <1> HIDE DEF h
  <1>7. h # <<>> /\ h[1] = th[1]
    BY <1>4, <1>5, SeqFacts
  <1>8. Ordered(h)
    BY <1>1, <1>5 DEF WellFormed, Ordered
  <1>9. \A i \in 1..Len(h) : h[i].lsn <= lsn /\ h[i].term <= t
    BY <1>3, <1>5, <1>6
  <1> QED BY <1>3, <1>5, <1>7, <1>8, <1>9 DEF h

\* What the next winner makes of its donor's history is well formed.
LEMMA NextHistory ==
  ASSUME NEW t \in Nat, NEW th, WellFormed(th, t), NEW lsn \in Lsns,
         NEW n \in Nat, t < n
  PROVE  WellFormed(Append(UpTo(th, lsn), [term |-> n, lsn |-> lsn]), n)
PROOF
  <1> DEFINE h == UpTo(th, lsn)
             e == [term |-> n, lsn |-> lsn]
             a == Append(h, e)
  <1>1. /\ h \in Seq(Switches) /\ h # <<>> /\ h[1] = th[1] /\ Ordered(h)
        /\ \A i \in 1..Len(h) : h[i].lsn <= lsn /\ h[i].term <= t
    BY CutHistory
  <1>2. e \in Switches
    BY DEF Switches
  <1> HIDE DEF h
  <1>3. /\ Len(h) \in Nat /\ Len(h) # 0
        /\ \A i \in 1..Len(h) : h[i].term \in Nat
    BY <1>1, HistoryFacts DEF Switches
  <1>4. e.term = n /\ e.lsn = lsn
    OBVIOUS
  <1> HIDE DEF e
  <1>5. /\ a \in Seq(Switches) /\ a # <<>> /\ Len(a) = Len(h) + 1
        /\ \A i \in 1..Len(h) : a[i] = h[i]
        /\ a[Len(h) + 1] = e
    BY <1>1, <1>2, AppendProperties
  <1> HIDE DEF a
  <1>6. a[1] = th[1] /\ Last(a).term = n
    BY <1>1, <1>3, <1>4, <1>5 DEF Last
  <1>7. Ordered(a)
    <2> SUFFICES ASSUME NEW i \in 1..Len(a), NEW j \in 1..Len(a), i < j
                 PROVE  a[i].term < a[j].term /\ a[i].lsn <= a[j].lsn
      BY DEF Ordered
    <2>1. i \in 1..Len(h) /\ a[i] = h[i]
      BY <1>3, <1>5
    <2>2. CASE j \in 1..Len(h)
      BY <1>1, <1>5, <2>1, <2>2 DEF Ordered
    <2>3. CASE j = Len(h) + 1
      BY <1>1, <1>3, <1>4, <1>5, <2>1, <2>3
    <2> QED BY <1>3, <1>5, <2>2, <2>3
  <1> QED BY <1>5, <1>6, <1>7 DEF WellFormed, a, h, e

\* The first history is well formed.
LEMMA Initially == Init => AllWellFormed
PROOF
  <1> SUFFICES ASSUME Init PROVE AllWellFormed
    OBVIOUS
  <1> DEFINE e == [term |-> 0, lsn |-> StartLsn]
  <1>1. e \in Switches /\ e.term = 0
    BY BoundsAssumption DEF Lsns, Switches
  <1> HIDE DEF e
  <1>2. WellFormed(<<e>>, 0)
    BY <1>1 DEF WellFormed, Last, Ordered, e
  <1>3. history = <<(<<e>>)>> /\ <<e>> \in Seq(Switches)
    BY <1>2 DEF Init, InitialHistory, WellFormed, e
  <1> DEFINE h == <<e>>
             H == Seq(Switches)
  <1>4. h \in H /\ history = <<h>> /\ WellFormed(h, 0)
    BY <1>2, <1>3
  <1> HIDE DEF h, H
  <1>5. history \in Seq(H) /\ history # <<>> /\ Len(history) = 1 /\ history[1] = h
    BY <1>4
  <1> QED BY <1>4, <1>5 DEF AllWellFormed, H

\* Every election and every adoption of its history keeps histories well formed.
LEMMA Inductive == AllWellFormed /\ [Next]_history => AllWellFormed'
PROOF
  <1> SUFFICES ASSUME AllWellFormed, Next PROVE AllWellFormed'
    BY DEF AllWellFormed
  <1>1. PICK t \in 0..(Len(history) - 1), lsn \in Lsns : Elect(t, lsn)
    BY DEF Next
  <1> DEFINE n == Len(history)
             a == Append(UpTo(history[t + 1], lsn), [term |-> n, lsn |-> lsn])
  <1>2. n \in Nat /\ n # 0 /\ t \in Nat /\ t < n
    BY SeqFacts DEF AllWellFormed
  <1>3. WellFormed(history[t + 1], t)
    BY <1>2 DEF AllWellFormed
  <1>4. WellFormed(a, n)
    BY <1>2, <1>3, NextHistory
  <1>5. history' = Append(history, a)
    BY <1>1 DEF Elect
  <1> HIDE DEF a, n
  <1>6. a \in Seq(Switches)
    BY <1>4 DEF WellFormed
  <1>7. /\ history' \in Seq(Seq(Switches)) /\ history' # <<>>
        /\ Len(history') = n + 1 /\ history'[n + 1] = a
        /\ \A i \in 1..n : history'[i] = history[i]
    <2> DEFINE H == Seq(Switches)
    <2>1. history \in Seq(H) /\ a \in H
      BY <1>6 DEF AllWellFormed
    <2> HIDE DEF H
    <2>2. /\ history' \in Seq(H) /\ history' # <<>>
          /\ Len(history') = Len(history) + 1 /\ history'[Len(history) + 1] = a
          /\ \A i \in 1..Len(history) : history'[i] = history[i]
      BY <1>5, <2>1, AppendProperties
    <2> QED BY <2>2 DEF H, n
  <1>8. ASSUME NEW i \in 1..(n + 1) PROVE WellFormed(history'[i], i - 1)
    <2>1. CASE i = n + 1
      BY <1>2, <1>4, <1>7, <2>1
    <2>2. CASE i \in 1..n
      BY <1>7, <2>2 DEF AllWellFormed, n
    <2> QED BY <1>2, <2>1, <2>2
  <1> QED BY <1>7, <1>8 DEF AllWellFormed, WellFormed, Ordered

\* The inductive invariant that the two theorems below rest on: every history of
\* walproposers and safekeepers has increasing terms and LSNs and ends within the
\* WAL of its owner.
THEOREM HistoriesAreWellFormed == Spec => []AllWellFormed
BY Initially, Inductive, PTL DEF Spec

\* For every number of terms and every length of WAL: a safekeeper's history,
\* cut to its WAL, is not empty, starts no term beyond the WAL and is ordered.
THEOREM HistoryWithinWalHolds == Spec => []HistoryWithinWal
PROOF
  <1>1. AllWellFormed => HistoryWithinWal
    <2> SUFFICES ASSUME AllWellFormed, NEW st \in 0..(Len(history) - 1), NEW end \in Lsns
                 PROVE  LET th == SkHistory(st, end)
                        IN  /\ th # <<>>
                            /\ Last(th).lsn <= end
                            /\ \A i \in 1..(Len(th) - 1) :
                                 th[i].term < th[i + 1].term /\ th[i].lsn <= th[i + 1].lsn
      BY DEF HistoryWithinWal
    <2> DEFINE th == UpTo(history[st + 1], end)
    <2>1. Len(history) \in Nat
      BY SeqFacts DEF AllWellFormed
    <2>2. WellFormed(history[st + 1], st)
      BY <2>1 DEF AllWellFormed
    <2>3. /\ th \in Seq(Switches) /\ th # <<>> /\ Ordered(th)
          /\ \A i \in 1..Len(th) : th[i].lsn <= end
      BY <2>2, CutHistory
    <2> HIDE DEF th
    <2>4. Len(th) \in Nat /\ Len(th) # 0
      BY <2>3, SeqFacts
    <2>5. Last(th).lsn <= end
      BY <2>3, <2>4 DEF Last
    <2>6. \A i \in 1..(Len(th) - 1) :
            th[i].term < th[i + 1].term /\ th[i].lsn <= th[i + 1].lsn
      BY <2>3, <2>4 DEF Ordered
    <2> QED BY <2>3, <2>5, <2>6 DEF SkHistory, th
  <1> QED BY <1>1, HistoriesAreWellFormed, PTL

\* Two well-formed histories have a common point, and both sides find it.
LEMMA AgreeOnWellFormed ==
  ASSUME NEW pt, NEW pth, WellFormed(pth, pt),
         NEW st, NEW skTh, WellFormed(skTh, st), NEW end \in Lsns
  PROVE  StartStreamingAt(pth, pt, UpTo(skTh, end), end)
           = FindHighestCommonPoint(pth, UpTo(skTh, end), end).lsn
PROOF
  <1> DEFINE sth == UpTo(skTh, end)
             lcp == FindHighestCommonPoint(pth, sth, end)
             last == CommonEntries(pth, sth)
             skEnd == IF last < Len(sth) THEN sth[last + 1].lsn ELSE end
  <1>1. /\ pth \in Seq(Switches) /\ pth # <<>> /\ pth[1].term = 0
        /\ Last(pth).term = pt /\ Ordered(pth)
    BY DEF WellFormed
  <1>2. sth \in Seq(Switches) /\ sth # <<>> /\ sth[1].term = 0
    BY CutHistory DEF WellFormed
  <1> HIDE DEF sth
  <1>3. /\ Len(pth) \in Nat /\ Len(pth) # 0
        /\ \A i \in 1..Len(pth) : pth[i].term \in Nat /\ pth[i].lsn \in Lsns
        /\ Len(sth) \in Nat /\ Len(sth) # 0
        /\ \A i \in 1..Len(sth) : sth[i].lsn \in Lsns
    BY <1>1, <1>2, HistoryFacts DEF Switches
  <1>4. last \in Nat /\ last <= Len(pth) /\ last <= Len(sth) /\ last # 0
    <2>1. /\ last \in Nat /\ last <= Len(pth) /\ last <= Len(sth)
          /\ last < Len(pth) /\ last < Len(sth) => pth[last + 1].term # sth[last + 1].term
      BY <1>1, <1>2, CommonEntriesProperties
    <2> HIDE DEF last
    <2> QED BY <1>1, <1>2, <1>3, <2>1
  <1>5. \A i \in 1..(Len(pth) - 1) : pth[i].term # Last(pth).term
    BY <1>1, <1>3 DEF Ordered, Last
  <1>6. StartStreamingAt(pth, pt, sth, end) = ExpectedTruncation(pth, sth, end)
    <2>1. pth \in Histories(Nat, Lsns) /\ sth \in Histories(Nat, Lsns) /\ LastTermIsNew(pth)
      BY <1>1, <1>2, <1>5 DEF Switches, Histories, LastTermIsNew
    <2>2. Lsns \in SUBSET (Nat \ {0})
      BY LsnFacts
    <2> HIDE DEF last, lcp
    <2>3. pth # <<>> /\ Last(pth).term = pt
      BY <1>1
    <2>4. StartStreamingAt(pth, Last(pth).term, sth, end) = ExpectedTruncation(pth, sth, end)
      BY <2>1, <2>2, <2>3, StreamingMatchesTruncation, SMT
    <2> QED BY <2>3, <2>4
  <1>7. lcp.lsn = IF last = Len(pth) THEN end ELSE Lower(pth[last + 1].lsn, skEnd)
    BY <1>4 DEF FindHighestCommonPoint
  <1> HIDE DEF lcp, last
  <1>8. skEnd \in Lsns
    BY <1>3, <1>4
  <1> HIDE DEF skEnd
  <1>9. lcp.lsn \in Lsns
    BY <1>3, <1>4, <1>7, <1>8 DEF Lower
  <1>10. lcp # NoPoint
    BY <1>9, LsnFacts DEF NoPoint
  <1> QED BY <1>6, <1>10 DEF lcp, sth, ExpectedTruncation

\* For every number of terms and every length of WAL: SendProposerElected starts
\* streaming where handle_elected expects the truncation.
THEOREM BothSidesAgreeHolds == Spec => []BothSidesAgree
PROOF
  <1>1. AllWellFormed => BothSidesAgree
    <2> SUFFICES ASSUME AllWellFormed, NEW m \in Meetings
                 PROVE  StartStreamingAt(history[m[1] + 1], m[1], SkHistory(m[2], m[3]), m[3])
                          = FindHighestCommonPoint(history[m[1] + 1],
                                                   SkHistory(m[2], m[3]), m[3]).lsn
      BY DEF BothSidesAgree
    <2>1. Len(history) \in Nat
      BY SeqFacts DEF AllWellFormed
    <2>2. PICK pt \in 1..(Len(history) - 1), st \in 0..(Len(history) - 1), end \in Lsns :
            m[1] = pt /\ m[2] = st /\ m[3] = end
      BY DEF Meetings
    <2>3. WellFormed(history[pt + 1], pt) /\ WellFormed(history[st + 1], st)
      BY <2>1, <2>2 DEF AllWellFormed
    <2>4. StartStreamingAt(history[pt + 1], pt, UpTo(history[st + 1], end), end)
            = FindHighestCommonPoint(history[pt + 1], UpTo(history[st + 1], end), end).lsn
      BY <2>3, AgreeOnWellFormed
    <2> QED BY <2>2, <2>4 DEF SkHistory
  <1> QED BY <1>1, HistoriesAreWellFormed, PTL

=============================================================================
