------------------------ MODULE DeletionQueueProofs -------------------------
(***************************************************************************)
(* The deletion queue, for any number of pageservers, generations and      *)
(* layers: what an attachment loads exists, no remote_consistent_lsn is    *)
(* advertised that an attachment would not have, lists on disk are neither *)
(* overwritten nor executed without validation, and a list goes only when  *)
(* its objects are gone.                                                   *)
(*                                                                         *)
(* The argument is about retired layers: no index that can still be loaded *)
(* refers to them, nor any shard whose index can still become that one.    *)
(* A retired layer stays retired whatever happens, generations issued to   *)
(* other nodes included, while a list that waits for validation is only    *)
(* known to name retired layers as long as its generation is the latest.   *)
(* In the same way an LSN once loadable stays so.  The proof has two       *)
(* halves that meet in these two sets: shards and indexes (World), which   *)
(* only ever make them grow, and the queue of one node with its files      *)
(* (NodeInv), which rests on nothing else.                                 *)
(*                                                                         *)
(* TermHistoryProofs is here for its facts about Max and sequences.        *)
(***************************************************************************)
EXTENDS DeletionQueue, TermHistoryProofs

-----------------------------------------------------------------------------
(* Sequences of lists *)

ListRec == [seq : Nat, gen : Nat, objs : SUBSET Nat]

Increasing(s) == \A i, j \in 1..Len(s) : i < j => s[i].seq < s[j].seq

\* Every list of A has a smaller number than every list of B.
Before(A, B) == \A a \in A, b \in B : a.seq < b.seq

\* The elements of a sequence.
LEMMA RangeFacts ==
  ASSUME NEW S, NEW s \in Seq(S)
  PROVE  /\ Range(s) \subseteq S /\ DOMAIN s = 1..Len(s) /\ Len(s) \in Nat
         /\ \A i \in 1..Len(s) : s[i] \in S /\ s[i] \in Range(s)
         /\ \A x \in Range(s) : \E i \in 1..Len(s) : x = s[i]
         /\ Range(s) = {} <=> s = <<>>
PROOF
  <1>1. DOMAIN s = 1..Len(s) /\ Len(s) \in Nat /\ \A i \in 1..Len(s) : s[i] \in S
    BY SeqFacts, LenProperties
  <1>2. \A x : x \in Range(s) <=> \E i \in 1..Len(s) : x = s[i]
    BY <1>1 DEF Range
  <1>3. s = <<>> <=> Len(s) = 0
    BY SeqFacts
  <1>4. Range(s) = {} <=> Len(s) = 0
    <2>1. Len(s) # 0 => s[1] \in Range(s)
      BY <1>1, <1>2
    <2>2. Len(s) = 0 => \A x : x \notin Range(s)
      BY <1>2
    <2> QED BY <2>1, <2>2
  <1> QED BY <1>1, <1>2, <1>3, <1>4

\* A sequence has exactly the elements S.
LEMMA RangeIs ==
  ASSUME NEW S, NEW s \in Seq(S), NEW A,
         \A i \in 1..Len(s) : s[i] \in A, \A x \in A : \E i \in 1..Len(s) : x = s[i]
  PROVE  Range(s) = A
PROOF
  <1>1. \A x \in Range(s) : x \in A
    BY RangeFacts
  <1>2. ASSUME NEW x \in A PROVE x \in Range(s)
    <2>1. PICK i \in 1..Len(s) : x = s[i]
      OBVIOUS
    <2> QED BY <2>1, RangeFacts
  <1> QED BY <1>1, <1>2

\* Append at the end of a channel.
LEMMA AppendFacts ==
  ASSUME NEW S, NEW s \in Seq(S), NEW e \in S
  PROVE  /\ Append(s, e) \in Seq(S) /\ Range(Append(s, e)) = Range(s) \cup {e}
         /\ Increasing(s) /\ Before(Range(s), {e}) => Increasing(Append(s, e))
PROOF
  <1> DEFINE t == Append(s, e)
  <1>1. /\ t \in Seq(S) /\ Len(t) = Len(s) + 1 /\ Len(s) \in Nat
        /\ \A i \in 1..Len(s) : t[i] = s[i] /\ s[i] \in Range(s)
        /\ t[Len(s) + 1] = e
    BY AppendProperties, RangeFacts
  <1>2. \A i \in 1..Len(t) : i \in 1..Len(s) \/ i = Len(s) + 1
    BY <1>1
  <1>3. 1..Len(s) \subseteq 1..Len(t) /\ Len(s) + 1 \in 1..Len(t)
    BY <1>1
  <1> HIDE DEF t
  <1>4. Range(t) = Range(s) \cup {e}
    <2>1. \A i \in 1..Len(t) : t[i] \in Range(s) \cup {e}
      BY <1>1, <1>2
    <2>2. ASSUME NEW x \in Range(s) PROVE \E i \in 1..Len(t) : x = t[i]
      <3>1. PICK i \in 1..Len(s) : x = s[i]
        BY RangeFacts
      <3> QED BY <1>1, <1>3, <3>1
    <2>3. \E i \in 1..Len(t) : e = t[i]
      BY <1>1, <1>3
    <2>4. \A x \in Range(s) \cup {e} : \E i \in 1..Len(t) : x = t[i]
      BY <2>2, <2>3
    <2> QED BY <1>1, <2>1, <2>4, RangeIs
  <1>5. ASSUME Increasing(s), Before(Range(s), {e}) PROVE Increasing(t)
    <2> SUFFICES ASSUME NEW i \in 1..Len(t), NEW j \in 1..Len(t), i < j
                 PROVE  t[i].seq < t[j].seq
      BY DEF Increasing
    <2>1. i \in 1..Len(s)
      BY <1>1
    <2>2. CASE j \in 1..Len(s)
      BY <1>1, <1>5, <2>1, <2>2 DEF Increasing
    <2>3. CASE j = Len(s) + 1
      BY <1>1, <1>5, <2>1, <2>3 DEF Before
    <2> QED BY <1>2, <2>2, <2>3
  <1> QED BY <1>1, <1>4, <1>5 DEF t

\* The first k elements, and the others.
LEMMA SplitFacts ==
  ASSUME NEW S, NEW s \in Seq(S), NEW k \in 0..Len(s)
  PROVE  LET a == SubSeq(s, 1, k)
             b == SubSeq(s, k + 1, Len(s))
         IN  /\ a \in Seq(S) /\ b \in Seq(S) /\ Range(a) \cup Range(b) = Range(s)
             /\ Increasing(s) => Increasing(a) /\ Increasing(b) /\ Before(Range(a), Range(b))
             /\ Len(a) = k
PROOF
  <1> DEFINE a == SubSeq(s, 1, k)
             b == SubSeq(s, k + 1, Len(s))
  <1>0. Len(s) \in Nat /\ k \in Int /\ k + 1 \in Int /\ Len(s) \in Int /\ \A i \in 1..Len(s) : s[i] \in S
    BY SeqFacts
  <1>1. a \in Seq(S) /\ Len(a) = k /\ \A i \in 1..k : a[i] = s[i]
    <2>1. \A i \in 1..k : s[i] \in S
      BY <1>0
    <2>2. /\ a \in Seq(S) /\ Len(a) = (IF 1 <= k THEN k - 1 + 1 ELSE 0)
          /\ \A i \in 1..(k - 1 + 1) : a[i] = s[1 + i - 1]
      BY <1>0, <2>1, SubSeqProperties
    <2> QED BY <1>0, <2>2
  <1>2. b \in Seq(S) /\ Len(b) = Len(s) - k /\ \A i \in 1..(Len(s) - k) : b[i] = s[k + i]
    <2>1. \A i \in (k + 1)..Len(s) : s[i] \in S
      BY <1>0
    <2>2. /\ b \in Seq(S) /\ Len(b) = (IF k + 1 <= Len(s) THEN Len(s) - (k + 1) + 1 ELSE 0)
          /\ \A i \in 1..(Len(s) - (k + 1) + 1) : b[i] = s[k + 1 + i - 1]
      BY <1>0, <2>1, SubSeqProperties
    <2> QED BY <1>0, <2>2
  <1> HIDE DEF a, b
  <1>3. \A i \in 1..Len(a) : i \in 1..Len(s) /\ a[i] = s[i]
    BY <1>0, <1>1
  <1>4. \A i \in 1..Len(b) : k + i \in 1..Len(s) /\ b[i] = s[k + i]
    BY <1>0, <1>2
  <1>5. \A i \in 1..Len(s) : i \in 1..Len(a) \/ (i - k \in 1..Len(b) /\ k + (i - k) = i)
    BY <1>0, <1>1, <1>2
  <1>6. Range(a) \cup Range(b) = Range(s)
    <2>1. \A x \in Range(a) : x \in Range(s)
      BY <1>1, <1>3, RangeFacts
    <2>2. \A x \in Range(b) : x \in Range(s)
      BY <1>2, <1>4, RangeFacts, SMTT(60)
    <2>3. ASSUME NEW x \in Range(s) PROVE x \in Range(a) \cup Range(b)
      <3>1. PICK i \in 1..Len(s) : x = s[i]
        BY RangeFacts
      <3>2. CASE i \in 1..Len(a)
        BY <1>1, <1>3, <3>1, <3>2, RangeFacts, SMTT(60)
      <3>3. CASE i - k \in 1..Len(b) /\ k + (i - k) = i
        <4>1. x = b[i - k]
          BY <1>4, <3>1, <3>3
        <4>2. b[i - k] \in Range(b)
          BY <1>2, <3>3, RangeFacts
        <4> QED BY <4>1, <4>2
      <3> QED BY <1>5, <3>2, <3>3
    <2> QED BY <2>1, <2>2, <2>3
  <1>7. ASSUME Increasing(s) PROVE Increasing(a) /\ Increasing(b) /\ Before(Range(a), Range(b))
    <2>1. Increasing(a)
      BY <1>3, <1>7 DEF Increasing
    <2>2. Increasing(b)
      <3> SUFFICES ASSUME NEW i \in 1..Len(b), NEW j \in 1..Len(b), i < j
                   PROVE  b[i].seq < b[j].seq
        BY DEF Increasing
      <3>1. k + i < k + j
        BY <1>0
      <3> QED BY <1>4, <1>7, <3>1 DEF Increasing
    <2>3. ASSUME NEW x \in Range(a), NEW y \in Range(b) PROVE x.seq < y.seq
      <3>1. PICK i \in 1..Len(a) : x = a[i]
        BY <1>1, RangeFacts
      <3>2. PICK j \in 1..Len(b) : y = b[j]
        BY <1>2, RangeFacts
      <3>3. i < k + j
        BY <1>0, <1>1, <1>2
      <3> QED BY <1>3, <1>4, <1>7, <3>1, <3>2, <3>3 DEF Increasing
    <2> QED BY <2>1, <2>2, <2>3 DEF Before
  <1> QED BY <1>1, <1>2, <1>6, <1>7 DEF a, b

\* Lists that follow others.
LEMMA ConcatFacts ==
  ASSUME NEW S, NEW s \in Seq(S), NEW t \in Seq(S)
  PROVE  s \o t \in Seq(S) /\ Range(s \o t) = Range(s) \cup Range(t)
PROOF
  <1> DEFINE c == s \o t
  <1>1. /\ c \in Seq(S) /\ Len(c) = Len(s) + Len(t) /\ Len(s) \in Nat /\ Len(t) \in Nat
        /\ \A i \in 1..(Len(s) + Len(t)) : c[i] = IF i <= Len(s) THEN s[i] ELSE t[i - Len(s)]
    BY ConcatProperties, SeqFacts
  <1> HIDE DEF c
  <1>2. \A i \in 1..Len(c) : (i \in 1..Len(s) /\ c[i] = s[i])
                             \/ (i - Len(s) \in 1..Len(t) /\ c[i] = t[i - Len(s)])
    BY <1>1
  <1>3. \A i \in 1..Len(s) : i \in 1..Len(c) /\ c[i] = s[i]
    BY <1>1
  <1>4. \A i \in 1..Len(t) : Len(s) + i \in 1..Len(c) /\ c[Len(s) + i] = t[i]
    BY <1>1
  <1>5. \A i \in 1..Len(c) : c[i] \in Range(s) \cup Range(t)
    BY <1>2, RangeFacts
  <1>6. \A x \in Range(s) \cup Range(t) : \E i \in 1..Len(c) : x = c[i]
    <2>1. ASSUME NEW x \in Range(s) PROVE \E i \in 1..Len(c) : x = c[i]
      <3>1. PICK i \in 1..Len(s) : x = s[i]
        BY RangeFacts
      <3> QED BY <1>3, <3>1
    <2>2. ASSUME NEW x \in Range(t) PROVE \E i \in 1..Len(c) : x = c[i]
      <3>1. PICK i \in 1..Len(t) : x = t[i]
        BY RangeFacts
      <3> QED BY <1>4, <3>1
    <2> QED BY <2>1, <2>2
  <1> QED BY <1>1, <1>5, <1>6, RangeIs DEF c

\* The first element, and the others.
LEMMA TailFacts ==
  ASSUME NEW S, NEW s \in Seq(S), s # <<>>
  PROVE  /\ Head(s) \in S /\ Tail(s) \in Seq(S) /\ Range(s) = {Head(s)} \cup Range(Tail(s))
         /\ Last(s) \in Range(s)
PROOF
  <1>1. /\ Head(s) \in S /\ Tail(s) \in Seq(S) /\ Len(Tail(s)) = Len(s) - 1
        /\ \A i \in 1..Len(Tail(s)) : Tail(s)[i] = s[i + 1]
        /\ Len(s) \in Nat /\ Len(s) # 0 /\ Head(s) = s[1]
    BY HeadTailProperties, SeqFacts
  <1>2. \A i \in 1..Len(s) : i = 1 \/ (i - 1 \in 1..Len(Tail(s)) /\ s[i] = Tail(s)[i - 1])
    <2>1. \A i \in 1..Len(s) : i # 1 => i - 1 \in 1..Len(Tail(s)) /\ (i - 1) + 1 = i
      BY <1>1
    <2> QED BY <1>1, <2>1
  <1>3. \A i \in 1..Len(Tail(s)) : i + 1 \in 1..Len(s) /\ Tail(s)[i] = s[i + 1]
    BY <1>1
  <1>4. \A i \in 1..Len(s) : s[i] \in {Head(s)} \cup Range(Tail(s))
    <2>1. \A i \in 1..Len(Tail(s)) : Tail(s)[i] \in Range(Tail(s))
      BY <1>1, RangeFacts
    <2> QED BY <1>1, <1>2, <2>1
  <1>5. \A x \in {Head(s)} \cup Range(Tail(s)) : \E i \in 1..Len(s) : x = s[i]
    <2>1. 1 \in 1..Len(s)
      BY <1>1
    <2>2. ASSUME NEW x \in Range(Tail(s)) PROVE \E i \in 1..Len(s) : x = s[i]
      <3>0. Tail(s) \in Seq(S)
        BY <1>1
      <3>1. PICK i \in 1..Len(Tail(s)) : x = Tail(s)[i]
        BY <3>0, RangeFacts, ZenonT(60)
      <3> QED BY <1>3, <3>1
    <2> QED BY <1>1, <2>1, <2>2
  <1>6. Last(s) \in Range(s)
    <2>1. Len(s) \in 1..Len(s)
      BY <1>1
    <2> QED BY <2>1, RangeFacts DEF Last
  <1> QED BY <1>1, <1>4, <1>5, <1>6, RangeIs

\* recover(): InOrder puts lists with different numbers in the order of their numbers.
LEMMA InOrderFacts ==
  ASSUME NEW D, D \subseteq ListRec, NEW b \in Nat, \A l \in D : l.seq < b,
         \A l, m \in D : l.seq = m.seq => l = m
  PROVE  InOrder(D) \in Seq(D) /\ Range(InOrder(D)) = D /\ Increasing(InOrder(D))
PROOF
  <1> DEFINE Up(l) == {x \in D : x.seq <= l.seq}
             N == Cardinality(D)
             rank == [l \in D |-> Cardinality(Up(l))]
             s == InOrder(D)
  <1>1. \A l \in D : l.seq \in Nat
    BY DEF ListRec
  <1>2. IsFiniteSet(D) /\ N \in Nat
    <2> DEFINE f == [l \in D |-> l.seq]
    <2>1. f \in Injection(D, 0..b)
      <3>1. f \in [D -> 0..b]
        BY <1>1
      <3>2. \A l, m \in D : f[l] = f[m] => l = m
        OBVIOUS
      <3> QED BY <3>1, <3>2 DEF Injection, IsInjective
    <2>2. IsFiniteSet(0..b)
      BY FS_Interval
    <2>3. IsFiniteSet(D)
      BY <2>1, <2>2, FS_Injection
    <2> QED BY <2>3, FS_CardinalityType
  <1>3. ASSUME NEW l \in D
        PROVE  /\ IsFiniteSet(Up(l)) /\ Up(l) \in SUBSET D /\ l \in Up(l)
               /\ Cardinality(Up(l)) \in 1..N
    <2>1. Up(l) \in SUBSET D
      OBVIOUS
    <2>2. l \in Up(l)
      BY <1>1
    <2>3. IsFiniteSet(Up(l)) /\ Cardinality(Up(l)) <= N
      BY <1>2, <2>1, FS_Subset
    <2>4. Cardinality(Up(l)) \in Nat /\ Cardinality(Up(l)) # 0
      BY <2>2, <2>3, FS_CardinalityType, FS_EmptySet
    <2> QED BY <1>2, <2>1, <2>2, <2>3, <2>4
  <1>4. ASSUME NEW l \in D, NEW m \in D, l.seq < m.seq
        PROVE  Cardinality(Up(l)) < Cardinality(Up(m))
    <2>1. Up(l) \in SUBSET Up(m)
      BY <1>1, <1>4
    <2>2. m \in Up(m) /\ m \notin Up(l)
      BY <1>1, <1>4
    <2>3. IsFiniteSet(Up(m))
      BY <1>3
    <2>4. Cardinality(Up(l)) <= Cardinality(Up(m)) /\ Cardinality(Up(m)) # Cardinality(Up(l))
      BY <2>1, <2>2, <2>3, FS_Subset
    <2>5. Cardinality(Up(l)) \in 1..N /\ Cardinality(Up(m)) \in 1..N
      BY <1>3
    <2> QED BY <1>2, <2>4, <2>5
  <1>5. rank \in [D -> 1..N]
    BY <1>3
  <1>6. \A l \in D : rank[l] = Cardinality(Up(l))
    OBVIOUS
  <1>7. \A l, m \in D : l.seq < m.seq => rank[l] < rank[m]
    BY <1>4, <1>6
  <1>8. \A i \in 1..N : s[i] = CHOOSE l \in D : rank[l] = i
    BY <1>6 DEF InOrder
  <1>9. (\A i \in 1..N : s[i] \in D) => s \in [1..N -> D]
    BY DEF InOrder
  <1> HIDE DEF Up, rank, s
  <1>10. \A l, m \in D : rank[l] = rank[m] => l = m
    <2> SUFFICES ASSUME NEW l \in D, NEW m \in D, rank[l] = rank[m] PROVE l = m
      OBVIOUS
    <2>1. ~(l.seq < m.seq) /\ ~(m.seq < l.seq)
      <3>1. rank[l] \in 1..N /\ rank[m] \in 1..N
        BY <1>5
      <3> QED BY <1>2, <1>7, <3>1
    <2> QED BY <1>1, <2>1
  <1>11. \A i \in 1..N : \E l \in D : rank[l] = i
    <2>1. rank \in Injection(D, 1..N)
      BY <1>5, <1>10 DEF Injection, IsInjective
    <2>2. IsFiniteSet(1..N) /\ Cardinality(1..N) = N
      <3>1. 1 \in Int /\ N \in Int
        BY <1>2
      <3>2. IsFiniteSet(1..N) /\ Cardinality(1..N) = (IF 1 > N THEN 0 ELSE N - 1 + 1)
        BY <3>1, FS_Interval
      <3> QED BY <1>2, <3>2
    <2>3. rank \in Surjection(D, 1..N)
      BY <2>1, <2>2, FS_Injection
    <2> QED BY <2>3 DEF Surjection
  <1>12. \A i \in 1..N : s[i] \in D /\ rank[s[i]] = i
    BY <1>8, <1>11
  <1>13. s \in Seq(D) /\ Len(s) = N
    <2>1. s \in [1..N -> D]
      BY <1>9, <1>12
    <2> QED BY <1>2, <2>1
  <1>14. Range(s) = D
    <2>1. ASSUME NEW l \in D PROVE \E i \in 1..Len(s) : l = s[i]
      <3>1. rank[l] \in 1..N
        BY <1>5
      <3>2. s[rank[l]] = l
        BY <1>10, <1>12, <3>1
      <3> QED BY <1>13, <3>1, <3>2
    <2> QED BY <1>12, <1>13, <2>1, RangeIs, ZenonT(60)
  <1>15. Increasing(s)
    <2> SUFFICES ASSUME NEW i \in 1..N, NEW j \in 1..N, i < j PROVE s[i].seq < s[j].seq
      BY <1>13 DEF Increasing
    <2>1. s[i] \in D /\ s[j] \in D /\ rank[s[i]] < rank[s[j]]
      BY <1>12
    <2>2. ~(s[j].seq < s[i].seq)
      BY <1>2, <1>7, <1>12, <2>1
    <2>3. s[i].seq # s[j].seq
      BY <1>12, <2>1
    <2> QED BY <1>1, <2>1, <2>2, <2>3
  <1> QED BY <1>13, <1>14, <1>15 DEF s

\* A sequence whose lists have the numbers of another one, in the same order.
LEMMA SameNumbers ==
  ASSUME NEW s \in Seq(ListRec), NEW t \in [DOMAIN s -> ListRec],
         \A i \in DOMAIN s : t[i].seq = s[i].seq
  PROVE  /\ t \in Seq(ListRec) /\ Len(t) = Len(s) /\ DOMAIN s = 1..Len(s)
         /\ Increasing(s) => Increasing(t)
         /\ \A i \in 1..Len(s) : s[i] \in Range(s) /\ t[i] \in Range(t) /\ t[i].seq = s[i].seq
         /\ \A x \in Range(t) : \E i \in 1..Len(s) : x = t[i]
         /\ \A x \in Range(s) : \E i \in 1..Len(s) : x = s[i]
PROOF
  <1>1. DOMAIN s = 1..Len(s) /\ Len(s) \in Nat
    BY RangeFacts
  <1>2. t \in Seq(ListRec) /\ Len(t) = Len(s)
    BY <1>1
  <1>3. Increasing(s) => Increasing(t)
    BY <1>1, <1>2 DEF Increasing
  <1>4. \A i \in 1..Len(s) : s[i] \in Range(s) /\ t[i] \in Range(t)
    BY <1>2, RangeFacts
  <1>5. \A x \in Range(t) : \E i \in 1..Len(s) : x = t[i]
    BY <1>2, RangeFacts
  <1>6. \A x \in Range(s) : \E i \in 1..Len(s) : x = s[i]
    BY RangeFacts
  <1> QED BY <1>1, <1>2, <1>3, <1>4, <1>5, <1>6

\* t may stand where s stands: it has no number twice, and lies between the same lists.
StandsFor(t, s) ==
  /\ t = <<>> <=> s = <<>>
  /\ Increasing(s) => \A i, j \in 1..Len(s) : t[i].seq = t[j].seq => i = j
  /\ \A B : Before(B, Range(s)) => Before(B, Range(t))
  /\ \A B : Before(Range(s), B) => Before(Range(t), B)

\* Such a sequence may stand for the other one.
LEMMA SamePlaces ==
  ASSUME NEW s \in Seq(ListRec), NEW t \in [DOMAIN s -> ListRec],
         \A i \in DOMAIN s : t[i].seq = s[i].seq
  PROVE  StandsFor(t, s)
PROOF
  <1>1. /\ t \in Seq(ListRec) /\ Len(t) = Len(s) /\ DOMAIN s = 1..Len(s)
        /\ \A i \in 1..Len(s) : s[i] \in Range(s) /\ t[i].seq = s[i].seq
        /\ \A x \in Range(t) : \E i \in 1..Len(s) : x = t[i]
    BY SameNumbers, Zenon
  <1>2. t = <<>> <=> s = <<>>
    <2>1. s = <<>> <=> Len(s) = 0
      BY SeqFacts
    <2>2. t = <<>> <=> Len(t) = 0
      BY <1>1, SeqFacts
    <2> QED BY <1>1, <2>1, <2>2, Zenon
  <1>3. ASSUME Increasing(s), NEW i \in 1..Len(s), NEW j \in 1..Len(s), t[i].seq = t[j].seq
        PROVE  i = j
    <2>1. Len(s) \in Nat
      BY SeqFacts
    <2>2. i \in Int /\ j \in Int
      BY <2>1
    <2>3. s[i].seq \in Nat /\ s[i].seq = s[j].seq
      <3>1. s[i] \in ListRec
        BY SeqFacts
      <3> QED BY <1>1, <1>3, <3>1 DEF ListRec
    <2>4. ~(s[i].seq < s[j].seq) /\ ~(s[j].seq < s[i].seq)
      BY <2>3
    <2>5. ~(i < j) /\ ~(j < i)
      BY <1>3, <2>4 DEF Increasing
    <2> QED BY <2>2, <2>5
  <1>4. ASSUME NEW B, Before(B, Range(s)) PROVE Before(B, Range(t))
    BY <1>1, <1>4 DEF Before
  <1>5. ASSUME NEW B, Before(Range(s), B) PROVE Before(Range(t), B)
    BY <1>1, <1>5 DEF Before
  <1> QED BY <1>2, <1>3, <1>4, <1>5, Zenon DEF StandsFor

-----------------------------------------------------------------------------
(* One node: ListWriter and Validator in memory, lists and header on disk.  G is the   *)
(* latest generation, R the retired layers, V the LSNs that every attachment loads.    *)

Steps == {"idle", "asked", "answered", "header", "validated"}
LsnRec == [gen : Nat, lsn : Nat]
FlushRec == [step : Steps, gen : Nat, valid : BOOLEAN, update : LsnRec, lists : Seq(ListRec)]
QueueRec == [pending : ListRec, sent : Seq(ListRec), validated : Seq(ListRec), lsns : LsnRec,
             writeFailed : BOOLEAN, flush : FlushRec]
DiskRec == [lists : SUBSET ListRec, header : Nat]

\* What is known of a list that waits for validation.
Claim(l, G, R) == l.gen <= G /\ (l.gen = G => l.objs \subseteq R)

LsnClaim(u, G, V) == u.gen <= G /\ (u.gen = G => u.lsn \in V)

ClaimsHold(q, d, G, R, V) ==
  /\ Claim(q.pending, G, R)
  /\ \A l \in Range(q.sent) : Claim(l, G, R)
  /\ \A l \in Range(q.flush.lists) : Claim(l, G, R)
  /\ \A l \in d.lists : Claim(l, G, R)
  /\ LsnClaim(q.lsns, G, V) /\ LsnClaim(q.flush.update, G, V)

\* The answer remains true however late it is used.
AnswerHolds(q, R, V) ==
  q.flush.step = "answered" /\ q.flush.valid =>
    /\ \A l \in Range(q.flush.lists) : l.gen = q.flush.gen => l.objs \subseteq R
    /\ q.flush.update.gen = q.flush.gen => q.flush.update.lsn \in V

ValidatedIsRetired(q, R) ==
  /\ q.flush.step = "header" =>
       q.flush.lists # <<>> /\ \A l \in Range(q.flush.lists) : l.objs \subseteq R
  /\ q.flush.step \in {"idle", "validated"} => q.flush.lists = <<>>
  /\ \A l \in Range(q.validated) : l.objs \subseteq R

\* Numbers grow from the lists that are validated to the one that is being filled.
InSequence(q, d) ==
  /\ Increasing(q.sent) /\ Increasing(q.flush.lists)
  /\ Before(Range(q.validated), Range(q.flush.lists)) /\ Before(Range(q.validated), Range(q.sent))
  /\ Before(Range(q.flush.lists), Range(q.sent))
  /\ Before(Range(q.validated), {q.pending}) /\ Before(Range(q.flush.lists), {q.pending})
  /\ Before(Range(q.sent), {q.pending}) /\ Before(d.lists, {q.pending})
  /\ d.header < q.pending.seq
  /\ \A l, m \in d.lists : l.seq = m.seq => l = m

\* The list l on disk is still to be validated.
Waiting(q, l) ==
  \/ \E m \in Range(q.sent) : m.seq = l.seq
  \/ q.flush.step \in {"asked", "answered"} /\ \E m \in Range(q.flush.lists) : m.seq = l.seq

\* A list on disk and what memory has of it delete the same.
Matches(l, A) == \A m \in A : m.seq = l.seq => m.objs = l.objs

\* The header covers nothing that waits; after list_write_failed it is not written.
DiskIsSound(q, d, R) ==
  /\ \A l \in d.lists : l.seq <= d.header => l.objs \subseteq R
  /\ \A l \in d.lists : q.writeFailed \/ Waiting(q, l) \/ l.objs \subseteq R
  /\ \A l \in d.lists : q.writeFailed \/ (/\ Matches(l, Range(q.sent))
                                          /\ Matches(l, Range(q.flush.lists))
                                          /\ Matches(l, Range(q.validated)))

NodeInv(q, d, G, R, V) ==
  /\ q \in QueueRec /\ d \in DiskRec
  /\ ClaimsHold(q, d, G, R, V) /\ AnswerHolds(q, R, V) /\ ValidatedIsRetired(q, R)
  /\ InSequence(q, d) /\ DiskIsSound(q, d, R)

\* What the fields of a queue are.
LEMMA QueueTypes ==
  ASSUME NEW q \in QueueRec
  PROVE  /\ q.pending \in ListRec /\ q.sent \in Seq(ListRec) /\ q.validated \in Seq(ListRec)
         /\ q.lsns \in LsnRec /\ q.writeFailed \in BOOLEAN /\ q.flush \in FlushRec
         /\ q.flush.lists \in Seq(ListRec) /\ q.flush.update \in LsnRec
         /\ q.flush.gen \in Nat /\ q.flush.valid \in BOOLEAN /\ q.flush.step \in Steps
         /\ Range(q.sent) \subseteq ListRec /\ Range(q.flush.lists) \subseteq ListRec
         /\ Range(q.validated) \subseteq ListRec
PROOF
  <1>1. /\ q.pending \in ListRec /\ q.sent \in Seq(ListRec) /\ q.validated \in Seq(ListRec)
        /\ q.lsns \in LsnRec /\ q.writeFailed \in BOOLEAN /\ q.flush \in FlushRec
    BY DEF QueueRec
  <1>2. /\ q.flush.lists \in Seq(ListRec) /\ q.flush.update \in LsnRec
        /\ q.flush.gen \in Nat /\ q.flush.valid \in BOOLEAN /\ q.flush.step \in Steps
    BY <1>1 DEF FlushRec
  <1> QED BY <1>1, <1>2, RangeFacts

\* Claims survive a new generation, and more retired layers and loadable LSNs.
LEMMA ClaimGrows ==
  ASSUME NEW l, l.gen \in Nat, NEW G \in Nat, NEW G2 \in Nat, G <= G2,
         NEW R, NEW R2, R \subseteq R2, Claim(l, G, R)
  PROVE  Claim(l, G2, R2)
BY DEF Claim

\* The world goes on: a node that does nothing keeps its invariant.
LEMMA NodeKeeps ==
  ASSUME NEW G \in Nat, NEW G2 \in Nat, G <= G2, NEW R, NEW R2, R \subseteq R2,
         NEW V, NEW V2, V \subseteq V2, NEW q, NEW d, NodeInv(q, d, G, R, V)
  PROVE  NodeInv(q, d, G2, R2, V2)
PROOF
  <1>1. q \in QueueRec /\ d \in DiskRec
    BY DEF NodeInv
  <1>2. /\ \A l \in ListRec : l.gen \in Nat
        /\ q.pending \in ListRec /\ Range(q.sent) \subseteq ListRec
        /\ Range(q.flush.lists) \subseteq ListRec /\ d.lists \subseteq ListRec
        /\ q.lsns.gen \in Nat /\ q.flush.update.gen \in Nat
    BY <1>1, QueueTypes DEF ListRec, LsnRec, DiskRec
  <1>3. ClaimsHold(q, d, G2, R2, V2)
    <2>1. ClaimsHold(q, d, G, R, V)
      BY DEF NodeInv
    <2>2. LsnClaim(q.lsns, G2, V2) /\ LsnClaim(q.flush.update, G2, V2)
      BY <1>2, <2>1 DEF ClaimsHold, LsnClaim
    <2>3. \A l \in ListRec : Claim(l, G, R) => Claim(l, G2, R2)
      BY <1>2, ClaimGrows
    <2> QED BY <1>2, <2>1, <2>2, <2>3 DEF ClaimsHold
  <1>4. AnswerHolds(q, R2, V2)
    BY DEF NodeInv, AnswerHolds
  <1>5. ValidatedIsRetired(q, R2)
    BY DEF NodeInv, ValidatedIsRetired
  <1>6. DiskIsSound(q, d, R2)
    BY DEF NodeInv, DiskIsSound
  <1> QED BY <1>1, <1>3, <1>4, <1>5, <1>6 DEF NodeInv

\* A node that starts for the first time.
LEMMA NodeStarts ==
  ASSUME NEW G \in Nat \ {0}, NEW R, NEW V
  PROVE  NodeInv(EmptyQueue(1), [lists |-> {}, header |-> 0], G, R, V)
PROOF
  <1> DEFINE q == EmptyQueue(1)
             d == [lists |-> {}, header |-> 0]
  <1>1. /\ q.pending = [seq |-> 1, gen |-> 0, objs |-> {}] /\ q.sent = <<>> /\ q.validated = <<>>
        /\ q.lsns = NoLsn /\ q.writeFailed = FALSE /\ q.flush = Resting /\ q.flush.lists = <<>>
        /\ q.flush.step = "idle" /\ q.flush.update = NoLsn
    BY DEF EmptyQueue, Resting, List
  <1>2. <<>> \in Seq(ListRec) /\ Range(<<>>) = {} /\ Increasing(<<>>)
    <2>1. <<>> \in Seq(ListRec) /\ Len(<<>>) = 0
      BY EmptySeq
    <2> QED BY <2>1, RangeFacts DEF Increasing
  <1>3. q \in QueueRec
    <2>1. [seq |-> 1, gen |-> 0, objs |-> {}] \in ListRec /\ NoLsn \in LsnRec
      BY DEF ListRec, LsnRec, NoLsn
    <2>2. Resting \in FlushRec
      BY <1>2, <2>1 DEF FlushRec, Resting, Steps
    <2> QED BY <1>2, <2>1, <2>2 DEF QueueRec, EmptyQueue, List
  <1>4. d \in DiskRec /\ d.lists = {} /\ d.header = 0
    BY DEF DiskRec
  <1>5. NoLsn.gen = 0
    BY DEF NoLsn
  <1> HIDE DEF q, d
  <1>6. ClaimsHold(q, d, G, R, V)
    BY <1>1, <1>2, <1>4, <1>5 DEF ClaimsHold, Claim, LsnClaim
  <1>7. AnswerHolds(q, R, V) /\ ValidatedIsRetired(q, R)
    BY <1>1, <1>2 DEF AnswerHolds, ValidatedIsRetired
  <1>8. InSequence(q, d) /\ DiskIsSound(q, d, R)
    BY <1>1, <1>2, <1>4 DEF InSequence, DiskIsSound, Before
  <1> QED BY <1>3, <1>4, <1>6, <1>7, <1>8 DEF NodeInv, q, d

\* UploadMetadata: another update of the LSN.
LEMMA NodeUpdatesLsn ==
  ASSUME NEW G \in Nat, NEW R, NEW V, NEW q, NEW d, NodeInv(q, d, G, R, V),
         NEW u \in LsnRec, LsnClaim(u, G, V)
  PROVE  NodeInv([q EXCEPT !.lsns = u], d, G, R, V)
PROOF
  <1> DEFINE q2 == [q EXCEPT !.lsns = u]
  <1>1. q \in QueueRec
    BY DEF NodeInv
  <1>2. /\ q2 \in QueueRec /\ q2.pending = q.pending /\ q2.sent = q.sent
        /\ q2.validated = q.validated /\ q2.writeFailed = q.writeFailed /\ q2.flush = q.flush
        /\ q2.lsns = u
    BY <1>1 DEF QueueRec
  <1> HIDE DEF q2
  <1>3. ClaimsHold(q2, d, G, R, V)
    BY <1>2 DEF NodeInv, ClaimsHold
  <1>4. AnswerHolds(q2, R, V) /\ ValidatedIsRetired(q2, R)
    BY <1>2 DEF NodeInv, AnswerHolds, ValidatedIsRetired
  <1>5. InSequence(q2, d) /\ DiskIsSound(q2, d, R)
    BY <1>2 DEF NodeInv, InSequence, DiskIsSound, Waiting
  <1> QED BY <1>2, <1>3, <1>4, <1>5 DEF NodeInv, q2

\* push_layers: the list that is being filled gets more layers.
LEMMA NodeFills ==
  ASSUME NEW G \in Nat, NEW R, NEW V, NEW q, NEW d, NodeInv(q, d, G, R, V),
         NEW p \in ListRec, p.seq = q.pending.seq, Claim(p, G, R)
  PROVE  NodeInv([q EXCEPT !.pending = p], d, G, R, V)
PROOF
  <1> DEFINE q2 == [q EXCEPT !.pending = p]
  <1>1. q \in QueueRec
    BY DEF NodeInv
  <1>2. /\ q2 \in QueueRec /\ q2.pending = p /\ q2.sent = q.sent
        /\ q2.validated = q.validated /\ q2.writeFailed = q.writeFailed /\ q2.flush = q.flush
        /\ q2.lsns = q.lsns
    BY <1>1 DEF QueueRec
  <1> HIDE DEF q2
  <1>3. ClaimsHold(q2, d, G, R, V)
    BY <1>2 DEF NodeInv, ClaimsHold
  <1>4. AnswerHolds(q2, R, V) /\ ValidatedIsRetired(q2, R)
    BY <1>2 DEF NodeInv, AnswerHolds, ValidatedIsRetired
  <1>5. InSequence(q2, d)
    BY <1>2 DEF NodeInv, InSequence, Before
  <1>6. DiskIsSound(q2, d, R)
    BY <1>2 DEF NodeInv, DiskIsSound, Waiting
  <1> QED BY <1>2, <1>3, <1>4, <1>5, <1>6 DEF NodeInv, q2

\* ListWriter::flush.
LEMMA NodeFlushes ==
  ASSUME NEW G \in Nat, NEW R, NEW V, NEW q, NEW d, NodeInv(q, d, G, R, V), q.pending.objs # {}
  PROVE  /\ NodeInv(Flushed(q), Stored(d, q.pending), G, R, V)
         /\ Flushed(q).pending = List(q.pending.seq + 1, 0, {})
         /\ \A l \in d.lists : l \in Stored(d, q.pending).lists
PROOF
  <1> DEFINE q2 == Flushed(q)
             p == q.pending
             d2 == Stored(d, p)
  <1>1. q \in QueueRec /\ d \in DiskRec /\ q.sent \in Seq(ListRec) /\ p \in ListRec
    BY QueueTypes DEF NodeInv
  <1>2. /\ q2.pending = List(p.seq + 1, 0, {}) /\ q2.sent = Append(q.sent, p)
        /\ q2.validated = q.validated /\ q2.writeFailed = q.writeFailed /\ q2.flush = q.flush
        /\ q2.lsns = q.lsns
    BY <1>1 DEF QueueRec, Flushed
  <1>3. /\ Append(q.sent, p) \in Seq(ListRec) /\ Range(Append(q.sent, p)) = Range(q.sent) \cup {p}
        /\ Increasing(q.sent) /\ Before(Range(q.sent), {p}) => Increasing(Append(q.sent, p))
    BY <1>1, AppendFacts
  <1>4. List(p.seq + 1, 0, {}) \in ListRec /\ p.seq \in Nat
    BY <1>1 DEF ListRec, List
  <1>5. q2 \in QueueRec
    BY <1>1, <1>3, <1>4 DEF QueueRec, Flushed
  <1>6. d2 \in DiskRec /\ d2.header = d.header /\ d2.lists = d.lists \cup {p}
    <2>1. d2 \in DiskRec /\ d2.header = d.header /\ d2.lists = {l \in d.lists : l.seq # p.seq} \cup {p}
      BY <1>1 DEF Stored, DiskRec
    <2>2. \A l \in d.lists : l.seq # p.seq
      <3>1. \A l \in d.lists : l.seq \in Nat /\ l.seq < p.seq
        BY <1>1 DEF NodeInv, InSequence, Before, DiskRec, ListRec
      <3> QED BY <1>4, <3>1
    <2> QED BY <2>1, <2>2
  <1> HIDE DEF q2, d2
  <1>7. Range(q2.sent) = Range(q.sent) \cup {p}
    BY <1>2, <1>3
  <1>8. ClaimsHold(q2, d2, G, R, V)
    <2>1. Claim(q2.pending, G, R)
      BY <1>2 DEF Claim, List
    <2> QED BY <1>2, <1>6, <1>7, <2>1 DEF NodeInv, ClaimsHold
  <1>9. AnswerHolds(q2, R, V) /\ ValidatedIsRetired(q2, R)
    BY <1>2 DEF NodeInv, AnswerHolds, ValidatedIsRetired
  <1>10. InSequence(q2, d2)
    <2>1. q2.pending.seq = p.seq + 1
      BY <1>2 DEF List
    <2>2. Range(q.sent) \subseteq ListRec /\ Range(q.flush.lists) \subseteq ListRec
          /\ Range(q.validated) \subseteq ListRec /\ d.lists \subseteq ListRec /\ d.header \in Nat
      BY <1>1, QueueTypes DEF DiskRec
    <2>3. \A l \in ListRec : l.seq \in Nat /\ (l.seq < p.seq => l.seq < p.seq + 1 /\ l.seq # p.seq)
      BY <1>4 DEF ListRec
    <2>4. p.seq < p.seq + 1 /\ d.header < p.seq + 1
      BY <1>4, <2>2 DEF NodeInv, InSequence
    <2>5. Increasing(q2.sent) /\ Increasing(q2.flush.lists)
      BY <1>2, <1>3 DEF NodeInv, InSequence
    <2>6. \A A \in SUBSET ListRec : Before(A, {p}) => Before(A, {q2.pending})
      BY <2>1, <2>3 DEF Before
    <2>7. /\ Before(Range(q2.validated), {q2.pending}) /\ Before(Range(q2.flush.lists), {q2.pending})
          /\ Before(Range(q.sent), {q2.pending}) /\ Before(d.lists, {q2.pending})
      BY <1>2, <2>2, <2>6 DEF NodeInv, InSequence
    <2>8. Before(Range(q2.sent), {q2.pending}) /\ Before(d2.lists, {q2.pending})
      BY <1>6, <1>7, <2>1, <2>4, <2>7 DEF Before
    <2>9. /\ Before(Range(q2.validated), Range(q2.flush.lists))
          /\ Before(Range(q2.validated), Range(q2.sent))
          /\ Before(Range(q2.flush.lists), Range(q2.sent))
      BY <1>2, <1>7 DEF NodeInv, InSequence, Before
    <2>10. \A l, m \in d2.lists : l.seq = m.seq => l = m
      <3>1. \A l \in d.lists : l.seq # p.seq
        BY <2>2, <2>3 DEF NodeInv, InSequence, Before
      <3> QED BY <1>6, <3>1 DEF NodeInv, InSequence
    <2> QED BY <1>6, <2>1, <2>4, <2>5, <2>7, <2>8, <2>9, <2>10 DEF InSequence
  <1>11. DiskIsSound(q2, d2, R)
    <2>1. \A l \in d.lists : Waiting(q, l) => Waiting(q2, l)
      BY <1>2, <1>7 DEF Waiting
    <2>2. Waiting(q2, p)
      BY <1>7 DEF Waiting
    <2>3. ~(p.seq <= d2.header)
      BY <1>1, <1>4, <1>6 DEF NodeInv, InSequence, DiskRec
    <2>4. \A l \in d2.lists : l.seq <= d2.header => l.objs \subseteq R
      BY <1>6, <2>3 DEF NodeInv, DiskIsSound
    <2>5. \A l \in d2.lists : q2.writeFailed \/ Waiting(q2, l) \/ l.objs \subseteq R
      BY <1>2, <1>6, <2>1, <2>2 DEF NodeInv, DiskIsSound
    <2>6. \A A \in SUBSET ListRec : Before(A, {p}) => Matches(p, A)
      BY <1>4 DEF Before, Matches, ListRec
    <2>7. Matches(p, Range(q2.sent)) /\ Matches(p, Range(q2.flush.lists)) /\ Matches(p, Range(q2.validated))
      <3>1. Matches(p, Range(q.sent)) /\ Matches(p, Range(q.flush.lists)) /\ Matches(p, Range(q.validated))
        BY <1>1, <2>6, QueueTypes DEF NodeInv, InSequence
      <3> QED BY <1>2, <1>7, <3>1 DEF Matches
    <2>8. \A l \in d.lists : Matches(l, {p})
      BY <1>1, <1>4 DEF NodeInv, InSequence, Before, Matches, DiskRec, ListRec
    <2>9. \A l \in d.lists : Matches(l, Range(q.sent)) => Matches(l, Range(q2.sent))
      BY <1>7, <2>8 DEF Matches
    <2>10. \A l \in d2.lists : q2.writeFailed \/ (/\ Matches(l, Range(q2.sent))
                                                  /\ Matches(l, Range(q2.flush.lists))
                                                  /\ Matches(l, Range(q2.validated)))
      BY <1>2, <1>6, <2>7, <2>9 DEF NodeInv, DiskIsSound
    <2> QED BY <2>4, <2>5, <2>10 DEF DiskIsSound
  <1> QED BY <1>2, <1>5, <1>6, <1>8, <1>9, <1>10, <1>11 DEF NodeInv, q2, d2

\* Validator::flush takes the first lists, and asks.
LEMMA NodeAsks ==
  ASSUME NEW G \in Nat, NEW R, NEW V, NEW q, NEW d, NodeInv(q, d, G, R, V), q.flush = Resting,
         NEW k \in 0..Len(q.sent), NEW g \in Nat
  PROVE  NodeInv([q EXCEPT !.lsns = NoLsn, !.sent = SubSeq(q.sent, k + 1, Len(q.sent)),
                           !.flush = [Resting EXCEPT !.step = "asked", !.gen = g,
                                         !.update = q.lsns, !.lists = SubSeq(q.sent, 1, k)]],
                 d, G, R, V)
PROOF
  <1> DEFINE a == SubSeq(q.sent, 1, k)
             b == SubSeq(q.sent, k + 1, Len(q.sent))
             f == [Resting EXCEPT !.step = "asked", !.gen = g, !.update = q.lsns, !.lists = a]
             q2 == [q EXCEPT !.lsns = NoLsn, !.sent = b, !.flush = f]
  <1>1. q \in QueueRec /\ q.sent \in Seq(ListRec) /\ d \in DiskRec
    BY QueueTypes DEF NodeInv
  <1>2. /\ a \in Seq(ListRec) /\ b \in Seq(ListRec) /\ Range(a) \cup Range(b) = Range(q.sent)
        /\ Increasing(q.sent) => Increasing(a) /\ Increasing(b) /\ Before(Range(a), Range(b))
    BY <1>1, SplitFacts
  <1> HIDE DEF a, b
  <1>3. /\ f.step = "asked" /\ f.gen = g /\ f.update = q.lsns /\ f.lists = a /\ f.valid = FALSE
    BY DEF Resting
  <1>4. f \in FlushRec
    BY <1>1, <1>2, QueueTypes DEF Resting, FlushRec, Steps
  <1> HIDE DEF f
  <1>5. NoLsn \in LsnRec /\ NoLsn.gen = 0
    BY DEF NoLsn, LsnRec
  <1>6. /\ q2 \in QueueRec /\ q2.pending = q.pending /\ q2.sent = b /\ q2.validated = q.validated
        /\ q2.writeFailed = q.writeFailed /\ q2.flush = f /\ q2.lsns = NoLsn
    BY <1>1, <1>2, <1>4, <1>5 DEF QueueRec
  <1> HIDE DEF q2
  <1>7. /\ q.flush.lists = <<>> /\ q2.flush.lists = a /\ q2.flush.step = "asked"
        /\ Range(q.sent) = Range(a) \cup Range(b)
    BY <1>2, <1>3, <1>6 DEF Resting
  <1>8. ClaimsHold(q2, d, G, R, V)
    <2>1. LsnClaim(NoLsn, G, V) /\ LsnClaim(q.lsns, G, V)
      <3>1. ClaimsHold(q, d, G, R, V) /\ LsnClaim(q.flush.update, G, V) /\ q.flush.update = NoLsn
        BY DEF NodeInv, ClaimsHold, Resting
      <3> QED BY <3>1 DEF ClaimsHold
    <2> QED BY <1>3, <1>6, <1>7, <2>1 DEF NodeInv, ClaimsHold
  <1>9. AnswerHolds(q2, R, V) /\ ValidatedIsRetired(q2, R)
    BY <1>6, <1>7 DEF NodeInv, AnswerHolds, ValidatedIsRetired
  <1>10. InSequence(q2, d)
    <2>1. Increasing(a) /\ Increasing(b) /\ Before(Range(a), Range(b))
      BY <1>2 DEF NodeInv, InSequence
    <2>2. \A A \in SUBSET Range(q.sent) : /\ \A B : Before(B, Range(q.sent)) => Before(B, A)
                                          /\ \A B : Before(Range(q.sent), B) => Before(A, B)
      BY DEF Before
    <2>3. Range(a) \in SUBSET Range(q.sent) /\ Range(b) \in SUBSET Range(q.sent)
      BY <1>7
    <2>4. /\ Before(Range(q.validated), Range(a)) /\ Before(Range(q.validated), Range(b))
          /\ Before(Range(a), {q.pending}) /\ Before(Range(b), {q.pending})
      BY <2>2, <2>3 DEF NodeInv, InSequence
    <2> QED BY <1>6, <1>7, <2>1, <2>4 DEF NodeInv, InSequence
  <1>11. DiskIsSound(q2, d, R)
    <2>1. \A l \in d.lists : Waiting(q, l) => Waiting(q2, l)
      <3>1. \A l \in d.lists : Waiting(q, l) => \E m \in Range(q.sent) : m.seq = l.seq
        BY DEF Waiting, Resting
      <3> QED BY <1>6, <1>7, <3>1 DEF Waiting
    <2>2. \A l \in d.lists : Matches(l, Range(q.sent)) => Matches(l, Range(a)) /\ Matches(l, Range(b))
      BY <1>7 DEF Matches
    <2> QED BY <1>6, <1>7, <2>1, <2>2 DEF NodeInv, DiskIsSound
  <1> QED BY <1>6, <1>8, <1>9, <1>10, <1>11 DEF NodeInv, q2, f, a, b

\* The controller's answer: valid means that no other generation has been issued.
LEMMA NodeHears ==
  ASSUME NEW G \in Nat, NEW R, NEW V, NEW q, NEW d, NodeInv(q, d, G, R, V),
         q.flush.step = "asked", NEW v \in BOOLEAN, v => q.flush.gen = G
  PROVE  NodeInv([q EXCEPT !.flush.step = "answered", !.flush.valid = v], d, G, R, V)
PROOF
  <1> DEFINE f == [q.flush EXCEPT !.step = "answered", !.valid = v]
             q2 == [q EXCEPT !.flush.step = "answered", !.flush.valid = v]
  <1>1. q \in QueueRec /\ d \in DiskRec /\ q.flush \in FlushRec
    BY QueueTypes DEF NodeInv
  <1>2. /\ q2.pending = q.pending /\ q2.sent = q.sent /\ q2.validated = q.validated
        /\ q2.writeFailed = q.writeFailed /\ q2.lsns = q.lsns
        /\ q2.flush = f
    BY <1>1 DEF QueueRec
  <1>3. f \in FlushRec
    BY <1>1 DEF FlushRec, Steps
  <1>4. q2 \in QueueRec
    BY <1>1, <1>3 DEF QueueRec
  <1>11. /\ f.lists = q.flush.lists /\ f.update = q.flush.update
         /\ f.gen = q.flush.gen /\ f.step = "answered" /\ f.valid = v
    BY <1>1 DEF FlushRec
  <1> HIDE DEF f, q2
  <1>5. /\ q2.flush.lists = q.flush.lists /\ q2.flush.update = q.flush.update
        /\ q2.flush.gen = q.flush.gen /\ q2.flush.step = "answered" /\ q2.flush.valid = v
    BY <1>2, <1>11
  <1>6. ClaimsHold(q2, d, G, R, V)
    BY <1>2, <1>5 DEF NodeInv, ClaimsHold
  <1>7. AnswerHolds(q2, R, V)
    <2> SUFFICES ASSUME v PROVE AnswerHolds(q2, R, V)
      BY <1>5 DEF AnswerHolds
    <2>1. q.flush.gen = G
      OBVIOUS
    <2> QED BY <1>5, <2>1 DEF NodeInv, ClaimsHold, Claim, LsnClaim, AnswerHolds
  <1>8. ValidatedIsRetired(q2, R)
    BY <1>2, <1>5 DEF NodeInv, ValidatedIsRetired
  <1>9. InSequence(q2, d)
    BY <1>2, <1>5 DEF NodeInv, InSequence
  <1>10. DiskIsSound(q2, d, R)
    <2>1. \A l \in d.lists : Waiting(q, l) => Waiting(q2, l)
      BY <1>2, <1>5 DEF Waiting
    <2> QED BY <1>2, <1>5, <2>1 DEF NodeInv, DiskIsSound
  <1> QED BY <1>4, <1>6, <1>7, <1>8, <1>9, <1>10 DEF NodeInv, q2

\* A flush begins or ends with nothing to validate.
LEMMA NodeRests ==
  ASSUME NEW G \in Nat \ {0}, NEW R, NEW V, NEW q, NEW d, NodeInv(q, d, G, R, V),
         q.flush.step \in {"idle", "validated"}, NEW f \in FlushRec,
         f.step \in {"idle", "validated"}, f.lists = <<>>, f.update = NoLsn
  PROVE  NodeInv([q EXCEPT !.flush = f], d, G, R, V)
PROOF
  <1> DEFINE q2 == [q EXCEPT !.flush = f]
  <1>1. q \in QueueRec /\ d \in DiskRec
    BY DEF NodeInv
  <1>2. /\ q2 \in QueueRec /\ q2.pending = q.pending /\ q2.sent = q.sent
        /\ q2.validated = q.validated /\ q2.writeFailed = q.writeFailed /\ q2.lsns = q.lsns
        /\ q2.flush = f
    BY <1>1 DEF QueueRec
  <1> HIDE DEF q2
  <1>3. q.flush.lists = <<>> /\ q2.flush.lists = <<>>
    BY <1>2 DEF NodeInv, ValidatedIsRetired
  <1>4. ClaimsHold(q2, d, G, R, V)
    <2>1. LsnClaim(NoLsn, G, V)
      BY DEF LsnClaim, NoLsn
    <2> QED BY <1>2, <1>3, <2>1 DEF NodeInv, ClaimsHold
  <1>5. AnswerHolds(q2, R, V) /\ ValidatedIsRetired(q2, R)
    BY <1>2, <1>3 DEF NodeInv, AnswerHolds, ValidatedIsRetired
  <1>6. InSequence(q2, d)
    BY <1>2, <1>3 DEF NodeInv, InSequence
  <1>7. DiskIsSound(q2, d, R)
    <2>1. \A l \in d.lists : Waiting(q, l) => Waiting(q2, l)
      BY <1>2, <1>3 DEF Waiting
    <2> QED BY <1>2, <1>3, <2>1 DEF NodeInv, DiskIsSound
  <1> QED BY <1>2, <1>4, <1>5, <1>6, <1>7 DEF NodeInv, q2

\* validate() turns q and d into q2 and d2; the lists of failed could not be saved.
Trims(q, d, t, stale, failed, q2, d2) ==
  /\ t = [i \in DOMAIN q.flush.lists |-> Trimmed(q.flush, q.flush.lists[i])]
  /\ stale = {i \in DOMAIN q.flush.lists : t[i] # q.flush.lists[i]}
  /\ d2 = [d EXCEPT !.lists = {l \in d.lists : \A i \in stale \ failed : l.seq # t[i].seq}
                                 \cup {t[i] : i \in stale \ failed}]
  /\ q2 = [q EXCEPT !.flush.lists = t, !.writeFailed = q.writeFailed \/ failed # {},
                    !.flush.step = IF q.flush.lists = <<>> THEN "validated" ELSE "header"]

\* Validator::validate: stale deletions go, from memory and, unless saving fails, from disk.
LEMMA NodeTrims ==
  ASSUME NEW G \in Nat, NEW R, NEW V, NEW q, NEW d, NodeInv(q, d, G, R, V),
         q.flush.step = "answered", NEW t, NEW stale, NEW failed \in SUBSET stale,
         NEW q2, NEW d2, Trims(q, d, t, stale, failed, q2, d2)
  PROVE  /\ NodeInv(q2, d2, G, R, V)
         /\ \A l \in d.lists : \E m \in d2.lists : m.seq = l.seq
PROOF
  <1>0. /\ t = [i \in DOMAIN q.flush.lists |-> Trimmed(q.flush, q.flush.lists[i])]
        /\ stale = {i \in DOMAIN q.flush.lists : t[i] # q.flush.lists[i]}
        /\ d2 = [d EXCEPT !.lists = {l \in d.lists : \A i \in stale \ failed : l.seq # t[i].seq}
                                       \cup {t[i] : i \in stale \ failed}]
        /\ q2 = [q EXCEPT !.flush.lists = t, !.writeFailed = q.writeFailed \/ failed # {},
                          !.flush.step = IF q.flush.lists = <<>> THEN "validated" ELSE "header"]
    BY DEF Trims
  <1> DEFINE s == q.flush.lists
             w == stale \ failed
             step == IF q.flush.lists = <<>> THEN "validated" ELSE "header"
             f == [q.flush EXCEPT !.lists = t, !.step = step]
  <1>1. q \in QueueRec /\ d \in DiskRec /\ q.flush \in FlushRec /\ s \in Seq(ListRec)
        /\ Range(s) \subseteq ListRec
    BY QueueTypes DEF NodeInv
  <1>2. DOMAIN s = 1..Len(s) /\ \A i \in DOMAIN s : s[i] \in ListRec /\ s[i] \in Range(s)
    BY <1>1, RangeFacts, SMTT(60)
  <1>3. \A i \in DOMAIN s : t[i] = Trimmed(q.flush, s[i])
    BY <1>0
  <1>4. \A l \in ListRec : /\ Trimmed(q.flush, l) \in ListRec /\ Trimmed(q.flush, l).seq = l.seq
                           /\ Trimmed(q.flush, l).gen = l.gen
                           /\ \/ Trimmed(q.flush, l).objs = {}
                              \/ (q.flush.valid /\ l.gen = q.flush.gen /\ Trimmed(q.flush, l) = l)
    BY DEF Trimmed, ListRec
  <1>5. /\ t \in [DOMAIN s -> ListRec]
        /\ \A i \in DOMAIN s : t[i].seq = s[i].seq /\ t[i].gen = s[i].gen
    <2>1. t = [i \in DOMAIN s |-> t[i]]
      BY <1>0
    <2> QED BY <1>2, <1>3, <1>4, <2>1
  <1>6. /\ t \in Seq(ListRec) /\ Len(t) = Len(s) /\ DOMAIN s = 1..Len(s)
        /\ Increasing(s) => Increasing(t)
        /\ \A i \in 1..Len(s) : s[i] \in Range(s) /\ t[i] \in Range(t) /\ t[i].seq = s[i].seq
        /\ \A x \in Range(t) : \E i \in 1..Len(s) : x = t[i]
        /\ \A x \in Range(s) : \E i \in 1..Len(s) : x = s[i]
    <2>1. \A i \in DOMAIN s : t[i].seq = s[i].seq
      BY <1>5
    <2>2. t \in [DOMAIN s -> ListRec] /\ s \in Seq(ListRec)
      BY <1>1, <1>5
    <2> HIDE DEF s
    <2> QED BY <2>1, <2>2, SameNumbers, Zenon
  <1>27. StandsFor(t, s)
    <2>1. \A i \in DOMAIN s : t[i].seq = s[i].seq
      BY <1>5
    <2>2. t \in [DOMAIN s -> ListRec] /\ s \in Seq(ListRec)
      BY <1>1, <1>5
    <2> HIDE DEF s
    <2> QED BY <2>1, <2>2, SamePlaces, Zenon
  <1>7. \A i \in 1..Len(s) : t[i].objs \subseteq R
    <2>1. q.flush.valid => \A l \in Range(s) : l.gen = q.flush.gen => l.objs \subseteq R
      BY DEF NodeInv, AnswerHolds
    <2> QED BY <1>2, <1>3, <1>4, <2>1
  <1>8. \A i \in 1..Len(s) : Claim(t[i], G, R)
    <2>1. \A i \in 1..Len(s) : t[i].gen <= G
      BY <1>2, <1>5, SMTT(60) DEF NodeInv, ClaimsHold, Claim
    <2> QED BY <1>7, <2>1 DEF Claim
  <1>9. /\ stale \subseteq 1..Len(s) /\ w \subseteq stale
        /\ \A i \in 1..Len(s) : i \notin stale => t[i] = s[i]
    BY <1>0, <1>2
  <1>10. t = <<>> <=> s = <<>>
    BY <1>27, Zenon DEF StandsFor
  <1> HIDE DEF w, step
  <1>11. step \in {"validated", "header"} /\ (step = "validated" => t = <<>>)
         /\ (step = "header" => t # <<>>)
    BY <1>10 DEF step
  <1>12. f \in FlushRec /\ f.lists = t /\ f.step = step /\ f.update = q.flush.update
    BY <1>1, <1>6, <1>11 DEF FlushRec, Steps
  <1>13. /\ q2.pending = q.pending /\ q2.sent = q.sent /\ q2.validated = q.validated
         /\ q2.lsns = q.lsns /\ q2.flush = f
    BY <1>0, <1>1 DEF QueueRec, f, step
  <1>14. q2.writeFailed <=> q.writeFailed \/ failed # {}
    BY <1>0, <1>1 DEF QueueRec
  <1> HIDE DEF f
  <1>15. q2 \in QueueRec
    <2>1. q2 = [q EXCEPT !.flush = f, !.writeFailed = q.writeFailed \/ failed # {}]
      BY <1>0, <1>1 DEF QueueRec, f, step
    <2>2. (q.writeFailed \/ failed # {}) \in BOOLEAN
      OBVIOUS
    <2> QED BY <1>1, <1>12, <2>1, <2>2 DEF QueueRec
  <1>16. /\ d2.header = d.header /\ d2 \in DiskRec
         /\ d2.lists = {l \in d.lists : \A i \in w : l.seq # t[i].seq} \cup {t[i] : i \in w}
    <2>1. {t[i] : i \in stale \ failed} \subseteq ListRec
      <3>1. \A i \in stale \ failed : i \in DOMAIN s
        BY <1>6, <1>9
      <3>2. \A i \in DOMAIN s : t[i] \in ListRec
        BY <1>5
      <3> QED BY <3>1, <3>2
    <2> QED BY <1>0, <1>1, <2>1 DEF DiskRec, w
  <1>17. /\ \A l \in d2.lists : \/ (l \in d.lists /\ \A i \in w : l.seq # t[i].seq)
                                \/ \E i \in w : l = t[i]
         /\ \A l \in d.lists : l \in d2.lists \/ \E i \in w : l.seq = t[i].seq
         /\ \A i \in w : t[i] \in d2.lists /\ i \in 1..Len(s)
    BY <1>9, <1>16
  <1>18. q2.flush.lists = t /\ q2.flush.step = step /\ q2.flush.update = q.flush.update
    BY <1>12, <1>13
  <1> HIDE DEF s
  <1>19. ClaimsHold(q2, d2, G, R, V)
    <2>1. \A l \in d2.lists : Claim(l, G, R)
      BY <1>8, <1>17 DEF NodeInv, ClaimsHold
    <2>2. ASSUME NEW l \in Range(t) PROVE Claim(l, G, R)
      <3>1. \E i \in 1..Len(s) : l = t[i]
        BY <1>6, Zenon
      <3> QED BY <1>8, <3>1, Zenon
    <2> QED BY <1>13, <1>18, <2>1, <2>2 DEF NodeInv, ClaimsHold
  <1>20. AnswerHolds(q2, R, V)
    BY <1>11, <1>18 DEF AnswerHolds
  <1>21. ValidatedIsRetired(q2, R)
    <2>1. ASSUME NEW l \in Range(t) PROVE l.objs \subseteq R
      <3>1. \E i \in 1..Len(s) : l = t[i]
        BY <1>6, Zenon
      <3> QED BY <1>7, <3>1, Zenon
    <2> QED BY <1>11, <1>13, <1>18, <2>1 DEF NodeInv, ValidatedIsRetired
  <1>22. Increasing(t) /\ \A i, j \in 1..Len(s) : t[i].seq = t[j].seq => i = j
    <2>1. Increasing(s)
      BY DEF NodeInv, InSequence, s
    <2> QED BY <1>6, <1>27, <2>1, Zenon DEF StandsFor
  <1>23. /\ \A B : Before(B, Range(s)) => Before(B, Range(t))
         /\ \A B : Before(Range(s), B) => Before(Range(t), B)
    BY <1>27, Zenon DEF StandsFor
  <1>24. InSequence(q2, d2)
    <2>1. /\ Before(Range(q.validated), Range(t)) /\ Before(Range(t), Range(q.sent))
          /\ Before(Range(t), {q.pending})
      BY <1>23 DEF NodeInv, InSequence, s
    <2>2. Before(d2.lists, {q.pending})
      <3>1. \A l \in d.lists : l.seq < q.pending.seq
        BY DEF NodeInv, InSequence, Before
      <3>2. \A i \in w : t[i].seq < q.pending.seq
        BY <1>6, <1>17, <2>1 DEF Before
      <3> QED BY <1>17, <3>1, <3>2 DEF Before
    <2>3. \A l, m \in d2.lists : l.seq = m.seq => l = m
      <3> SUFFICES ASSUME NEW l \in d2.lists, NEW m \in d2.lists, l.seq = m.seq PROVE l = m
        OBVIOUS
      <3>1. CASE \E i \in w : l = t[i]
        <4>1. PICK i \in w : l = t[i]
          BY <3>1
        <4>2. ~(\A k \in w : m.seq # t[k].seq)
          BY <4>1
        <4>3. PICK j \in w : m = t[j]
          BY <1>17, <4>2
        <4> QED BY <1>17, <1>22, <4>1, <4>3
      <3>2. CASE l \in d.lists /\ \A i \in w : l.seq # t[i].seq
        <4>1. ~(\E i \in w : m = t[i])
          BY <3>2
        <4>2. m \in d.lists
          BY <1>17, <4>1
        <4> QED BY <3>2, <4>2 DEF NodeInv, InSequence
      <3> QED BY <1>17, <3>1, <3>2
    <2> QED BY <1>13, <1>16, <1>18, <1>22, <2>1, <2>2, <2>3 DEF NodeInv, InSequence
  <1>25. DiskIsSound(q2, d2, R)
    <2>1. \A l \in d2.lists : l.seq <= d2.header => l.objs \subseteq R
      BY <1>7, <1>16, <1>17 DEF NodeInv, DiskIsSound
    <2>2. ASSUME ~q2.writeFailed PROVE ~q.writeFailed /\ w = stale
      BY <1>14, <2>2 DEF w
    <2>3. ASSUME NEW l \in d2.lists, ~q2.writeFailed PROVE Waiting(q2, l) \/ l.objs \subseteq R
      <3>1. CASE \E i \in w : l = t[i]
        BY <1>7, <1>17, <3>1
      <3>2. CASE l \in d.lists /\ \A i \in w : l.seq # t[i].seq
        <4>1. Waiting(q, l) \/ l.objs \subseteq R
          BY <2>2, <2>3, <3>2 DEF NodeInv, DiskIsSound
        <4>2. CASE \E m \in Range(q.sent) : m.seq = l.seq
          BY <1>13, <4>2 DEF Waiting
        <4>3. CASE \E m \in Range(s) : m.seq = l.seq
          <5>0. PICK m \in Range(s) : m.seq = l.seq
            BY <4>3
          <5>4. \E i \in 1..Len(s) : m = s[i]
            BY <1>6, <5>0, Zenon
          <5>1. PICK i \in 1..Len(s) : s[i].seq = l.seq
            BY <5>0, <5>4
          <5>2. i \notin stale /\ t[i] = s[i]
            <6>1. i \notin w /\ w = stale
              BY <1>6, <2>2, <2>3, <3>2, <5>1
            <6> QED BY <1>9, <6>1
          <5>3. s[i].objs = l.objs
            BY <1>6, <2>2, <2>3, <3>2, <5>1 DEF NodeInv, DiskIsSound, Matches, s
          <5> QED BY <1>7, <5>2, <5>3
        <4> QED BY <4>1, <4>2, <4>3 DEF Waiting, s
      <3> QED BY <1>17, <3>1, <3>2
    <2>4. ASSUME NEW l \in d2.lists, ~q2.writeFailed
          PROVE  Matches(l, Range(q.sent)) /\ Matches(l, Range(t)) /\ Matches(l, Range(q.validated))
      <3>1. CASE \E i \in w : l = t[i]
        <4>1. PICK i \in w : l = t[i]
          BY <3>1
        <4>2. Matches(l, Range(t))
          <5> SUFFICES ASSUME NEW m \in Range(t), m.seq = l.seq PROVE m.objs = l.objs
            BY DEF Matches
          <5>1. PICK j \in 1..Len(s) : m = t[j]
            BY <1>6
          <5>2. i = j
            BY <1>17, <1>22, <4>1, <5>1
          <5> QED BY <4>1, <5>1, <5>2
        <4>3. /\ Before(Range(q.validated), Range(t)) /\ Before(Range(t), Range(q.sent))
              /\ t[i] \in Range(t)
          BY <1>6, <1>17, <1>23 DEF NodeInv, InSequence, s
        <4>4. /\ Range(q.validated) \subseteq ListRec /\ Range(q.sent) \subseteq ListRec
              /\ \A x \in ListRec : x.seq \in Nat /\ ~(x.seq < x.seq)
          BY <1>1, QueueTypes DEF ListRec
        <4>5. \A m \in Range(q.sent) : m.seq # t[i].seq
          BY <4>3, <4>4 DEF Before
        <4>6. \A m \in Range(q.validated) : m.seq # t[i].seq
          BY <4>3, <4>4 DEF Before
        <4> QED BY <4>1, <4>2, <4>5, <4>6 DEF Matches
      <3>2. CASE l \in d.lists /\ \A i \in w : l.seq # t[i].seq
        <4>1. Matches(l, Range(q.sent)) /\ Matches(l, Range(s)) /\ Matches(l, Range(q.validated))
          BY <2>2, <2>4, <3>2 DEF NodeInv, DiskIsSound, s
        <4>2. ASSUME NEW m \in Range(t), m.seq = l.seq PROVE m.objs = l.objs
          <5>1. PICK i \in 1..Len(s) : m = t[i]
            BY <1>6
          <5>2. t[i] = s[i]
            BY <1>9, <2>2, <2>4, <3>2, <4>2, <5>1
          <5> QED BY <1>6, <4>1, <4>2, <5>1, <5>2 DEF Matches
        <4> QED BY <4>1, <4>2 DEF Matches
      <3> QED BY <1>17, <3>1, <3>2
    <2> QED BY <1>13, <1>18, <2>1, <2>3, <2>4 DEF DiskIsSound
  <1>26. \A l \in d.lists : \E m \in d2.lists : m.seq = l.seq
    BY <1>17
  <1> QED BY <1>15, <1>16, <1>19, <1>20, <1>21, <1>24, <1>25, <1>26 DEF NodeInv

\* The header is saved, unless a list could not be, and the lists are handed to the deleter.
Validates(q, d, q2, d2) ==
  /\ q2 = [q EXCEPT !.flush.lists = <<>>, !.validated = q.validated \o q.flush.lists,
                    !.flush.step = "validated"]
  /\ \/ d2 = d
     \/ ~q.writeFailed /\ d2 = [d EXCEPT !.header = Last(q.flush.lists).seq]

\* SaveHeader on one node: what the header covers has been validated.
LEMMA NodeValidates ==
  ASSUME NEW G \in Nat, NEW R, NEW V, NEW q, NEW d, NodeInv(q, d, G, R, V),
         q.flush.step = "header", NEW q2, NEW d2, Validates(q, d, q2, d2)
  PROVE  NodeInv(q2, d2, G, R, V) /\ d2.lists = d.lists
PROOF
  <1> SUFFICES ASSUME
        q2 = [q EXCEPT !.flush.lists = <<>>, !.validated = q.validated \o q.flush.lists,
                       !.flush.step = "validated"],
        \/ d2 = d
        \/ ~q.writeFailed /\ d2 = [d EXCEPT !.header = Last(q.flush.lists).seq]
      PROVE  NodeInv(q2, d2, G, R, V) /\ d2.lists = d.lists
    BY DEF Validates
  <1> DEFINE s == q.flush.lists
             f == [q.flush EXCEPT !.lists = <<>>, !.step = "validated"]
             c == q.validated \o s
  <1>1. q \in QueueRec /\ d \in DiskRec /\ q.flush \in FlushRec /\ s \in Seq(ListRec)
        /\ Range(s) \subseteq ListRec /\ q.validated \in Seq(ListRec) /\ s # <<>>
    BY QueueTypes DEF NodeInv, ValidatedIsRetired
  <1>2. c \in Seq(ListRec) /\ Range(c) = Range(q.validated) \cup Range(s)
    BY <1>1, ConcatFacts
  <1>3. <<>> \in Seq(ListRec) /\ Range(<<>>) = {} /\ Increasing(<<>>)
    <2>1. <<>> \in Seq(ListRec) /\ Len(<<>>) = 0
      BY EmptySeq
    <2> QED BY <2>1, RangeFacts DEF Increasing
  <1>4. f \in FlushRec /\ f.lists = <<>> /\ f.step = "validated" /\ f.update = q.flush.update
    BY <1>1, <1>3 DEF FlushRec, Steps
  <1> HIDE DEF c
  <1>5. /\ q2.pending = q.pending /\ q2.sent = q.sent /\ q2.validated = c
        /\ q2.writeFailed = q.writeFailed /\ q2.lsns = q.lsns /\ q2.flush = f
    BY <1>1 DEF QueueRec, c
  <1> HIDE DEF f
  <1>6. q2 \in QueueRec
    <2>1. q2 = [q EXCEPT !.flush = f, !.validated = c]
      BY <1>1 DEF QueueRec, f, c
    <2> QED BY <1>1, <1>2, <1>4, <2>1 DEF QueueRec
  <1>7. /\ Last(s) \in Range(s) /\ Last(s).seq \in Nat
    BY <1>1, TailFacts DEF ListRec
  <1>8. /\ d2 \in DiskRec /\ d2.lists = d.lists
        /\ d2.header = d.header \/ (~q.writeFailed /\ d2.header = Last(s).seq)
    BY <1>1, <1>7 DEF DiskRec
  <1> HIDE DEF s
  <1>9. q2.flush.lists = <<>> /\ q2.flush.step = "validated" /\ q2.flush.update = q.flush.update
    BY <1>4, <1>5
  <1>10. ClaimsHold(q2, d2, G, R, V)
    BY <1>3, <1>5, <1>8, <1>9 DEF NodeInv, ClaimsHold
  <1>11. AnswerHolds(q2, R, V) /\ ValidatedIsRetired(q2, R)
    BY <1>2, <1>3, <1>5, <1>9 DEF NodeInv, AnswerHolds, ValidatedIsRetired, s
  <1>12. InSequence(q2, d2)
    <2>1. Before(Range(c), Range(q.sent)) /\ Before(Range(c), {q.pending})
      BY <1>2 DEF NodeInv, InSequence, Before, s
    <2>2. d2.header < q.pending.seq
      BY <1>7, <1>8 DEF NodeInv, InSequence, Before, s
    <2> QED BY <1>3, <1>5, <1>8, <1>9, <2>1, <2>2 DEF NodeInv, InSequence, Before
  <1>13. DiskIsSound(q2, d2, R)
    <2>1. \A l \in d.lists : Waiting(q, l) => \E m \in Range(q.sent) : m.seq = l.seq
      BY DEF Waiting
    <2>2. \A l \in d.lists : Waiting(q, l) => Waiting(q2, l)
      BY <1>5, <2>1 DEF Waiting
    <2>3. ASSUME NEW l \in d.lists, l.seq <= d2.header PROVE l.objs \subseteq R
      <3>1. CASE d2.header = d.header
        BY <2>3, <3>1 DEF NodeInv, DiskIsSound
      <3>2. CASE ~q.writeFailed /\ d2.header = Last(s).seq
        <4>1. ASSUME NEW m \in Range(q.sent) PROVE m.seq # l.seq
          <5>1. Last(s).seq < m.seq
            BY <1>7 DEF NodeInv, InSequence, Before, s
          <5>2. m.seq \in Nat /\ l.seq \in Nat
            BY <1>1, QueueTypes DEF DiskRec, ListRec
          <5> QED BY <1>7, <2>3, <3>2, <5>1, <5>2
        <4>2. ~Waiting(q, l)
          BY <2>1, <4>1
        <4> QED BY <3>2, <4>2 DEF NodeInv, DiskIsSound
      <3> QED BY <1>8, <3>1, <3>2
    <2>4. \A l \in d.lists : Matches(l, Range(s)) /\ Matches(l, Range(q.validated)) => Matches(l, Range(c))
      BY <1>2 DEF Matches
    <2>5. \A l : Matches(l, {})
      BY DEF Matches
    <2> QED BY <1>3, <1>5, <1>8, <1>9, <2>2, <2>3, <2>4, <2>5 DEF NodeInv, DiskIsSound, s
  <1> QED BY <1>6, <1>8, <1>10, <1>11, <1>12, <1>13 DEF NodeInv

\* cleanup_lists removes the file of the first executed list.
LEMMA NodeCleans ==
  ASSUME NEW G \in Nat, NEW R, NEW V, NEW q, NEW d, NodeInv(q, d, G, R, V),
         q.validated # <<>>
  PROVE  NodeInv([q EXCEPT !.validated = Tail(q.validated)],
                 [d EXCEPT !.lists = {l \in d.lists : l.seq # Head(q.validated).seq}], G, R, V)
PROOF
  <1> DEFINE q2 == [q EXCEPT !.validated = Tail(q.validated)]
             d2 == [d EXCEPT !.lists = {l \in d.lists : l.seq # Head(q.validated).seq}]
  <1>1. q \in QueueRec /\ d \in DiskRec /\ q.validated \in Seq(ListRec)
    BY QueueTypes DEF NodeInv
  <1>2. Tail(q.validated) \in Seq(ListRec) /\ Range(Tail(q.validated)) \subseteq Range(q.validated)
    BY <1>1, TailFacts
  <1>3. /\ q2 \in QueueRec /\ q2.pending = q.pending /\ q2.sent = q.sent
        /\ q2.validated = Tail(q.validated) /\ q2.writeFailed = q.writeFailed
        /\ q2.lsns = q.lsns /\ q2.flush = q.flush
    BY <1>1, <1>2 DEF QueueRec
  <1>4. d2 \in DiskRec /\ d2.header = d.header /\ d2.lists \subseteq d.lists
    BY <1>1 DEF DiskRec
  <1> HIDE DEF q2, d2
  <1>5. ClaimsHold(q2, d2, G, R, V)
    BY <1>3, <1>4 DEF NodeInv, ClaimsHold
  <1>6. AnswerHolds(q2, R, V) /\ ValidatedIsRetired(q2, R)
    BY <1>2, <1>3 DEF NodeInv, AnswerHolds, ValidatedIsRetired
  <1>7. InSequence(q2, d2)
    BY <1>2, <1>3, <1>4 DEF NodeInv, InSequence, Before
  <1>8. DiskIsSound(q2, d2, R)
    <2>1. \A l \in d2.lists : Waiting(q, l) => Waiting(q2, l)
      BY <1>3 DEF Waiting
    <2>2. \A l \in d2.lists : Matches(l, Range(q.validated)) => Matches(l, Range(q2.validated))
      BY <1>2, <1>3 DEF Matches
    <2> QED BY <1>3, <1>4, <2>1, <2>2 DEF NodeInv, DiskIsSound
  <1> QED BY <1>3, <1>4, <1>5, <1>6, <1>7, <1>8 DEF NodeInv, q2, d2

\* The next number is beyond the header and every list on disk.
LEMMA NextSequenceFacts ==
  ASSUME NEW d \in DiskRec, NEW b \in Nat, d.header < b, \A l \in d.lists : l.seq < b
  PROVE  /\ NextSequence(d) \in Nat /\ d.header < NextSequence(d)
         /\ \A l \in d.lists : l.seq < NextSequence(d)
PROOF
  <1> DEFINE S == {d.header} \cup {l.seq : l \in d.lists}
  <1>1. d.header \in Nat /\ \A l \in d.lists : l.seq \in Nat
    BY DEF DiskRec, ListRec
  <1>2. S \in SUBSET Nat /\ \A x \in S : x <= b
    BY <1>1
  <1>4. d.header \in S /\ \A l \in d.lists : l.seq \in S
    OBVIOUS
  <1> HIDE DEF S
  <1>3. IsFiniteSet(S) /\ S \subseteq Int /\ S # {}
    <2>1. IsFiniteSet(S)
      BY <1>2, FS_BoundedSetOfNaturals
    <2> QED BY <1>2, <1>4, <2>1
  <1>5. Max(S) \in S /\ \A y \in S : Max(S) >= y
    BY <1>3, MaxProperties
  <1>6. NextSequence(d) = Max(S) + 1
    BY DEF NextSequence, S
  <1>7. Max(S) \in Nat /\ d.header <= Max(S) /\ \A l \in d.lists : l.seq <= Max(S)
    BY <1>1, <1>2, <1>4, <1>5
  <1> QED BY <1>1, <1>6, <1>7

\* ListWriter::recover after a crash at any point.  With a generation that follows the latest
\* one directly, lists of the latter remain valid.
LEMMA NodeRecovers ==
  ASSUME NEW G \in Nat \ {0}, NEW R, NEW V, NEW q, NEW d, NodeInv(q, d, G, R, V),
         NEW g \in Nat, NEW G2 \in Nat, (g = 0 /\ G2 = G) \/ (g = G + 1 /\ G2 = g)
  PROVE  NodeInv(Recovered(d, g), d, G2, R, V)
PROOF
  <1> DEFINE D1 == {l \in d.lists : l.seq <= d.header}
             D2 == {l \in d.lists : l.seq > d.header}
             old == InOrder(D1)
             new == InOrder(D2)
             sent == [i \in DOMAIN new |-> Regenerated(new[i], g)]
             p == List(NextSequence(d), 0, {})
             q2 == Recovered(d, g)
  <1>1. q \in QueueRec /\ d \in DiskRec /\ d.lists \subseteq ListRec /\ d.header \in Nat
        /\ q.pending.seq \in Nat
    BY QueueTypes DEF NodeInv, DiskRec, ListRec
  <1>2. /\ d.header < q.pending.seq /\ \A l \in d.lists : l.seq < q.pending.seq
        /\ \A l, m \in d.lists : l.seq = m.seq => l = m
    BY DEF NodeInv, InSequence, Before
  <1>3. /\ NextSequence(d) \in Nat /\ d.header < NextSequence(d)
        /\ \A l \in d.lists : l.seq < NextSequence(d)
    BY <1>1, <1>2, NextSequenceFacts
  <1>4. old \in Seq(D1) /\ Range(old) = D1 /\ Increasing(old)
    <2>1. D1 \subseteq ListRec /\ (\A l \in D1 : l.seq < q.pending.seq)
          /\ \A l, m \in D1 : l.seq = m.seq => l = m
      BY <1>1, <1>2
    <2> HIDE DEF D1
    <2> QED BY <1>1, <2>1, InOrderFacts
  <1>5. new \in Seq(D2) /\ Range(new) = D2 /\ Increasing(new)
    <2>1. D2 \subseteq ListRec /\ (\A l \in D2 : l.seq < q.pending.seq)
          /\ \A l, m \in D2 : l.seq = m.seq => l = m
      BY <1>1, <1>2
    <2> HIDE DEF D2
    <2> QED BY <1>1, <2>1, InOrderFacts
  <1>6. /\ D1 \subseteq ListRec /\ D2 \subseteq ListRec /\ D1 \cup D2 = d.lists
        /\ Before(D1, D2)
    <2>1. \A l \in d.lists : l.seq \in Nat
      BY <1>1 DEF ListRec
    <2> QED BY <1>1, <2>1 DEF Before
  <1>7. old \in Seq(ListRec) /\ new \in Seq(ListRec)
    BY <1>4, <1>5, <1>6, SeqMonotonic
  <1>8. \A l \in ListRec : /\ Regenerated(l, g) \in ListRec /\ Regenerated(l, g).seq = l.seq
                           /\ Regenerated(l, g).objs = l.objs
                           /\ Regenerated(l, g).gen = IF g # 0 /\ g - 1 = l.gen THEN g ELSE l.gen
    BY DEF Regenerated, ListRec
  <1> HIDE DEF D1, D2, old, new
  <1>9. /\ sent \in [DOMAIN new -> ListRec]
        /\ \A i \in DOMAIN new : sent[i] = Regenerated(new[i], g) /\ new[i] \in ListRec
        /\ \A i \in DOMAIN new : sent[i].seq = new[i].seq
    <2>1. \A i \in DOMAIN new : new[i] \in ListRec
      BY <1>7, RangeFacts
    <2> QED BY <1>8, <2>1
  <1> HIDE DEF sent
  <1>10. /\ sent \in Seq(ListRec) /\ Increasing(sent)
         /\ \A x \in Range(sent) : \E l \in D2 : x = Regenerated(l, g)
         /\ \A l \in D2 : Regenerated(l, g) \in Range(sent)
    <2>1. /\ sent \in Seq(ListRec) /\ Len(sent) = Len(new) /\ DOMAIN new = 1..Len(new)
          /\ Increasing(new) => Increasing(sent)
          /\ \A i \in 1..Len(new) : new[i] \in Range(new) /\ sent[i] \in Range(sent) /\ sent[i].seq = new[i].seq
          /\ \A x \in Range(sent) : \E i \in 1..Len(new) : x = sent[i]
          /\ \A x \in Range(new) : \E i \in 1..Len(new) : x = new[i]
      BY <1>7, <1>9, SameNumbers, Zenon
    <2>2. ASSUME NEW x \in Range(sent) PROVE \E l \in D2 : x = Regenerated(l, g)
      <3>1. PICK i \in 1..Len(new) : x = sent[i]
        BY <2>1
      <3>2. new[i] \in D2 /\ sent[i] = Regenerated(new[i], g)
        BY <1>5, <1>9, <2>1
      <3> QED BY <3>1, <3>2
    <2>3. ASSUME NEW l \in D2 PROVE Regenerated(l, g) \in Range(sent)
      <3>1. PICK i \in 1..Len(new) : l = new[i]
        BY <1>5, <2>1
      <3>2. sent[i] \in Range(sent) /\ sent[i] = Regenerated(new[i], g)
        BY <1>9, <2>1
      <3> QED BY <3>1, <3>2
    <2> QED BY <1>5, <2>1, <2>2, <2>3
  <1>11. p \in ListRec /\ p.seq = NextSequence(d) /\ p.gen = 0 /\ p.objs = {}
    BY <1>3 DEF ListRec, List
  <1>12. <<>> \in Seq(ListRec) /\ Range(<<>>) = {} /\ Increasing(<<>>)
    <2>1. <<>> \in Seq(ListRec) /\ Len(<<>>) = 0
      BY EmptySeq
    <2> QED BY <2>1, RangeFacts DEF Increasing
  <1>13. NoLsn \in LsnRec /\ NoLsn.gen = 0
    BY DEF NoLsn, LsnRec
  <1>14. /\ Resting \in FlushRec /\ Resting.step = "idle" /\ Resting.lists = <<>>
         /\ Resting.update = NoLsn
    BY <1>12, <1>13 DEF FlushRec, Resting, Steps
  <1>15. q2 = [pending |-> p, sent |-> sent, validated |-> old, lsns |-> NoLsn,
               writeFailed |-> FALSE, flush |-> Resting]
    <2>1. q2 = [EmptyQueue(NextSequence(d)) EXCEPT !.validated = old, !.sent = sent]
      BY DEF Recovered, old, new, sent, D1, D2
    <2> QED BY <2>1 DEF EmptyQueue
  <1> HIDE DEF q2, p
  <1>16. /\ q2 \in QueueRec /\ q2.pending = p /\ q2.sent = sent /\ q2.validated = old
         /\ q2.lsns = NoLsn /\ q2.flush = Resting
    BY <1>7, <1>10, <1>11, <1>13, <1>14, <1>15 DEF QueueRec
  <1>17. ClaimsHold(q2, d, G2, R, V)
    <2>0. \A l \in ListRec : l.gen \in Nat
      BY DEF ListRec
    <2>1. \A l \in d.lists : l.gen <= G /\ (l.gen = G => l.objs \subseteq R)
      BY DEF NodeInv, ClaimsHold, Claim
    <2>2. \A l \in d.lists : Claim(l, G2, R)
      BY <1>1, <2>0, <2>1 DEF Claim
    <2>3. \A l \in Range(sent) : Claim(l, G2, R)
      <3> SUFFICES ASSUME NEW l \in D2 PROVE Claim(Regenerated(l, g), G2, R)
        BY <1>10
      <3>1. l \in d.lists /\ l \in ListRec /\ l.gen \in Nat
        BY <1>6, <2>0
      <3> QED BY <1>8, <2>1, <3>1 DEF Claim
    <2>4. Claim(p, G2, R) /\ LsnClaim(NoLsn, G2, V)
      BY <1>11, <1>13 DEF Claim, LsnClaim
    <2> QED BY <1>12, <1>14, <1>16, <2>2, <2>3, <2>4 DEF ClaimsHold
  <1>18. AnswerHolds(q2, R, V)
    BY <1>14, <1>16 DEF AnswerHolds
  <1>19. ValidatedIsRetired(q2, R)
    <2>1. \A l \in D1 : l.objs \subseteq R
      BY DEF D1, NodeInv, DiskIsSound
    <2> QED BY <1>4, <1>14, <1>16, <2>1 DEF ValidatedIsRetired
  <1>20. InSequence(q2, d)
    <2>1. Before(D1, Range(sent))
      <3>1. \A l \in D2 : Regenerated(l, g).seq = l.seq
        BY <1>6, <1>8
      <3> QED BY <1>6, <1>10, <3>1 DEF Before
    <2>2. Before(D1, {p}) /\ Before(d.lists, {p})
      BY <1>3, <1>6, <1>11 DEF Before
    <2>3. Before(Range(sent), {p})
      <3>1. \A l \in D2 : Regenerated(l, g).seq < p.seq
        BY <1>3, <1>6, <1>8, <1>11
      <3> QED BY <1>10, <3>1 DEF Before
    <2>4. \A A : Before(A, {}) /\ Before({}, A)
      BY DEF Before
    <2> QED BY <1>2, <1>3, <1>4, <1>10, <1>11, <1>12, <1>14, <1>16, <2>1, <2>2, <2>3, <2>4,
              ZenonT(60) DEF InSequence
  <1>21. DiskIsSound(q2, d, R)
    <2>1. \A l \in d.lists : l.seq <= d.header => l.objs \subseteq R
      BY DEF NodeInv, DiskIsSound
    <2>2. ASSUME NEW l \in D2 PROVE Waiting(q2, l)
      <3>1. Regenerated(l, g) \in Range(q2.sent) /\ Regenerated(l, g).seq = l.seq
        BY <1>6, <1>8, <1>10, <1>16
      <3> QED BY <3>1 DEF Waiting
    <2>3. \A l \in D1 : l.objs \subseteq R
      BY <2>1 DEF D1
    <2>4. \A l \in d.lists : Matches(l, D1) /\ Matches(l, {})
      BY <1>2, <1>6 DEF Matches
    <2>5. ASSUME NEW l \in d.lists PROVE Matches(l, Range(sent))
      <3> SUFFICES ASSUME NEW m \in D2, Regenerated(m, g).seq = l.seq
                   PROVE  Regenerated(m, g).objs = l.objs
        BY <1>10 DEF Matches
      <3>1. m \in ListRec /\ m \in d.lists /\ m.seq = l.seq
        BY <1>6, <1>8
      <3> QED BY <1>2, <1>8, <3>1
    <2> QED BY <1>4, <1>6, <1>12, <1>14, <1>16, <2>1, <2>2, <2>3, <2>4, <2>5 DEF DiskIsSound
  <1> QED BY <1>1, <1>16, <1>17, <1>18, <1>19, <1>20, <1>21 DEF NodeInv, q2

-----------------------------------------------------------------------------
(* Shards, indexes and objects: T is tenant, I indexes, O objects, p produced, G the   *)
(* latest generation, gr the generations on their way to nodes.                        *)

IndexRec == [layers : SUBSET Nat, lsn : Nat]
ShardRec == [gen : 0..MaxGen, layers : SUBSET Nat, lsn : Nat, op : {"none", "index", "delete"},
             unlinked : SUBSET Nat, visible : Nat]

\* IndexFor, for any indexes.
IndexOf(I, g) == Max({h \in Gens : h <= g /\ I[h] # NoIndex})
TopOf(I) == IndexOf(I, MaxGen)

\* The attachments whose index would be loaded, now or once they have written it.
Current(T, I, n) == T[n].gen >= TopOf(I)

RetiredIn(T, I, p) ==
  {o \in 1..p : /\ o \notin I[TopOf(I)].layers
                /\ \A n \in Nodes : Current(T, I, n) => o \notin T[n].layers}

LoadableIn(T, I, p) ==
  {v \in 0..p : /\ v <= I[TopOf(I)].lsn
                /\ \A n \in Nodes : Current(T, I, n) => v <= T[n].lsn}

Owns(T, gr, n, g) == T[n].gen = g \/ <<n, g>> \in gr

\* A generation is issued to one node, and has an index once it has been written.
GenerationsAreIssued(T, I, G, gr) ==
  /\ I[1] # NoIndex
  /\ \A g \in Gens : g > G => I[g] = NoIndex
  /\ \A n \in Nodes : T[n].gen <= G
  /\ \A n \in Nodes, g \in Gens : <<n, g>> \in gr => g <= G
  /\ \A g \in Gens : \A n, m \in Nodes : Owns(T, gr, n, g) /\ Owns(T, gr, m, g) => n = m

\* What a shard unlinks is not in the index it has uploaded.
ShardIsSound(t, I, p) ==
  /\ t.layers \subseteq 1..p /\ t.unlinked \subseteq 1..p /\ t.layers \cap t.unlinked = {}
  /\ t.lsn <= p
  /\ t.op # "none" => t.gen # 0 /\ t.lsn # 0
  /\ t.op = "delete" => I[t.gen] = [layers |-> t.layers, lsn |-> t.lsn]

LiveLayersExist(T, I, O) ==
  /\ I[TopOf(I)].layers \subseteq O
  /\ \A n \in Nodes : Current(T, I, n) => T[n].layers \subseteq O

WorldTypes(T, I, p, G) ==
  T \in [Nodes -> ShardRec] /\ I \in [Gens -> IndexRec] /\ p \in Nat /\ G \in Gens

World(T, I, O, p, G, gr) ==
  /\ WorldTypes(T, I, p, G) /\ GenerationsAreIssued(T, I, G, gr)
  /\ \A g \in Gens : I[g].layers \subseteq 1..p /\ I[g].lsn <= p
  /\ \A n \in Nodes : ShardIsSound(T[n], I, p)
  /\ LiveLayersExist(T, I, O)
  /\ \A n \in Nodes : T[n].visible \in LoadableIn(T, I, p)

\* The generations are numbers.
LEMMA GensFacts ==
  ASSUME QueueAssumption
  PROVE  /\ MaxGen \in Nat /\ 1 \in Gens /\ MaxGen \in Gens /\ Gens \subseteq Nat \ {0}
         /\ \A g \in Gens : g <= MaxGen /\ 1 <= g
         /\ \A g \in Nat : 1 <= g /\ g <= MaxGen => g \in Gens
BY DEF QueueAssumption, Gens

\* The fields of a shard.
LEMMA ShardFacts ==
  ASSUME NEW t \in ShardRec
  PROVE  /\ t.gen \in 0..MaxGen /\ t.layers \subseteq Nat /\ t.lsn \in Nat
         /\ t.op \in {"none", "index", "delete"} /\ t.unlinked \subseteq Nat /\ t.visible \in Nat
BY DEF ShardRec

\* download_generation_object finds an index, the newest that the generation may use.
LEMMA IndexOfFacts ==
  ASSUME QueueAssumption, NEW I, I[1] # NoIndex, NEW g \in Gens
  PROVE  /\ IndexOf(I, g) \in Gens /\ IndexOf(I, g) <= g /\ I[IndexOf(I, g)] # NoIndex
         /\ \A h \in Gens : h <= g /\ I[h] # NoIndex => h <= IndexOf(I, g)
PROOF
  <1> DEFINE S == {h \in Gens : h <= g /\ I[h] # NoIndex}
  <1>1. 1 \in S /\ S \subseteq Gens
    BY GensFacts
  <1>2. IsFiniteSet(S) /\ S \subseteq Int /\ S # {}
    <2>1. IsFiniteSet(Gens) /\ Gens \subseteq Int
      <3>1. IsFiniteSet(1..MaxGen)
        BY GensFacts, FS_Interval
      <3> QED BY <3>1, GensFacts DEF Gens
    <2>2. S \in SUBSET Gens
      OBVIOUS
    <2>3. IsFiniteSet(S)
      BY <2>1, <2>2, FS_Subset
    <2> QED BY <1>1, <2>1, <2>3
  <1>3. Max(S) \in S /\ \A y \in S : Max(S) >= y
    <2> HIDE DEF S
    <2> QED BY <1>2, MaxProperties
  <1>4. IndexOf(I, g) = Max(S)
    BY DEF IndexOf
  <1>5. \A h \in Gens : h <= g /\ I[h] # NoIndex => Max(S) >= h
    BY <1>3
  <1>6. Max(S) \in Gens /\ Max(S) <= g /\ I[Max(S)] # NoIndex
    BY <1>3
  <1> HIDE DEF S
  <1> QED BY <1>4, <1>5, <1>6, GensFacts

\* The newest of all indexes.
LEMMA TopFacts ==
  ASSUME QueueAssumption, NEW I, I[1] # NoIndex
  PROVE  /\ TopOf(I) \in Gens /\ I[TopOf(I)] # NoIndex
         /\ \A h \in Gens : I[h] # NoIndex => h <= TopOf(I)
         /\ \A g \in Gens : g >= TopOf(I) => IndexOf(I, g) = TopOf(I)
PROOF
  <1>1. /\ TopOf(I) \in Gens /\ I[TopOf(I)] # NoIndex
        /\ \A h \in Gens : I[h] # NoIndex => h <= TopOf(I)
    BY IndexOfFacts, GensFacts DEF TopOf
  <1>2. ASSUME NEW g \in Gens, g >= TopOf(I) PROVE IndexOf(I, g) = TopOf(I)
    <2>1. IndexOf(I, g) \in Gens /\ I[IndexOf(I, g)] # NoIndex
      BY IndexOfFacts
    <2>2. TopOf(I) <= IndexOf(I, g)
      BY <1>1, <1>2, IndexOfFacts, GensFacts
    <2>3. IndexOf(I, g) <= TopOf(I)
      BY <1>1, <2>1
    <2> QED BY <1>1, <2>1, <2>2, <2>3, GensFacts
  <1> QED BY <1>1, <1>2

\* increment_generation takes nothing from the nodes that run in older generations.
LEMMA WorldIssues ==
  ASSUME QueueAssumption, NEW T, NEW I, NEW O, NEW p, NEW G, NEW gr, World(T, I, O, p, G, gr),
         G < MaxGen, NEW n \in Nodes, NEW gr2, gr2 \in {gr, gr \cup {<<n, G + 1>>}}
  PROVE  World(T, I, O, p, G + 1, gr2)
PROOF
  <1>1. G \in Gens /\ G \in Nat /\ T \in [Nodes -> ShardRec]
    BY GensFacts DEF World, WorldTypes
  <1>2. G + 1 \in Gens
    BY <1>1, GensFacts
  <1>3. GenerationsAreIssued(T, I, G, gr)
    BY DEF World
  <1>4. \A m \in Nodes : T[m].gen \in Nat /\ T[m].gen # G + 1 /\ <<m, G + 1>> \notin gr
    <2>1. \A m \in Nodes : T[m].gen \in Nat
      BY <1>1, ShardFacts, GensFacts
    <2>2. \A m \in Nodes : T[m].gen <= G /\ (<<m, G + 1>> \in gr => G + 1 <= G)
      BY <1>2, <1>3 DEF GenerationsAreIssued
    <2> QED BY <1>1, <2>1, <2>2
  <1>5. GenerationsAreIssued(T, I, G + 1, gr2)
    <2>1. \A g \in Gens : g > G + 1 => I[g] = NoIndex
      BY <1>1, <1>3, GensFacts DEF GenerationsAreIssued
    <2>2. \A m \in Nodes : T[m].gen <= G + 1
      <3>1. \A m \in Nodes : T[m].gen <= G
        BY <1>3 DEF GenerationsAreIssued
      <3>2. \A a, b \in Nat : a <= b => a <= b + 1
        OBVIOUS
      <3> QED BY <1>1, <1>4, <3>1, <3>2, Zenon
    <2>3. \A m \in Nodes, g \in Gens : <<m, g>> \in gr2 => (<<m, g>> \in gr \/ (m = n /\ g = G + 1))
      OBVIOUS
    <2>4. \A m \in Nodes, g \in Gens : <<m, g>> \in gr2 => g <= G + 1
      BY <1>1, <1>3, <2>3, GensFacts DEF GenerationsAreIssued
    <2>5. ASSUME NEW g \in Gens, NEW m \in Nodes, NEW k \in Nodes,
                 Owns(T, gr2, m, g), Owns(T, gr2, k, g)
          PROVE  m = k
      <3>1. CASE g = G + 1
        BY <1>4, <2>3, <2>5, <3>1 DEF Owns
      <3>2. CASE g # G + 1
        BY <1>3, <2>3, <2>5, <3>2 DEF Owns, GenerationsAreIssued
      <3> QED BY <3>1, <3>2
    <2> QED BY <1>3, <2>1, <2>2, <2>4, <2>5 DEF GenerationsAreIssued
  <1> QED BY <1>2, <1>5 DEF World, WorldTypes

\* The deleter takes an object that is retired.
LEMMA WorldDeletes ==
  ASSUME NEW T, NEW I, NEW O, NEW p, NEW G, NEW gr, World(T, I, O, p, G, gr),
         NEW o \in RetiredIn(T, I, p)
  PROVE  World(T, I, O \ {o}, p, G, gr)
PROOF
  <1>1. LiveLayersExist(T, I, O)
    BY DEF World
  <1>2. /\ o \notin I[TopOf(I)].layers
        /\ \A n \in Nodes : Current(T, I, n) => o \notin T[n].layers
    BY DEF RetiredIn
  <1>3. LiveLayersExist(T, I, O \ {o})
    BY <1>1, <1>2 DEF LiveLayersExist
  <1> QED BY <1>3 DEF World

\* Shard t of node n takes the place of the one in T.
Puts(T, n, t, T2) == T2 = [T EXCEPT ![n] = t]

\* Shard t0 goes on as t, or it is detached.
GoesOn(t0, t, O, O2, p, p2) ==
  \/ t.gen = 0
  \/ /\ t.gen = t0.gen /\ t0.lsn <= t.lsn
     /\ t.layers \subseteq t0.layers \cup (p + 1)..p2
     /\ t0.layers \subseteq O => t.layers \subseteq O2

\* A shard goes on in its generation, or is detached: it refers to nothing it did not
\* refer to before but new layers, so what is retired stays retired.
LEMMA WorldWorks ==
  ASSUME QueueAssumption, NEW T, NEW I, NEW O, NEW p, NEW G, NEW gr, World(T, I, O, p, G, gr),
         NEW n \in Nodes, NEW t \in ShardRec, NEW T2, Puts(T, n, t, T2),
         NEW p2 \in Nat, p <= p2, NEW O2, O \subseteq O2,
         ShardIsSound(t, I, p2), t.visible \in LoadableIn(T, I, p),
         GoesOn(T[n], t, O, O2, p, p2)
  PROVE  /\ World(T2, I, O2, p2, G, gr)
         /\ RetiredIn(T, I, p) \subseteq RetiredIn(T2, I, p2)
         /\ LoadableIn(T, I, p) \subseteq LoadableIn(T2, I, p2)
PROOF
  <1>1. WorldTypes(T, I, p, G) /\ T \in [Nodes -> ShardRec] /\ p \in Nat /\ G \in Gens
        /\ I \in [Gens -> IndexRec] /\ GenerationsAreIssued(T, I, G, gr) /\ I[1] # NoIndex
    BY DEF World, WorldTypes, GenerationsAreIssued
  <1>2. /\ T2 \in [Nodes -> ShardRec] /\ T2[n] = t
        /\ \A m \in Nodes : m # n => T2[m] = T[m]
    BY <1>1 DEF Puts
  <1>3. TopOf(I) \in Gens /\ TopOf(I) \in Nat /\ 1 <= TopOf(I)
    BY <1>1, TopFacts, GensFacts
  <1>5. t.gen # 0 => /\ T[n].lsn <= t.lsn /\ t.layers \subseteq T[n].layers \cup (p + 1)..p2
                     /\ T[n].layers \subseteq O => t.layers \subseteq O2
                     /\ t.gen = T[n].gen
    BY DEF GoesOn
  <1>6. Current(T2, I, n) => t.gen # 0
    BY <1>2, <1>3 DEF Current
  <1>4. \A m \in Nodes : Current(T2, I, m) => Current(T, I, m) /\ T2[m].gen = T[m].gen
    BY <1>2, <1>3, <1>5, <1>6 DEF Current
  <1>7. GenerationsAreIssued(T2, I, G, gr)
    <2>1. \A m \in Nodes, g \in Gens : Owns(T2, gr, m, g) => Owns(T, gr, m, g)
      BY <1>2, <1>5, GensFacts DEF Owns
    <2>2. \A m \in Nodes : T2[m].gen <= G
      <3>1. 0 <= G
        BY <1>1, GensFacts
      <3> QED BY <1>1, <1>2, <1>5, <3>1 DEF GenerationsAreIssued
    <2> QED BY <1>1, <2>1, <2>2 DEF GenerationsAreIssued
  <1>8. \A g \in Gens : I[g].layers \subseteq 1..p2 /\ I[g].lsn <= p2
    <2>1. \A g \in Gens : I[g].layers \subseteq 1..p /\ I[g].lsn <= p
      BY DEF World
    <2>2. \A g \in Gens : I[g].lsn \in Nat
      BY <1>1 DEF IndexRec
    <2>3. 1..p \subseteq 1..p2
      BY <1>1
    <2> QED BY <1>1, <2>1, <2>2, <2>3
  <1>9. \A m \in Nodes : ShardIsSound(T2[m], I, p2)
    <2> SUFFICES ASSUME NEW m \in Nodes, m # n PROVE ShardIsSound(T[m], I, p2)
      BY <1>2
    <2>1. ShardIsSound(T[m], I, p) /\ T[m].lsn \in Nat
      BY <1>1, ShardFacts DEF World
    <2>2. 1..p \subseteq 1..p2
      BY <1>1
    <2> QED BY <1>1, <2>1, <2>2 DEF ShardIsSound
  <1>10. LiveLayersExist(T2, I, O2)
    <2>1. LiveLayersExist(T, I, O)
      BY DEF World
    <2>2. ASSUME NEW m \in Nodes, Current(T2, I, m) PROVE T2[m].layers \subseteq O2
      <3>1. T[m].layers \subseteq O
        BY <1>4, <2>1, <2>2 DEF LiveLayersExist
      <3> QED BY <1>2, <1>5, <1>6, <2>2, <3>1
    <2> QED BY <2>1, <2>2 DEF LiveLayersExist
  <1>11. RetiredIn(T, I, p) \subseteq RetiredIn(T2, I, p2)
    <2> SUFFICES ASSUME NEW o \in RetiredIn(T, I, p) PROVE o \in RetiredIn(T2, I, p2)
      OBVIOUS
    <2>1. /\ o \in 1..p /\ o \notin I[TopOf(I)].layers
          /\ \A m \in Nodes : Current(T, I, m) => o \notin T[m].layers
      BY DEF RetiredIn
    <2>2. o \in 1..p2 /\ o \notin (p + 1)..p2
      BY <1>1, <2>1
    <2>3. ASSUME NEW m \in Nodes, Current(T2, I, m) PROVE o \notin T2[m].layers
      <3>1. o \notin T[m].layers
        BY <1>4, <2>1, <2>3
      <3> QED BY <1>2, <1>5, <1>6, <2>2, <2>3, <3>1
    <2> QED BY <2>1, <2>2, <2>3 DEF RetiredIn
  <1>12. LoadableIn(T, I, p) \subseteq LoadableIn(T2, I, p2)
    <2> SUFFICES ASSUME NEW v \in LoadableIn(T, I, p) PROVE v \in LoadableIn(T2, I, p2)
      OBVIOUS
    <2>1. /\ v \in 0..p /\ v <= I[TopOf(I)].lsn
          /\ \A m \in Nodes : Current(T, I, m) => v <= T[m].lsn
      BY DEF LoadableIn
    <2>2. v \in 0..p2 /\ v \in Nat
      BY <1>1, <2>1
    <2>3. ASSUME NEW m \in Nodes, Current(T2, I, m) PROVE v <= T2[m].lsn
      <3>1. v <= T[m].lsn /\ T[m].lsn \in Nat /\ t.lsn \in Nat
        BY <1>1, <1>4, <2>1, <2>3, ShardFacts
      <3> QED BY <1>2, <1>5, <1>6, <2>2, <2>3, <3>1
    <2> QED BY <2>1, <2>2, <2>3 DEF LoadableIn
  <1>13. \A m \in Nodes : T2[m].visible \in LoadableIn(T2, I, p2)
    <2>1. \A m \in Nodes : T[m].visible \in LoadableIn(T, I, p)
      BY DEF World
    <2> QED BY <1>2, <1>12, <2>1
  <1> QED BY <1>1, <1>2, <1>7, <1>8, <1>9, <1>10, <1>11, <1>12, <1>13 DEF World, WorldTypes

\* Nothing advertised: LSN 0 is always loaded.
LEMMA ZeroIsLoadable ==
  ASSUME QueueAssumption, NEW T, NEW I, NEW O, NEW p, NEW G, NEW gr, World(T, I, O, p, G, gr)
  PROVE  0 \in LoadableIn(T, I, p)
PROOF
  <1>1. /\ T \in [Nodes -> ShardRec] /\ p \in Nat /\ I \in [Gens -> IndexRec]
        /\ I[1] # NoIndex
    BY DEF World, WorldTypes, GenerationsAreIssued
  <1>2. I[TopOf(I)].lsn \in Nat
    BY <1>1, TopFacts DEF IndexRec
  <1>3. \A m \in Nodes : T[m].lsn \in Nat
    BY <1>1, ShardFacts
  <1> QED BY <1>1, <1>2, <1>3 DEF LoadableIn

\* The shard that generation g loads.
LoadedFrom(I, g) ==
  [Detached EXCEPT !.gen = g, !.layers = I[IndexOf(I, g)].layers, !.lsn = I[IndexOf(I, g)].lsn]

\* An attachment, in a generation of this node only, refers to what is indexed.
LEMMA WorldLoads ==
  ASSUME QueueAssumption, NEW T, NEW I, NEW O, NEW p, NEW G, NEW gr, World(T, I, O, p, G, gr),
         NEW n \in Nodes, NEW g \in Gens, g <= G,
         \A m \in Nodes : Owns(T, gr, m, g) => m = n,
         NEW T2, Puts(T, n, LoadedFrom(I, g), T2)
  PROVE  /\ World(T2, I, O, p, G, gr)
         /\ RetiredIn(T, I, p) \subseteq RetiredIn(T2, I, p)
         /\ LoadableIn(T, I, p) \subseteq LoadableIn(T2, I, p)
PROOF
  <1> DEFINE t == LoadedFrom(I, g)
             h == IndexOf(I, g)
  <1>1. WorldTypes(T, I, p, G) /\ T \in [Nodes -> ShardRec] /\ p \in Nat /\ G \in Gens
        /\ I \in [Gens -> IndexRec] /\ GenerationsAreIssued(T, I, G, gr) /\ I[1] # NoIndex
    BY DEF World, WorldTypes, GenerationsAreIssued
  <1>2. h \in Gens /\ I[h] \in IndexRec /\ I[h].layers \subseteq 1..p /\ I[h].lsn <= p
    BY <1>1, IndexOfFacts DEF World
  <1>3. /\ t.gen = g /\ t.layers = I[h].layers /\ t.lsn = I[h].lsn /\ t.op = "none"
        /\ t.unlinked = {} /\ t.visible = 0
    BY DEF LoadedFrom, Detached
  <1>4. t \in ShardRec
    <2>1. g \in 0..MaxGen
      BY GensFacts
    <2>2. I[h].layers \subseteq Nat /\ I[h].lsn \in Nat
      BY <1>2 DEF IndexRec
    <2> QED BY <2>1, <2>2 DEF LoadedFrom, Detached, ShardRec
  <1> HIDE DEF t, h
  <1>5. /\ T2 \in [Nodes -> ShardRec] /\ T2[n] = t
        /\ \A m \in Nodes : m # n => T2[m] = T[m]
    BY <1>1, <1>4 DEF Puts, t
  <1>6. Current(T2, I, n) => h = TopOf(I)
    BY <1>1, <1>3, <1>5, TopFacts DEF Current, h
  <1>7. \A m \in Nodes : m # n /\ Current(T2, I, m) => Current(T, I, m)
    BY <1>5 DEF Current
  <1>8. GenerationsAreIssued(T2, I, G, gr)
    <2>1. \A m \in Nodes : T2[m].gen <= G
      BY <1>1, <1>3, <1>5 DEF GenerationsAreIssued
    <2>2. ASSUME NEW k \in Gens, NEW m \in Nodes, Owns(T2, gr, m, k)
          PROVE  Owns(T, gr, m, k) \/ (k = g /\ m = n)
      BY <1>3, <1>5, <2>2 DEF Owns
    <2>3. ASSUME NEW k \in Gens, NEW m \in Nodes, NEW r \in Nodes,
                 Owns(T2, gr, m, k), Owns(T2, gr, r, k)
          PROVE  m = r
      <3>1. CASE k = g
        BY <2>2, <2>3, <3>1
      <3>2. CASE k # g
        BY <1>1, <2>2, <2>3, <3>2 DEF GenerationsAreIssued
      <3> QED BY <3>1, <3>2
    <2> QED BY <1>1, <2>1, <2>3 DEF GenerationsAreIssued
  <1>9. \A m \in Nodes : ShardIsSound(T2[m], I, p)
    <2>1. ShardIsSound(t, I, p)
      BY <1>2, <1>3 DEF ShardIsSound
    <2> QED BY <1>5, <2>1 DEF World
  <1>10. LiveLayersExist(T2, I, O)
    <2>1. LiveLayersExist(T, I, O)
      BY DEF World
    <2> QED BY <1>3, <1>5, <1>6, <1>7, <2>1 DEF LiveLayersExist
  <1>11. RetiredIn(T, I, p) \subseteq RetiredIn(T2, I, p)
    BY <1>3, <1>5, <1>6, <1>7 DEF RetiredIn
  <1>12. LoadableIn(T, I, p) \subseteq LoadableIn(T2, I, p)
    BY <1>3, <1>5, <1>6, <1>7 DEF LoadableIn
  <1>13. \A m \in Nodes : T2[m].visible \in LoadableIn(T2, I, p)
    <2>1. \A m \in Nodes : T[m].visible \in LoadableIn(T, I, p)
      BY DEF World
    <2>2. 0 \in LoadableIn(T, I, p)
      BY ZeroIsLoadable
    <2> QED BY <1>3, <1>5, <1>12, <2>1, <2>2
  <1> QED BY <1>1, <1>5, <1>8, <1>9, <1>10, <1>11, <1>12, <1>13 DEF World, WorldTypes

\* What a shard has replaced in the latest generation is retired once its index is uploaded.
LEMMA UnlinkedIsRetired ==
  ASSUME QueueAssumption, NEW T, NEW I, NEW O, NEW p, NEW G, NEW gr, World(T, I, O, p, G, gr),
         NEW n \in Nodes, T[n].op = "delete"
  PROVE  T[n].gen <= G /\ (T[n].gen = G => T[n].unlinked \subseteq RetiredIn(T, I, p))
PROOF
  <1>1. /\ G \in Gens /\ GenerationsAreIssued(T, I, G, gr) /\ I[1] # NoIndex
        /\ T[n] \in ShardRec /\ ShardIsSound(T[n], I, p) /\ T[n].gen <= G
        /\ I \in [Gens -> IndexRec] /\ T \in [Nodes -> ShardRec]
    BY DEF World, WorldTypes, GenerationsAreIssued
  <1> SUFFICES ASSUME T[n].gen = G PROVE T[n].unlinked \subseteq RetiredIn(T, I, p)
    BY <1>1
  <1>2. /\ I[G] = [layers |-> T[n].layers, lsn |-> T[n].lsn] /\ T[n].lsn # 0
        /\ T[n].unlinked \subseteq 1..p /\ T[n].layers \cap T[n].unlinked = {}
    BY <1>1 DEF ShardIsSound
  <1>3. I[G] # NoIndex /\ I[G].layers = T[n].layers
    BY <1>2 DEF NoIndex
  <1>4. TopOf(I) \in Gens /\ I[TopOf(I)] # NoIndex /\ G <= TopOf(I)
    BY <1>1, <1>3, TopFacts
  <1>5. ~(TopOf(I) > G)
    BY <1>1, <1>4 DEF GenerationsAreIssued
  <1>6. TopOf(I) = G
    BY <1>1, <1>4, <1>5, GensFacts
  <1>7. ASSUME NEW m \in Nodes, Current(T, I, m) PROVE m = n
    <2>1. T[m].gen = G
      <3>1. T[m].gen >= G /\ T[m].gen <= G
        BY <1>1, <1>6, <1>7 DEF Current, GenerationsAreIssued
      <3>2. T[m].gen \in Nat /\ G \in Nat
        BY <1>1, ShardFacts, GensFacts
      <3> QED BY <3>1, <3>2
    <2> QED BY <1>1, <2>1 DEF GenerationsAreIssued, Owns
  <1>8. ASSUME NEW o \in T[n].unlinked PROVE o \in RetiredIn(T, I, p)
    <2>1. o \in 1..p /\ o \notin T[n].layers
      BY <1>2
    <2> QED BY <1>3, <1>6, <1>7, <2>1 DEF RetiredIn
  <1> QED BY <1>8

\* UploadMetadata: the new index refers to what the shard does, and what it retires is retired
\* already, unless the shard is of an older generation and nobody will load it.
LEMMA WorldUploads ==
  ASSUME QueueAssumption, NEW T, NEW I, NEW O, NEW p, NEW G, NEW gr, World(T, I, O, p, G, gr),
         NEW n \in Nodes, T[n].op = "index", NEW I2, NEW T2, NEW op \in {"none", "delete"},
         Puts(I, T[n].gen, [layers |-> T[n].layers, lsn |-> T[n].lsn], I2),
         Puts(T, n, [T[n] EXCEPT !.op = op], T2)
  PROVE  /\ World(T2, I2, O, p, G, gr)
         /\ RetiredIn(T, I, p) \subseteq RetiredIn(T2, I2, p)
         /\ LoadableIn(T, I, p) \subseteq LoadableIn(T2, I2, p)
         /\ LsnClaim([gen |-> T[n].gen, lsn |-> T[n].lsn], G, LoadableIn(T2, I2, p))
PROOF
  <1> DEFINE g == T[n].gen
             x == [layers |-> T[n].layers, lsn |-> T[n].lsn]
  <1>1. WorldTypes(T, I, p, G) /\ T \in [Nodes -> ShardRec] /\ p \in Nat /\ G \in Gens
        /\ I \in [Gens -> IndexRec] /\ GenerationsAreIssued(T, I, G, gr) /\ I[1] # NoIndex
    BY DEF World, WorldTypes, GenerationsAreIssued
  <1>2. /\ ShardIsSound(T[n], I, p) /\ g # 0 /\ T[n].lsn # 0 /\ g <= G
        /\ T[n].layers \subseteq 1..p /\ T[n].lsn <= p
    BY <1>1 DEF World, ShardIsSound, GenerationsAreIssued
  <1>3. g \in Gens
    BY <1>1, <1>2, ShardFacts, GensFacts DEF Gens
  <1>4. x # NoIndex /\ x \in IndexRec /\ x.layers = T[n].layers /\ x.lsn = T[n].lsn
    BY <1>1, <1>2, ShardFacts DEF NoIndex, IndexRec
  <1> HIDE DEF x
  <1>5. /\ I2 \in [Gens -> IndexRec] /\ I2[g] = x /\ \A h \in Gens : h # g => I2[h] = I[h]
    BY <1>1, <1>3, <1>4 DEF Puts, x
  <1>6. /\ T2 \in [Nodes -> ShardRec] /\ T2[n] = [T[n] EXCEPT !.op = op]
        /\ \A m \in Nodes : m # n => T2[m] = T[m]
    BY <1>1 DEF ShardRec, Puts
  <1>7. /\ T2[n].op = op
        /\ \A m \in Nodes : /\ T2[m].gen = T[m].gen /\ T2[m].layers = T[m].layers
                            /\ T2[m].lsn = T[m].lsn /\ T2[m].unlinked = T[m].unlinked
                            /\ T2[m].visible = T[m].visible
    BY <1>1, <1>6 DEF ShardRec
  <1> HIDE DEF g
  <1>8. I2[1] # NoIndex
    BY <1>1, <1>4, <1>5, GensFacts
  <1>9. /\ TopOf(I) \in Gens /\ TopOf(I2) \in Gens /\ I[TopOf(I)] # NoIndex
        /\ I2[TopOf(I2)] # NoIndex
        /\ \A h \in Gens : I[h] # NoIndex => h <= TopOf(I)
        /\ \A h \in Gens : I2[h] # NoIndex => h <= TopOf(I2)
        /\ TopOf(I) \in Nat /\ TopOf(I2) \in Nat /\ g \in Nat
    BY <1>1, <1>3, <1>8, TopFacts, GensFacts
  <1>10. TopOf(I) <= TopOf(I2) /\ g <= TopOf(I2) /\ (TopOf(I2) = g \/ TopOf(I2) = TopOf(I))
    <2>1. I2[TopOf(I)] # NoIndex /\ I2[g] # NoIndex
      BY <1>4, <1>5, <1>9
    <2>2. TopOf(I2) # g => TopOf(I2) <= TopOf(I)
      BY <1>5, <1>9
    <2>3. TopOf(I) <= TopOf(I2) /\ g <= TopOf(I2)
      BY <1>3, <1>9, <2>1
    <2> QED BY <1>9, <2>2, <2>3
  <1>11. \A m \in Nodes : T[m].gen \in Nat
    BY <1>1, ShardFacts, GensFacts
  <1>12. \A m \in Nodes : Current(T2, I2, m) => Current(T, I, m)
    BY <1>7, <1>9, <1>10, <1>11 DEF Current
  <1>13. \/ I2[TopOf(I2)] = x /\ TopOf(I2) = g /\ Current(T, I, n)
         \/ I2[TopOf(I2)] = I[TopOf(I)] /\ TopOf(I2) # g
    BY <1>5, <1>9, <1>10 DEF Current, g
  <1>14. \A m \in Nodes : m # n => T[m].gen # g
    BY <1>1, <1>3 DEF GenerationsAreIssued, Owns, g
  <1>15. GenerationsAreIssued(T2, I2, G, gr)
    <2>1. \A h \in Gens : h > G => I2[h] = NoIndex
      <3>1. \A h \in Gens : h > G => h # g
        BY <1>1, <1>2, <1>9, GensFacts DEF g
      <3> QED BY <1>1, <1>5, <3>1 DEF GenerationsAreIssued
    <2>2. \A m \in Nodes, h \in Gens : Owns(T2, gr, m, h) => Owns(T, gr, m, h)
      BY <1>7 DEF Owns
    <2> QED BY <1>1, <1>7, <1>8, <2>1, <2>2 DEF GenerationsAreIssued
  <1>16. \A h \in Gens : I2[h].layers \subseteq 1..p /\ I2[h].lsn <= p
    <2>1. x.layers \subseteq 1..p /\ x.lsn <= p
      BY <1>2, <1>4
    <2> QED BY <1>5, <2>1 DEF World
  <1>17. \A m \in Nodes : ShardIsSound(T2[m], I2, p)
    <2>1. ASSUME NEW m \in Nodes, m # n PROVE ShardIsSound(T2[m], I2, p)
      <3>1. ShardIsSound(T[m], I, p) /\ T2[m] = T[m] /\ T[m].gen # g
        BY <1>6, <1>14, <2>1 DEF World
      <3>2. T[m].op = "delete" => I2[T[m].gen] = I[T[m].gen]
        <4>1. T[m].op = "delete" => T[m].gen \in Gens
          BY <1>1, <3>1, ShardFacts, GensFacts DEF ShardIsSound, Gens
        <4> QED BY <1>5, <3>1, <4>1
      <3> QED BY <3>1, <3>2 DEF ShardIsSound
    <2>2. ShardIsSound(T2[n], I2, p)
      <3>1. I2[T[n].gen] = [layers |-> T[n].layers, lsn |-> T[n].lsn]
        BY <1>5 DEF g, x
      <3> QED BY <1>2, <1>7, <3>1 DEF ShardIsSound, g
    <2> QED BY <2>1, <2>2
  <1>18. LiveLayersExist(T2, I2, O)
    <2>1. LiveLayersExist(T, I, O)
      BY DEF World
    <2>2. \A m \in Nodes : Current(T2, I2, m) => T2[m].layers \subseteq O
      BY <1>7, <1>12, <2>1 DEF LiveLayersExist
    <2>3. I2[TopOf(I2)].layers \subseteq O
      BY <1>4, <1>13, <2>1 DEF LiveLayersExist
    <2> QED BY <2>2, <2>3 DEF LiveLayersExist
  <1>19. RetiredIn(T, I, p) \subseteq RetiredIn(T2, I2, p)
    <2> SUFFICES ASSUME NEW o \in RetiredIn(T, I, p) PROVE o \in RetiredIn(T2, I2, p)
      OBVIOUS
    <2>1. /\ o \in 1..p /\ o \notin I[TopOf(I)].layers
          /\ \A m \in Nodes : Current(T, I, m) => o \notin T[m].layers
      BY DEF RetiredIn
    <2>2. o \notin I2[TopOf(I2)].layers
      BY <1>4, <1>13, <2>1
    <2> QED BY <1>7, <1>12, <2>1, <2>2 DEF RetiredIn
  <1>20. LoadableIn(T, I, p) \subseteq LoadableIn(T2, I2, p)
    <2> SUFFICES ASSUME NEW v \in LoadableIn(T, I, p) PROVE v \in LoadableIn(T2, I2, p)
      OBVIOUS
    <2>1. /\ v \in 0..p /\ v <= I[TopOf(I)].lsn
          /\ \A m \in Nodes : Current(T, I, m) => v <= T[m].lsn
      BY DEF LoadableIn
    <2>2. v <= I2[TopOf(I2)].lsn
      BY <1>4, <1>13, <2>1
    <2> QED BY <1>7, <1>12, <2>1, <2>2 DEF LoadableIn
  <1>21. \A m \in Nodes : T2[m].visible \in LoadableIn(T2, I2, p)
    BY <1>7, <1>20 DEF World
  <1>22. ASSUME g = G PROVE T[n].lsn \in LoadableIn(T2, I2, p)
    <2>1. TopOf(I2) = G
      <3>1. ~(TopOf(I2) > G)
        BY <1>9, <1>15 DEF GenerationsAreIssued
      <3> QED BY <1>9, <1>10, <1>22, <3>1
    <2>2. ASSUME NEW m \in Nodes, Current(T2, I2, m) PROVE m = n
      <3>1. T[m].gen >= G /\ T[m].gen <= G
        BY <1>1, <1>7, <2>1, <2>2 DEF Current, GenerationsAreIssued
      <3>2. T[m].gen = g
        BY <1>9, <1>11, <1>22, <3>1
      <3> QED BY <1>14, <3>2
    <2>3. I2[TopOf(I2)].lsn = T[n].lsn
      BY <1>4, <1>5, <1>22, <2>1
    <2>4. T[n].lsn \in Nat /\ T[n].lsn <= T[n].lsn /\ T[n].lsn \in 0..p
      BY <1>1, <1>2, ShardFacts
    <2> QED BY <1>7, <2>2, <2>3, <2>4 DEF LoadableIn
  <1>23. LsnClaim([gen |-> T[n].gen, lsn |-> T[n].lsn], G, LoadableIn(T2, I2, p))
    BY <1>2, <1>22 DEF LsnClaim, g
  <1>24. WorldTypes(T2, I2, p, G)
    BY <1>1, <1>5, <1>6 DEF WorldTypes
  <1> QED BY <1>15, <1>16, <1>17, <1>18, <1>19, <1>20, <1>21, <1>23, <1>24 DEF World

-----------------------------------------------------------------------------
(* The inductive invariant *)

Retired == RetiredIn(tenant, indexes, produced)
Loadable == LoadableIn(tenant, indexes, produced)
CtlRec == [gen : Gens, node : Nodes, mem : Nat]

QueueTypeOK ==
  ctl \in CtlRec /\ queue \in [Nodes -> QueueRec] /\ local \in [Nodes -> DiskRec]

QueueInv ==
  /\ QueueTypeOK
  /\ World(tenant, indexes, objects, produced, ctl.gen, grants)
  /\ \A n \in Nodes : NodeInv(queue[n], local[n], ctl.gen, Retired, Loadable)

\* A step of node n: all that others rely on only grows.
LEMMA NodeSteps ==
  ASSUME QueueAssumption, QueueInv, NEW n \in Nodes, ctl' \in CtlRec, ctl.gen <= ctl'.gen,
         World(tenant', indexes', objects', produced', ctl'.gen, grants'),
         Retired \subseteq Retired', Loadable \subseteq Loadable',
         NEW q, NEW d, queue' = [queue EXCEPT ![n] = q], local' = [local EXCEPT ![n] = d],
         NodeInv(q, d, ctl'.gen, Retired', Loadable')
  PROVE  QueueInv'
PROOF
  <1>1. q \in QueueRec /\ d \in DiskRec
    BY DEF NodeInv
  <1>2. /\ queue' \in [Nodes -> QueueRec] /\ local' \in [Nodes -> DiskRec]
        /\ queue'[n] = q /\ local'[n] = d
        /\ \A m \in Nodes : m # n => queue'[m] = queue[m] /\ local'[m] = local[m]
    BY <1>1 DEF QueueInv, QueueTypeOK
  <1>3. ctl.gen \in Nat /\ ctl'.gen \in Nat
    BY GensFacts DEF QueueInv, QueueTypeOK, CtlRec
  <1>4. ASSUME NEW m \in Nodes, m # n
        PROVE  NodeInv(queue'[m], local'[m], ctl'.gen, Retired', Loadable')
    <2>1. NodeInv(queue[m], local[m], ctl.gen, Retired, Loadable)
      BY DEF QueueInv
    <2>2. NodeInv(queue[m], local[m], ctl'.gen, Retired', Loadable')
      BY <1>3, <2>1, NodeKeeps
    <2> QED BY <1>2, <1>4, <2>2
  <1> QED BY <1>2, <1>4 DEF QueueInv, QueueTypeOK

\* A step that leaves the queues and their files alone.
LEMMA WorldSteps ==
  ASSUME QueueAssumption, QueueInv, ctl' \in CtlRec, ctl.gen <= ctl'.gen,
         World(tenant', indexes', objects', produced', ctl'.gen, grants'),
         Retired \subseteq Retired', Loadable \subseteq Loadable',
         UNCHANGED <<queue, local>>
  PROVE  QueueInv'
PROOF
  <1>1. ctl.gen \in Nat /\ ctl'.gen \in Nat
    BY GensFacts DEF QueueInv, QueueTypeOK, CtlRec
  <1>2. ASSUME NEW m \in Nodes
        PROVE  NodeInv(queue[m], local[m], ctl'.gen, Retired', Loadable')
    <2>1. NodeInv(queue[m], local[m], ctl.gen, Retired, Loadable)
      BY DEF QueueInv
    <2> QED BY <1>1, <2>1, NodeKeeps
  <1> QED BY <1>2 DEF QueueInv, QueueTypeOK

\* A step of the queue of node n alone.
LEMMA QueueSteps ==
  ASSUME QueueAssumption, QueueInv, NEW n \in Nodes,
         UNCHANGED <<ctl, grants, objects, indexes, tenant, produced>>,
         NEW q, NEW d, queue' = [queue EXCEPT ![n] = q], local' = [local EXCEPT ![n] = d],
         NodeInv(q, d, ctl.gen, Retired, Loadable)
  PROVE  QueueInv'
PROOF
  <1>1. /\ Retired' = Retired /\ Loadable' = Loadable /\ ctl' = ctl /\ ctl.gen \in Nat
        /\ ctl \in CtlRec
    BY GensFacts DEF Retired, Loadable, QueueInv, QueueTypeOK, CtlRec
  <1>2. World(tenant', indexes', objects', produced', ctl'.gen, grants')
    BY DEF QueueInv
  <1>3. ctl.gen <= ctl'.gen
    BY <1>1
  <1> QED BY <1>1, <1>2, <1>3, NodeSteps

\* What holds of node n.
LEMMA NodeFacts ==
  ASSUME QueueAssumption, QueueInv, NEW n \in Nodes
  PROVE  /\ NodeInv(queue[n], local[n], ctl.gen, Retired, Loadable)
         /\ World(tenant, indexes, objects, produced, ctl.gen, grants)
         /\ ctl.gen \in Gens /\ ctl.gen \in Nat \ {0} /\ ctl \in CtlRec
         /\ queue \in [Nodes -> QueueRec] /\ local \in [Nodes -> DiskRec]
         /\ queue[n] \in QueueRec /\ local[n] \in DiskRec
         /\ tenant \in [Nodes -> ShardRec] /\ tenant[n] \in ShardRec
         /\ indexes \in [Gens -> IndexRec] /\ produced \in Nat
         /\ GenerationsAreIssued(tenant, indexes, ctl.gen, grants)
         /\ ShardIsSound(tenant[n], indexes, produced)
         /\ tenant[n].visible \in Loadable
PROOF
  <1>1. ctl \in CtlRec /\ queue \in [Nodes -> QueueRec] /\ local \in [Nodes -> DiskRec]
    BY DEF QueueInv, QueueTypeOK
  <1>2. ctl.gen \in Gens /\ ctl.gen \in Nat \ {0}
    BY <1>1, GensFacts DEF CtlRec
  <1>3. /\ NodeInv(queue[n], local[n], ctl.gen, Retired, Loadable)
        /\ World(tenant, indexes, objects, produced, ctl.gen, grants)
    BY DEF QueueInv
  <1>4. /\ tenant \in [Nodes -> ShardRec] /\ tenant[n] \in ShardRec
        /\ indexes \in [Gens -> IndexRec] /\ produced \in Nat
        /\ GenerationsAreIssued(tenant, indexes, ctl.gen, grants)
        /\ ShardIsSound(tenant[n], indexes, produced)
        /\ tenant[n].visible \in LoadableIn(tenant, indexes, produced)
    BY <1>3 DEF World, WorldTypes
  <1> QED BY <1>1, <1>2, <1>3, <1>4 DEF Loadable

\* The first attachment.
LEMMA QueueInvInit == QueueAssumption /\ Init => QueueInv
PROOF
  <1> SUFFICES ASSUME QueueAssumption, Init PROVE QueueInv
    OBVIOUS
  <1>1. ctl \in CtlRec /\ ctl.gen = 1
    BY GensFacts DEF Init, CtlRec, QueueAssumption
  <1>2. \A n \in Nodes : queue[n] = EmptyQueue(1) /\ local[n] = [lists |-> {}, header |-> 0]
    BY DEF Init
  <1>3. \A n \in Nodes : NodeInv(queue[n], local[n], ctl.gen, Retired, Loadable)
    BY <1>1, <1>2, NodeStarts
  <1>4. QueueTypeOK
    <2>1. \A n \in Nodes : queue[n] \in QueueRec /\ local[n] \in DiskRec
      BY <1>3 DEF NodeInv
    <2>2. queue = [n \in Nodes |-> queue[n]] /\ local = [n \in Nodes |-> local[n]]
      BY DEF Init
    <2> QED BY <1>1, <2>1, <2>2 DEF QueueTypeOK
  <1>5. /\ indexes[1] = [layers |-> {1}, lsn |-> 1]
        /\ \A g \in Gens : g # 1 => indexes[g] = NoIndex
        /\ indexes \in [Gens -> IndexRec] /\ NoIndex.layers = {} /\ NoIndex.lsn = 0
    BY GensFacts DEF Init, NoIndex, IndexRec
  <1>6. indexes[1] # NoIndex /\ indexes[1].layers = {1} /\ indexes[1].lsn = 1
    BY <1>5 DEF NoIndex
  <1>7. TopOf(indexes) = 1
    BY <1>5, <1>6, TopFacts
  <1>8. /\ FirstNode \in Nodes
        /\ tenant[FirstNode] = [Detached EXCEPT !.gen = 1, !.layers = {1}, !.lsn = 1]
        /\ \A n \in Nodes : n # FirstNode => tenant[n] = Detached
        /\ DOMAIN tenant = Nodes /\ tenant = [n \in Nodes |-> tenant[n]]
    BY DEF Init, QueueAssumption
  <1>9. /\ tenant[FirstNode] \in ShardRec /\ Detached \in ShardRec
    <2>1. Detached \in ShardRec
      BY GensFacts DEF Detached, ShardRec
    <2>2. tenant[FirstNode] = [gen |-> 1, layers |-> {1}, lsn |-> 1, op |-> "none",
                               unlinked |-> {}, visible |-> 0]
      BY <1>8 DEF Detached
    <2>3. 1 \in 0..MaxGen
      BY GensFacts
    <2> QED BY <2>1, <2>2, <2>3 DEF ShardRec
  <1>10. /\ tenant[FirstNode].gen = 1 /\ tenant[FirstNode].layers = {1}
         /\ tenant[FirstNode].lsn = 1 /\ tenant[FirstNode].op = "none"
         /\ tenant[FirstNode].unlinked = {} /\ tenant[FirstNode].visible = 0
         /\ Detached.gen = 0 /\ Detached.layers = {} /\ Detached.lsn = 0
         /\ Detached.op = "none" /\ Detached.unlinked = {} /\ Detached.visible = 0
    BY <1>8 DEF Detached
  <1>18. \A n \in Nodes :
            /\ tenant[n].gen \in {0, 1} /\ (tenant[n].gen # 0 => n = FirstNode)
            /\ tenant[n].layers \subseteq {1} /\ tenant[n].lsn \in {0, 1}
            /\ tenant[n].op = "none" /\ tenant[n].unlinked = {} /\ tenant[n].visible = 0
    <2> SUFFICES ASSUME NEW n \in Nodes
                 PROVE  /\ tenant[n].gen \in {0, 1} /\ (tenant[n].gen # 0 => n = FirstNode)
                        /\ tenant[n].layers \subseteq {1} /\ tenant[n].lsn \in {0, 1}
                        /\ tenant[n].op = "none" /\ tenant[n].unlinked = {} /\ tenant[n].visible = 0
      OBVIOUS
    <2>1. CASE n = FirstNode
      BY <1>10, <2>1
    <2>2. CASE tenant[n] = Detached
      BY <1>10, <2>2
    <2> QED BY <1>8, <2>1, <2>2
  <1>11. objects = {1} /\ produced = 1 /\ grants = {}
    BY DEF Init
  <1>12. WorldTypes(tenant, indexes, produced, ctl.gen)
    BY <1>1, <1>5, <1>8, <1>9, <1>11, GensFacts DEF WorldTypes
  <1>13. GenerationsAreIssued(tenant, indexes, ctl.gen, grants)
    <2>1. \A g \in Gens : g > 1 => indexes[g] = NoIndex
      BY <1>5, GensFacts
    <2>2. \A n \in Nodes : tenant[n].gen <= 1 /\ (tenant[n].gen # 0 => n = FirstNode)
      BY <1>18
    <2> QED BY <1>1, <1>6, <1>11, <2>1, <2>2, GensFacts DEF GenerationsAreIssued, Owns
  <1>14. \A g \in Gens : indexes[g].layers \subseteq 1..produced /\ indexes[g].lsn <= produced
    BY <1>5, <1>6, <1>11
  <1>15. \A n \in Nodes : ShardIsSound(tenant[n], indexes, produced)
    BY <1>18, <1>11 DEF ShardIsSound
  <1>16. LiveLayersExist(tenant, indexes, objects)
    BY <1>6, <1>7, <1>18, <1>11 DEF LiveLayersExist
  <1>17. \A n \in Nodes : tenant[n].visible \in LoadableIn(tenant, indexes, produced)
    <2>1. \A n \in Nodes : tenant[n].visible = 0 /\ 0 <= tenant[n].lsn
      BY <1>18
    <2>2. \A n \in Nodes : Current(tenant, indexes, n) => 0 <= tenant[n].lsn
      BY <2>1
    <2> QED BY <1>6, <1>7, <1>11, <2>1, <2>2 DEF LoadableIn
  <1> QED BY <1>3, <1>4, <1>12, <1>13, <1>14, <1>15, <1>16, <1>17 DEF QueueInv, World

-----------------------------------------------------------------------------
(* Steps *)

\* Steps of the controller.
LEMMA ControllerKeeps ==
  ASSUME QueueAssumption, QueueInv, NEW n \in Nodes,
         IncrementGeneration(n) \/ ApplyGeneration
  PROVE  QueueInv'
PROOF
  <1>1. /\ World(tenant, indexes, objects, produced, ctl.gen, grants)
        /\ ctl.gen \in Gens /\ ctl.gen \in Nat /\ ctl \in CtlRec
    BY NodeFacts
  <1>2. UNCHANGED <<objects, indexes, tenant, local, queue, produced>>
    BY DEF IncrementGeneration, ApplyGeneration
  <1>3. Retired' = Retired /\ Loadable' = Loadable
    BY <1>2 DEF Retired, Loadable
  <1>4. CASE IncrementGeneration(n)
    <2>1. /\ ctl.gen < MaxGen /\ ctl' = [ctl EXCEPT !.gen = @ + 1, !.node = n]
          /\ grants' = grants \cup {<<n, ctl.gen + 1>>}
      BY <1>4 DEF IncrementGeneration
    <2>2. ctl.gen + 1 \in Gens /\ ctl.gen <= ctl.gen + 1
      BY <1>1, <2>1, GensFacts
    <2>3. ctl' \in CtlRec /\ ctl'.gen = ctl.gen + 1
      BY <1>1, <2>1, <2>2 DEF CtlRec
    <2>4. World(tenant, indexes, objects, produced, ctl.gen + 1, grants')
      BY <1>1, <2>1, WorldIssues
    <2> QED BY <1>2, <1>3, <2>2, <2>3, <2>4, WorldSteps
  <1>5. CASE ApplyGeneration
    <2>1. ctl' = [ctl EXCEPT !.mem = ctl.gen] /\ grants' = grants
      BY <1>5 DEF ApplyGeneration
    <2>2. ctl' \in CtlRec /\ ctl'.gen = ctl.gen /\ ctl.gen <= ctl.gen
      BY <1>1, <2>1 DEF CtlRec
    <2> QED BY <1>1, <1>2, <1>3, <2>1, <2>2, WorldSteps
  <1> QED BY <1>4, <1>5

\* A late location_config still reaches only the node that its generation was issued to.
LEMMA AttachKeeps ==
  ASSUME QueueAssumption, QueueInv, NEW n \in Nodes, NEW g \in Gens, Attach(n, g)
  PROVE  QueueInv'
PROOF
  <1>1. /\ World(tenant, indexes, objects, produced, ctl.gen, grants)
        /\ ctl.gen \in Gens /\ ctl.gen \in Nat /\ ctl \in CtlRec
        /\ GenerationsAreIssued(tenant, indexes, ctl.gen, grants)
    BY NodeFacts
  <1>2. /\ <<n, g>> \in grants /\ UNCHANGED <<ctl, grants, objects, indexes, local, queue, produced>>
        /\ Puts(tenant, n, LoadedFrom(indexes, g), tenant')
    BY DEF Attach, Loaded, LoadedFrom, IndexFor, IndexOf, Puts
  <1>3. g <= ctl.gen /\ \A m \in Nodes : Owns(tenant, grants, m, g) => m = n
    BY <1>1, <1>2 DEF GenerationsAreIssued, Owns
  <1>4. /\ World(tenant', indexes, objects, produced, ctl.gen, grants)
        /\ RetiredIn(tenant, indexes, produced) \subseteq RetiredIn(tenant', indexes, produced)
        /\ LoadableIn(tenant, indexes, produced) \subseteq LoadableIn(tenant', indexes, produced)
    BY <1>1, <1>2, <1>3, WorldLoads
  <1>5. Retired \subseteq Retired' /\ Loadable \subseteq Loadable'
    BY <1>2, <1>4 DEF Retired, Loadable
  <1>6. ctl' = ctl /\ ctl.gen <= ctl.gen
    BY <1>1, <1>2
  <1> QED BY <1>1, <1>2, <1>4, <1>5, <1>6, WorldSteps

\* A shard that is detached.
LEMMA DetachedFacts ==
  ASSUME QueueAssumption, QueueInv, NEW n \in Nodes, NEW T2,
         Puts(tenant, n, Detached, T2)
  PROVE  /\ World(T2, indexes, objects, produced, ctl.gen, grants)
         /\ Retired \subseteq RetiredIn(T2, indexes, produced)
         /\ Loadable \subseteq LoadableIn(T2, indexes, produced)
PROOF
  <1>1. /\ World(tenant, indexes, objects, produced, ctl.gen, grants) /\ produced \in Nat
    BY NodeFacts
  <1>2. /\ Detached \in ShardRec /\ Detached.gen = 0 /\ Detached.visible = 0
        /\ Detached.op = "none" /\ Detached.layers = {} /\ Detached.unlinked = {}
        /\ Detached.lsn = 0
    BY GensFacts DEF Detached, ShardRec
  <1>3. ShardIsSound(Detached, indexes, produced)
    BY <1>1, <1>2 DEF ShardIsSound
  <1>4. Detached.visible \in LoadableIn(tenant, indexes, produced)
    BY <1>1, <1>2, ZeroIsLoadable
  <1>5. /\ produced <= produced /\ objects \subseteq objects
        /\ GoesOn(tenant[n], Detached, objects, objects, produced, produced)
    BY <1>1, <1>2 DEF GoesOn
  <1> QED BY <1>1, <1>2, <1>3, <1>4, <1>5, WorldWorks DEF Retired, Loadable

\* Detaching a shard.
LEMMA DetachKeeps ==
  ASSUME QueueAssumption, QueueInv, NEW n \in Nodes, Detach(n)
  PROVE  QueueInv'
PROOF
  <1>1. ctl.gen \in Nat /\ ctl \in CtlRec
    BY NodeFacts
  <1>2. /\ UNCHANGED <<ctl, grants, objects, indexes, local, queue, produced>>
        /\ Puts(tenant, n, Detached, tenant')
    BY DEF Detach, Puts
  <1>3. /\ World(tenant', indexes, objects, produced, ctl.gen, grants)
        /\ Retired \subseteq RetiredIn(tenant', indexes, produced)
        /\ Loadable \subseteq LoadableIn(tenant', indexes, produced)
    BY <1>2, DetachedFacts
  <1>4. Retired \subseteq Retired' /\ Loadable \subseteq Loadable'
    BY <1>2, <1>3 DEF Retired, Loadable
  <1>5. ctl' = ctl /\ ctl.gen <= ctl.gen
    BY <1>1, <1>2
  <1> QED BY <1>1, <1>2, <1>3, <1>4, <1>5, WorldSteps

\* A crash and restart, with a generation that follows directly the one the lists are of, or none.
LEMMA RestartKeeps ==
  ASSUME QueueAssumption, QueueInv, NEW n \in Nodes, Restart(n)
  PROVE  QueueInv'
PROOF
  <1>1. /\ World(tenant, indexes, objects, produced, ctl.gen, grants)
        /\ ctl.gen \in Gens /\ ctl.gen \in Nat \ {0} /\ ctl \in CtlRec
        /\ GenerationsAreIssued(tenant, indexes, ctl.gen, grants)
        /\ NodeInv(queue[n], local[n], ctl.gen, Retired, Loadable)
        /\ tenant \in [Nodes -> ShardRec]
        /\ local \in [Nodes -> DiskRec]
    BY NodeFacts
  <1>2. /\ UNCHANGED <<grants, objects, indexes, local, produced>>
        /\ local' = [local EXCEPT ![n] = local[n]]
    BY <1>1 DEF Restart
  <1>3. CASE ctl.node # n
    <2>1. /\ ctl' = ctl /\ Puts(tenant, n, Detached, tenant')
          /\ queue' = [queue EXCEPT ![n] = Recovered(local[n], 0)]
      BY <1>3 DEF Restart, Puts
    <2>2. /\ World(tenant', indexes, objects, produced, ctl.gen, grants)
          /\ Retired \subseteq RetiredIn(tenant', indexes, produced)
          /\ Loadable \subseteq LoadableIn(tenant', indexes, produced)
      BY <2>1, DetachedFacts
    <2>3. Retired \subseteq Retired' /\ Loadable \subseteq Loadable'
      BY <1>2, <2>2 DEF Retired, Loadable
    <2>4. NodeInv(Recovered(local[n], 0), local[n], ctl.gen, Retired, Loadable)
      BY <1>1, NodeRecovers
    <2>5. ctl.gen <= ctl.gen
      BY <1>1
    <2>6. NodeInv(Recovered(local[n], 0), local[n], ctl.gen, Retired', Loadable')
      BY <1>1, <2>3, <2>4, <2>5, NodeKeeps
    <2> QED BY <1>1, <1>2, <2>1, <2>2, <2>3, <2>5, <2>6, NodeSteps
  <1>4. CASE ctl.node = n
    <2> DEFINE g == ctl.gen + 1
    <2>1. /\ ctl.gen < MaxGen /\ ctl' = [ctl EXCEPT !.gen = g]
          /\ Puts(tenant, n, LoadedFrom(indexes, g), tenant')
          /\ queue' = [queue EXCEPT ![n] = Recovered(local[n], g)]
      BY <1>4 DEF Restart, Loaded, LoadedFrom, IndexFor, IndexOf, Puts
    <2>2. g \in Gens /\ g \in Nat /\ ctl.gen <= g /\ g <= g
      BY <1>1, <2>1, GensFacts
    <2>3. ctl' \in CtlRec /\ ctl'.gen = g
      BY <1>1, <2>1, <2>2 DEF CtlRec
    <2>4. World(tenant, indexes, objects, produced, g, grants)
      BY <1>1, <2>1, WorldIssues
    <2>5. \A m \in Nodes : Owns(tenant, grants, m, g) => m = n
      <3>1. \A m \in Nodes : tenant[m].gen \in Nat
        BY <1>1, ShardFacts, GensFacts
      <3>2. \A m \in Nodes : tenant[m].gen <= ctl.gen /\ (<<m, g>> \in grants => g <= ctl.gen)
        BY <1>1, <2>2 DEF GenerationsAreIssued
      <3>3. \A m \in Nodes : ~Owns(tenant, grants, m, g)
        BY <1>1, <3>1, <3>2 DEF Owns
      <3> QED BY <3>3
    <2> HIDE DEF g
    <2>6. /\ World(tenant', indexes, objects, produced, g, grants)
          /\ RetiredIn(tenant, indexes, produced) \subseteq RetiredIn(tenant', indexes, produced)
          /\ LoadableIn(tenant, indexes, produced) \subseteq LoadableIn(tenant', indexes, produced)
      BY <2>1, <2>2, <2>4, <2>5, WorldLoads
    <2>7. Retired \subseteq Retired' /\ Loadable \subseteq Loadable'
      BY <1>2, <2>6 DEF Retired, Loadable
    <2>8. NodeInv(Recovered(local[n], g), local[n], g, Retired, Loadable)
      BY <1>1, <2>2, NodeRecovers DEF g
    <2>9. NodeInv(Recovered(local[n], g), local[n], g, Retired', Loadable')
      BY <2>2, <2>7, <2>8, NodeKeeps
    <2> QED BY <1>1, <1>2, <2>1, <2>2, <2>3, <2>6, <2>7, <2>9, NodeSteps
  <1> QED BY <1>3, <1>4

\* Compaction refers to a layer nobody can have retired.
LEMMA CompactKeeps ==
  ASSUME QueueAssumption, QueueInv, NEW n \in Nodes, NEW D, Compact(n, D)
  PROVE  QueueInv'
PROOF
  <1> DEFINE p == produced
             t == [tenant[n] EXCEPT !.layers = (@ \ D) \cup {p + 1}, !.lsn = p + 1,
                                    !.op = "index", !.unlinked = D]
  <1>1. /\ World(tenant, indexes, objects, p, ctl.gen, grants)
        /\ ctl.gen \in Nat /\ ctl \in CtlRec /\ tenant \in [Nodes -> ShardRec]
        /\ tenant[n] \in ShardRec /\ p \in Nat /\ ShardIsSound(tenant[n], indexes, p)
        /\ tenant[n].visible \in LoadableIn(tenant, indexes, p)
    BY NodeFacts DEF Loadable
  <1>2. /\ UNCHANGED <<ctl, grants, indexes, local, queue>>
        /\ Puts(tenant, n, t, tenant') /\ produced' = p + 1
        /\ objects' = objects \cup {p + 1}
        /\ tenant[n].gen # 0 /\ D \subseteq tenant[n].layers
    BY <1>1 DEF Compact, Puts
  <1>3. /\ t.gen = tenant[n].gen /\ t.layers = (tenant[n].layers \ D) \cup {p + 1}
        /\ t.lsn = p + 1 /\ t.op = "index" /\ t.unlinked = D /\ t.visible = tenant[n].visible
    BY <1>1 DEF ShardRec
  <1>4. /\ tenant[n].layers \subseteq 1..p /\ tenant[n].lsn <= p /\ tenant[n].lsn \in Nat
        /\ tenant[n].layers \subseteq Nat
    BY <1>1, ShardFacts DEF ShardIsSound
  <1>5. t \in ShardRec
    <2>1. (tenant[n].layers \ D) \cup {p + 1} \subseteq Nat /\ p + 1 \in Nat /\ D \subseteq Nat
      BY <1>1, <1>2, <1>4
    <2> QED BY <1>1, <2>1 DEF ShardRec
  <1> HIDE DEF t
  <1>6. ShardIsSound(t, indexes, p + 1)
    <2>1. 1..p \subseteq 1..(p + 1) /\ p + 1 \in 1..(p + 1) /\ p + 1 \notin 1..p /\ p + 1 <= p + 1
          /\ p + 1 # 0
      BY <1>1
    <2> QED BY <1>2, <1>3, <1>4, <2>1 DEF ShardIsSound
  <1>7. p <= p + 1 /\ p + 1 \in Nat /\ GoesOn(tenant[n], t, objects, objects \cup {p + 1}, p, p + 1)
    <2>1. /\ tenant[n].lsn <= t.lsn /\ p <= p + 1 /\ p + 1 \in Nat
          /\ t.layers \subseteq tenant[n].layers \cup (p + 1)..(p + 1)
          /\ tenant[n].layers \subseteq objects => t.layers \subseteq objects \cup {p + 1}
      BY <1>1, <1>3, <1>4
    <2> QED BY <1>3, <2>1 DEF GoesOn
  <1>8. objects \subseteq objects \cup {p + 1} /\ t.visible \in LoadableIn(tenant, indexes, p)
    BY <1>1, <1>3
  <1>9. /\ World(tenant', indexes, objects \cup {p + 1}, p + 1, ctl.gen, grants)
        /\ RetiredIn(tenant, indexes, p) \subseteq RetiredIn(tenant', indexes, p + 1)
        /\ LoadableIn(tenant, indexes, p) \subseteq LoadableIn(tenant', indexes, p + 1)
    <2> HIDE DEF p
    <2> QED BY <1>1, <1>2, <1>3, <1>5, <1>6, <1>7, <1>8, WorldWorks
  <1>10. Retired \subseteq Retired' /\ Loadable \subseteq Loadable'
    BY <1>2, <1>9 DEF Retired, Loadable
  <1>11. ctl' = ctl /\ ctl.gen <= ctl.gen
    BY <1>1, <1>2
  <1> QED BY <1>1, <1>2, <1>9, <1>10, <1>11, WorldSteps

\* The index is uploaded, and the LSN update queued.
LEMMA UploadIndexKeeps ==
  ASSUME QueueAssumption, QueueInv, NEW n \in Nodes, UploadIndex(n)
  PROVE  QueueInv'
PROOF
  <1> DEFINE op == IF tenant[n].unlinked = {} THEN "none" ELSE "delete"
             x == [layers |-> tenant[n].layers, lsn |-> tenant[n].lsn]
             u == IF ProcessLsnUpdates THEN [gen |-> tenant[n].gen, lsn |-> tenant[n].lsn]
                  ELSE queue[n].lsns
             q == [queue[n] EXCEPT !.lsns = u]
  <1>1. /\ World(tenant, indexes, objects, produced, ctl.gen, grants)
        /\ ctl.gen \in Nat /\ ctl \in CtlRec /\ tenant \in [Nodes -> ShardRec]
        /\ queue \in [Nodes -> QueueRec] /\ local \in [Nodes -> DiskRec]
        /\ tenant[n] \in ShardRec /\ queue[n] \in QueueRec
        /\ indexes \in [Gens -> IndexRec]
        /\ NodeInv(queue[n], local[n], ctl.gen, Retired, Loadable)
    BY NodeFacts
  <1>2. /\ UNCHANGED <<ctl, grants, objects, local, produced>> /\ tenant[n].op = "index"
        /\ Puts(indexes, tenant[n].gen, x, indexes')
        /\ Puts(tenant, n, [tenant[n] EXCEPT !.op = op], tenant')
        /\ queue' = [queue EXCEPT ![n] = q] /\ local' = [local EXCEPT ![n] = local[n]]
    BY <1>1 DEF UploadIndex, Puts
  <1>3. op \in {"none", "delete"}
    OBVIOUS
  <1> HIDE DEF op
  <1>4. /\ World(tenant', indexes', objects, produced, ctl.gen, grants)
        /\ RetiredIn(tenant, indexes, produced) \subseteq RetiredIn(tenant', indexes', produced)
        /\ LoadableIn(tenant, indexes, produced) \subseteq LoadableIn(tenant', indexes', produced)
        /\ LsnClaim([gen |-> tenant[n].gen, lsn |-> tenant[n].lsn], ctl.gen,
                    LoadableIn(tenant', indexes', produced))
    BY <1>1, <1>2, <1>3, WorldUploads
  <1>5. Retired \subseteq Retired' /\ Loadable \subseteq Loadable'
        /\ LsnClaim([gen |-> tenant[n].gen, lsn |-> tenant[n].lsn], ctl.gen, Loadable')
    BY <1>2, <1>4 DEF Retired, Loadable
  <1>6. ctl' = ctl /\ ctl.gen <= ctl.gen
    BY <1>1, <1>2
  <1>7. NodeInv(queue[n], local[n], ctl.gen, Retired', Loadable')
    BY <1>1, <1>5, <1>6, NodeKeeps
  <1>8. u \in LsnRec /\ LsnClaim(u, ctl.gen, Loadable')
    <2>1. LsnClaim(queue[n].lsns, ctl.gen, Loadable') /\ queue[n].lsns \in LsnRec
      BY <1>1, <1>7, QueueTypes DEF NodeInv, ClaimsHold
    <2>2. [gen |-> tenant[n].gen, lsn |-> tenant[n].lsn] \in LsnRec
      BY <1>1, ShardFacts, GensFacts DEF LsnRec
    <2> QED BY <1>5, <2>1, <2>2
  <1> HIDE DEF u
  <1>9. NodeInv(q, local[n], ctl.gen, Retired', Loadable')
    BY <1>1, <1>7, <1>8, NodeUpdatesLsn
  <1> QED BY <1>1, <1>2, <1>4, <1>5, <1>6, <1>9, NodeSteps

\* The layers that an index no longer has go to the list that is being filled, after a flush
\* of the list when it is of another generation.
LEMMA PushLayersKeeps ==
  ASSUME QueueAssumption, QueueInv, NEW n \in Nodes, PushLayers(n)
  PROVE  QueueInv' /\ \A l \in local[n].lists : l \in local'[n].lists
PROOF
  <1> DEFINE q == queue[n]
             t == tenant[n]
             G == ctl.gen
             t2 == [t EXCEPT !.op = "none", !.unlinked = {}]
             other == q.pending.objs # {} /\ q.pending.gen # t.gen
             base == IF other THEN Flushed(q) ELSE q
             d2 == IF other THEN Stored(local[n], q.pending) ELSE local[n]
             p == List(base.pending.seq, t.gen, base.pending.objs \cup t.unlinked)
  <1>1. /\ World(tenant, indexes, objects, produced, G, grants)
        /\ G \in Nat /\ ctl \in CtlRec /\ tenant \in [Nodes -> ShardRec]
        /\ queue \in [Nodes -> QueueRec] /\ local \in [Nodes -> DiskRec]
        /\ t \in ShardRec /\ q \in QueueRec /\ produced \in Nat
        /\ NodeInv(q, local[n], G, Retired, Loadable)
        /\ ShardIsSound(t, indexes, produced)
        /\ t.visible \in LoadableIn(tenant, indexes, produced)
    BY NodeFacts DEF Loadable
  <1>2. /\ UNCHANGED <<ctl, grants, objects, indexes, produced>> /\ t.op = "delete"
        /\ Puts(tenant, n, t2, tenant')
    BY <1>1 DEF PushLayers, Puts
  <1>3. \/ /\ queue' = [queue EXCEPT ![n] = [base EXCEPT !.pending = p]]
           /\ local' = [local EXCEPT ![n] = d2]
        \/ UNCHANGED <<queue, local>>
    <2>1. \/ /\ queue' = [queue EXCEPT ![n] =
                 [base EXCEPT !.pending = List(@.seq, t.gen, @.objs \cup t.unlinked)]]
             /\ local' = IF other THEN [local EXCEPT ![n] = Stored(@, q.pending)] ELSE local
          \/ UNCHANGED <<queue, local>>
      BY DEF PushLayers
    <2>2. local = [local EXCEPT ![n] = local[n]]
      BY <1>1
    <2>3. [base EXCEPT !.pending = List(@.seq, t.gen, @.objs \cup t.unlinked)]
            = [base EXCEPT !.pending = p]
      OBVIOUS
    <2>4. (IF other THEN [local EXCEPT ![n] = Stored(@, q.pending)] ELSE local)
            = [local EXCEPT ![n] = d2]
      <3>1. CASE other
        BY <3>1
      <3>2. CASE ~other
        BY <2>2, <3>2
      <3> QED BY <3>1, <3>2
    <2> QED BY <2>1, <2>3, <2>4
  <1>4. /\ t2.gen = t.gen /\ t2.layers = t.layers /\ t2.lsn = t.lsn /\ t2.op = "none"
        /\ t2.unlinked = {} /\ t2.visible = t.visible /\ t2 \in ShardRec
    BY <1>1 DEF ShardRec
  <1> HIDE DEF t2
  <1>5. ShardIsSound(t2, indexes, produced)
    BY <1>1, <1>4 DEF ShardIsSound
  <1>6. /\ GoesOn(t, t2, objects, objects, produced, produced) /\ produced <= produced
        /\ objects \subseteq objects /\ t2.visible \in LoadableIn(tenant, indexes, produced)
    <2>1. t.lsn \in Nat
      BY <1>1, ShardFacts
    <2> QED BY <1>1, <1>4, <2>1 DEF GoesOn
  <1>7. /\ World(tenant', indexes, objects, produced, G, grants)
        /\ RetiredIn(tenant, indexes, produced) \subseteq RetiredIn(tenant', indexes, produced)
        /\ LoadableIn(tenant, indexes, produced) \subseteq LoadableIn(tenant', indexes, produced)
    BY <1>1, <1>2, <1>4, <1>5, <1>6, WorldWorks
  <1>8. Retired \subseteq Retired' /\ Loadable \subseteq Loadable'
    BY <1>2, <1>7 DEF Retired, Loadable
  <1>9. ctl' = ctl /\ ctl.gen <= ctl.gen
    BY <1>1, <1>2
  <1>10. t.gen <= G /\ (t.gen = G => t.unlinked \subseteq Retired)
    BY <1>1, <1>2, UnlinkedIsRetired DEF Retired
  <1>11. /\ NodeInv(base, d2, G, Retired, Loadable)
         /\ \A l \in local[n].lists : l \in d2.lists
         /\ base.pending.objs = {} \/ (base.pending.gen = t.gen)
    <2>1. CASE other
      <3>1. /\ NodeInv(Flushed(q), Stored(local[n], q.pending), G, Retired, Loadable)
            /\ Flushed(q).pending = List(q.pending.seq + 1, 0, {})
            /\ \A l \in local[n].lists : l \in Stored(local[n], q.pending).lists
        BY <1>1, <2>1, NodeFlushes
      <3> QED BY <2>1, <3>1 DEF List
    <2>2. CASE ~other
      BY <1>1, <2>2
    <2> QED BY <2>1, <2>2
  <1> HIDE DEF base, d2, other
  <1>12. p \in ListRec /\ p.seq = base.pending.seq /\ Claim(p, G, Retired)
    <2>1. base.pending \in ListRec /\ Claim(base.pending, G, Retired)
      BY <1>11, QueueTypes DEF NodeInv, ClaimsHold
    <2>2. base.pending.seq \in Nat /\ base.pending.objs \subseteq Nat /\ t.gen \in Nat
          /\ t.unlinked \subseteq Nat
      BY <1>1, <2>1, ShardFacts, GensFacts DEF ListRec
    <2>3. p.seq = base.pending.seq /\ p.gen = t.gen /\ p.objs = base.pending.objs \cup t.unlinked
      BY DEF List
    <2>4. p \in ListRec
      BY <2>2 DEF List, ListRec
    <2>5. t.gen = G => base.pending.objs \subseteq Retired
      BY <1>11, <2>1 DEF Claim
    <2> QED BY <1>10, <2>3, <2>4, <2>5 DEF Claim
  <1> HIDE DEF p
  <1>13. NodeInv([base EXCEPT !.pending = p], d2, G, Retired, Loadable)
    BY <1>1, <1>11, <1>12, NodeFills
  <1>14. NodeInv([base EXCEPT !.pending = p], d2, G, Retired', Loadable')
    BY <1>1, <1>8, <1>9, <1>13, NodeKeeps
  <1>15. CASE UNCHANGED <<queue, local>>
    BY <1>1, <1>2, <1>7, <1>8, <1>9, <1>15, WorldSteps
  <1>16. CASE /\ queue' = [queue EXCEPT ![n] = [base EXCEPT !.pending = p]]
              /\ local' = [local EXCEPT ![n] = d2]
    <2>1. QueueInv'
      BY <1>1, <1>2, <1>7, <1>8, <1>9, <1>14, <1>16, NodeSteps
    <2>2. local'[n] = d2
      BY <1>1, <1>16
    <2> QED BY <1>11, <2>1, <2>2
  <1> QED BY <1>3, <1>15, <1>16 DEF p

\* ListWriter stores the list and sends it on.
LEMMA FlushListsKeeps ==
  ASSUME QueueAssumption, QueueInv, NEW n \in Nodes, FlushLists(n)
  PROVE  QueueInv' /\ \A l \in local[n].lists : l \in local'[n].lists
PROOF
  <1> DEFINE q == queue[n]
             d2 == Stored(local[n], q.pending)
  <1>1. /\ ctl.gen \in Nat /\ NodeInv(q, local[n], ctl.gen, Retired, Loadable)
        /\ local \in [Nodes -> DiskRec]
    BY NodeFacts
  <1>2. /\ UNCHANGED <<ctl, grants, objects, indexes, tenant, produced>> /\ q.pending.objs # {}
        /\ queue' = [queue EXCEPT ![n] = Flushed(q)] /\ local' = [local EXCEPT ![n] = d2]
    BY DEF FlushLists
  <1>3. /\ NodeInv(Flushed(q), d2, ctl.gen, Retired, Loadable)
        /\ \A l \in local[n].lists : l \in d2.lists
    BY <1>1, <1>2, NodeFlushes
  <1> HIDE DEF d2
  <1>4. local'[n] = d2
    BY <1>1, <1>2
  <1>5. QueueInv'
    BY <1>2, <1>3, QueueSteps
  <1> QED BY <1>3, <1>4, <1>5

\* The validator asks.
LEMMA ValidateRequestKeeps ==
  ASSUME QueueAssumption, QueueInv, NEW n \in Nodes, NEW k \in 0..Len(queue[n].sent),
         ValidateRequest(n, k)
  PROVE  QueueInv'
PROOF
  <1> DEFINE q == queue[n]
             lists == SubSeq(q.sent, 1, k)
             g == Max({q.lsns.gen, IF k = 0 THEN 0 ELSE Last(lists).gen})
             q2 == [q EXCEPT !.lsns = NoLsn, !.sent = SubSeq(q.sent, k + 1, Len(q.sent)),
                             !.flush = [Resting EXCEPT !.step = "asked", !.gen = g,
                                           !.update = q.lsns, !.lists = lists]]
  <1>1. /\ ctl.gen \in Nat /\ NodeInv(q, local[n], ctl.gen, Retired, Loadable)
        /\ local \in [Nodes -> DiskRec] /\ queue \in [Nodes -> QueueRec] /\ q \in QueueRec
    BY NodeFacts
  <1>2. /\ UNCHANGED <<ctl, grants, objects, indexes, tenant, produced>> /\ q.flush = Resting
        /\ queue' = [queue EXCEPT ![n] = q2] /\ local' = [local EXCEPT ![n] = local[n]]
    BY <1>1 DEF ValidateRequest
  <1>3. g \in Nat
    <2>1. q.sent \in Seq(ListRec) /\ q.lsns.gen \in Nat
      BY <1>1, QueueTypes DEF LsnRec
    <2>2. lists \in Seq(ListRec) /\ Len(lists) = k
      BY <2>1, SplitFacts
    <2>3. k # 0 => Last(lists).gen \in Nat
      <3> SUFFICES ASSUME k # 0 PROVE Last(lists).gen \in Nat
        OBVIOUS
      <3>1. lists # <<>>
        BY <2>2, SeqFacts
      <3>2. Last(lists) \in ListRec
        <4>1. Last(lists) \in Range(lists) /\ Range(lists) \subseteq ListRec
          <5> HIDE DEF lists
          <5> QED BY <2>2, <3>1, TailFacts, RangeFacts
        <4> QED BY <4>1
      <3> QED BY <3>2 DEF ListRec
    <2> DEFINE e == IF k = 0 THEN 0 ELSE Last(lists).gen
    <2>4. e \in Nat
      BY <2>3
    <2> HIDE DEF e
    <2>5. IsFiniteSet({q.lsns.gen, e}) /\ {q.lsns.gen, e} \subseteq Int /\ {q.lsns.gen, e} # {}
      <3>1. IsFiniteSet({q.lsns.gen}) /\ {q.lsns.gen, e} = {q.lsns.gen} \cup {e}
        BY FS_Singleton
      <3>2. IsFiniteSet({q.lsns.gen} \cup {e})
        BY <3>1, FS_AddElement
      <3>3. IsFiniteSet({q.lsns.gen, e})
        BY <3>1, <3>2, Zenon
      <3>4. q.lsns.gen \in Int /\ e \in Int
        BY <2>1, <2>4
      <3>5. {q.lsns.gen, e} \subseteq Int /\ {q.lsns.gen, e} # {}
        BY <3>4, Zenon
      <3> QED BY <3>3, <3>5, Zenon
    <2>6. Max({q.lsns.gen, e}) \in {q.lsns.gen, e}
      BY <2>5, MaxProperties
    <2> QED BY <2>1, <2>4, <2>6 DEF e
  <1> HIDE DEF g
  <1>4. NodeInv(q2, local[n], ctl.gen, Retired, Loadable)
    BY <1>1, <1>2, <1>3, NodeAsks
  <1> HIDE DEF q2
  <1> QED BY <1>2, <1>4, QueueSteps

\* The controller answers from memory and database.
LEMMA ValidateResponseKeeps ==
  ASSUME QueueAssumption, QueueInv, NEW n \in Nodes, ValidateResponse(n)
  PROVE  QueueInv'
PROOF
  <1> DEFINE q == queue[n]
             v == ValidGeneration(q.flush.gen)
             q2 == [q EXCEPT !.flush.step = "answered", !.flush.valid = v]
  <1>1. /\ ctl.gen \in Nat /\ NodeInv(q, local[n], ctl.gen, Retired, Loadable)
        /\ local \in [Nodes -> DiskRec] /\ queue \in [Nodes -> QueueRec] /\ q \in QueueRec
        /\ q.flush \in FlushRec
    BY NodeFacts, QueueTypes
  <1>2. /\ UNCHANGED <<ctl, grants, objects, indexes, tenant, produced>>
        /\ q.flush.step = "asked" /\ local' = [local EXCEPT ![n] = local[n]]
    BY <1>1 DEF ValidateResponse
  <1>3. queue' = [queue EXCEPT ![n] = q2]
    BY <1>1 DEF ValidateResponse
  <1>4. v \in BOOLEAN /\ (v => q.flush.gen = ctl.gen)
    BY DEF ValidGeneration
  <1> HIDE DEF v
  <1>5. NodeInv(q2, local[n], ctl.gen, Retired, Loadable)
    BY <1>1, <1>2, <1>4, NodeHears
  <1> HIDE DEF q2
  <1> QED BY <1>2, <1>3, <1>5, QueueSteps

\* The answer is applied: the LSN is advertised, stale deletions are dropped.
LEMMA ApplyValidationKeeps ==
  ASSUME QueueAssumption, QueueInv, NEW n \in Nodes, ApplyValidation(n)
  PROVE  QueueInv' /\ \A l \in local[n].lists : \E m \in local'[n].lists : m.seq = l.seq
PROOF
  <1> DEFINE q == queue[n]
             f == q.flush
             d == local[n]
             G == ctl.gen
             t == tenant[n]
             v == IF f.update # NoLsn /\ f.valid /\ f.update.gen = f.gen /\ t.gen = f.update.gen
                  THEN f.update.lsn ELSE t.visible
             t2 == [t EXCEPT !.visible = v]
             trimmed == [i \in DOMAIN q.flush.lists |-> Trimmed(q.flush, q.flush.lists[i])]
             stale == {i \in DOMAIN q.flush.lists : trimmed[i] # q.flush.lists[i]}
  <1>1. /\ World(tenant, indexes, objects, produced, G, grants)
        /\ G \in Nat /\ ctl \in CtlRec /\ tenant \in [Nodes -> ShardRec]
        /\ queue \in [Nodes -> QueueRec] /\ local \in [Nodes -> DiskRec]
        /\ t \in ShardRec /\ q \in QueueRec /\ produced \in Nat
        /\ NodeInv(q, d, G, Retired, Loadable)
        /\ ShardIsSound(t, indexes, produced)
        /\ t.visible \in LoadableIn(tenant, indexes, produced)
    BY NodeFacts, SMTT(60) DEF Loadable
  <1>2. /\ UNCHANGED <<ctl, grants, objects, indexes, produced>> /\ q.flush.step = "answered"
        /\ Puts(tenant, n, t2, tenant')
    BY <1>1 DEF ApplyValidation, PublishLsn, Puts
  <1>4. v \in LoadableIn(tenant, indexes, produced) /\ v \in Nat
    <2>1. q.flush.valid /\ q.flush.update.gen = q.flush.gen =>
            q.flush.update.lsn \in LoadableIn(tenant, indexes, produced)
      BY <1>1, <1>2 DEF NodeInv, AnswerHolds, Loadable
    <2>2. q.flush.update.lsn \in Nat /\ t.visible \in Nat
      BY <1>1, QueueTypes, ShardFacts DEF LsnRec
    <2> QED BY <1>1, <2>1, <2>2
  <1> HIDE DEF v
  <1>5. /\ t2.gen = t.gen /\ t2.layers = t.layers /\ t2.lsn = t.lsn /\ t2.op = t.op
        /\ t2.unlinked = t.unlinked /\ t2.visible = v /\ t2 \in ShardRec
    BY <1>1, <1>4 DEF ShardRec
  <1> HIDE DEF t2
  <1>6. ShardIsSound(t2, indexes, produced)
    BY <1>1, <1>5 DEF ShardIsSound
  <1>7. /\ GoesOn(t, t2, objects, objects, produced, produced) /\ produced <= produced
        /\ objects \subseteq objects /\ t2.visible \in LoadableIn(tenant, indexes, produced)
    <2>1. t.lsn \in Nat
      BY <1>1, ShardFacts
    <2> QED BY <1>1, <1>4, <1>5, <2>1 DEF GoesOn
  <1>8. /\ World(tenant', indexes, objects, produced, G, grants)
        /\ RetiredIn(tenant, indexes, produced) \subseteq RetiredIn(tenant', indexes, produced)
        /\ LoadableIn(tenant, indexes, produced) \subseteq LoadableIn(tenant', indexes, produced)
    BY <1>1, <1>2, <1>5, <1>6, <1>7, WorldWorks, SMTT(60)
  <1>9. Retired \subseteq Retired' /\ Loadable \subseteq Loadable'
    BY <1>2, <1>8 DEF Retired, Loadable
  <1>10. ctl' = ctl /\ ctl.gen <= ctl.gen
    BY <1>1, <1>2
  <1>3. PICK failed \in SUBSET stale :
          /\ local' = [local EXCEPT ![n].lists =
               {l \in @ : \A i \in stale \ failed : l.seq # trimmed[i].seq}
                 \cup {trimmed[i] : i \in stale \ failed}]
          /\ queue' = [queue EXCEPT
               ![n].flush.lists = trimmed,
               ![n].writeFailed = @ \/ failed # {},
               ![n].flush.step = IF q.flush.lists = <<>> THEN "validated" ELSE "header"]
    BY ZenonT(60) DEF ApplyValidation
  <1> DEFINE d2 == [d EXCEPT !.lists = {l \in d.lists : \A i \in stale \ failed : l.seq # trimmed[i].seq}
                                         \cup {trimmed[i] : i \in stale \ failed}]
             q2 == [q EXCEPT !.flush.lists = trimmed, !.writeFailed = q.writeFailed \/ failed # {},
                        !.flush.step = IF q.flush.lists = <<>> THEN "validated" ELSE "header"]
  <1>11. local' = [local EXCEPT ![n] = d2]
    BY <1>1, <1>3, ZenonT(60)
  <1>12. queue' = [queue EXCEPT ![n] = q2]
    BY <1>1, <1>3, ZenonT(60)
  <1>13. /\ NodeInv(q2, d2, G, Retired, Loadable)
         /\ \A l \in d.lists : \E m \in d2.lists : m.seq = l.seq
    <2>1. Trims(q, d, trimmed, stale, failed, q2, d2)
      BY DEF Trims
    <2> HIDE DEF trimmed, stale, q2, d2
    <2> QED BY <1>1, <1>2, <2>1, NodeTrims
  <1> HIDE DEF q2, d2
  <1>14. NodeInv(q2, d2, G, Retired', Loadable')
    BY <1>1, <1>9, <1>10, <1>13, NodeKeeps
  <1>15. QueueInv'
    BY <1>1, <1>2, <1>8, <1>9, <1>10, <1>11, <1>12, <1>14, NodeSteps
  <1>16. local'[n] = d2
    BY <1>1, <1>11
  <1> QED BY <1>13, <1>15, <1>16

\* The header is written.
LEMMA SaveHeaderKeeps ==
  ASSUME QueueAssumption, QueueInv, NEW n \in Nodes, SaveHeader(n)
  PROVE  QueueInv' /\ local'[n].lists = local[n].lists
PROOF
  <1> DEFINE q == queue[n]
             d == local[n]
             q2 == [q EXCEPT !.flush.lists = <<>>, !.validated = q.validated \o q.flush.lists,
                             !.flush.step = "validated"]
             d2 == [d EXCEPT !.header = Last(q.flush.lists).seq]
  <1>1. /\ ctl.gen \in Nat /\ NodeInv(q, d, ctl.gen, Retired, Loadable)
        /\ local \in [Nodes -> DiskRec] /\ queue \in [Nodes -> QueueRec]
        /\ q \in QueueRec /\ q.flush \in FlushRec
    BY NodeFacts, QueueTypes
  <1>2. /\ UNCHANGED <<ctl, grants, objects, indexes, tenant, produced>>
        /\ q.flush.step = "header"
    BY DEF SaveHeader
  <1>3. queue' = [queue EXCEPT ![n] = q2]
    BY <1>1 DEF SaveHeader
  <1>4. \/ local' = [local EXCEPT ![n] = d]
        \/ ~q.writeFailed /\ local' = [local EXCEPT ![n] = d2]
    <2>1. \/ local' = local
          \/ HeaderWritten(q) /\ local' = [local EXCEPT ![n].header = Last(q.flush.lists).seq]
      BY DEF SaveHeader
    <2>2. local = [local EXCEPT ![n] = d]
      BY <1>1
    <2>3. [local EXCEPT ![n].header = Last(q.flush.lists).seq] = [local EXCEPT ![n] = d2]
      OBVIOUS
    <2> QED BY <2>1, <2>2, <2>3 DEF HeaderWritten
  <1>8. Validates(q, d, q2, d) /\ (~q.writeFailed => Validates(q, d, q2, d2))
    BY DEF Validates
  <1> HIDE DEF q2, d2
  <1>5. /\ NodeInv(q2, d, ctl.gen, Retired, Loadable)
        /\ ~q.writeFailed =>
             NodeInv(q2, d2, ctl.gen, Retired, Loadable) /\ d2.lists = d.lists
    BY <1>1, <1>2, <1>8, NodeValidates
  <1>6. QueueInv'
    BY <1>2, <1>3, <1>4, <1>5, QueueSteps
  <1>7. local'[n].lists = d.lists
    BY <1>1, <1>4, <1>5
  <1> QED BY <1>6, <1>7

\* After a restart there may be validated lists only.
LEMMA NothingToValidateKeeps ==
  ASSUME QueueAssumption, QueueInv, NEW n \in Nodes, NothingToValidate(n)
  PROVE  QueueInv'
PROOF
  <1> DEFINE q == queue[n]
             f == [Resting EXCEPT !.step = "validated"]
             q2 == [q EXCEPT !.flush = f]
  <1>1. /\ ctl.gen \in Nat \ {0} /\ NodeInv(q, local[n], ctl.gen, Retired, Loadable)
        /\ local \in [Nodes -> DiskRec] /\ queue \in [Nodes -> QueueRec]
        /\ q \in QueueRec /\ q.flush \in FlushRec
    BY NodeFacts, QueueTypes
  <1>2. /\ UNCHANGED <<ctl, grants, objects, indexes, tenant, produced>>
        /\ q.flush = Resting /\ local' = [local EXCEPT ![n] = local[n]]
        /\ queue' = [queue EXCEPT ![n].flush.step = "validated"]
    BY <1>1 DEF NothingToValidate
  <1>3. queue' = [queue EXCEPT ![n] = q2]
    BY <1>1, <1>2
  <1>4. f \in FlushRec /\ f.step = "validated" /\ f.lists = <<>> /\ f.update = NoLsn
    BY <1>1, <1>2 DEF Resting, FlushRec, Steps
  <1>5. q.flush.step = "idle"
    BY <1>2 DEF Resting
  <1> HIDE DEF f
  <1>6. NodeInv(q2, local[n], ctl.gen, Retired, Loadable)
    BY <1>1, <1>4, <1>5, NodeRests
  <1> HIDE DEF q2
  <1> QED BY <1>2, <1>3, <1>6, QueueSteps

\* The deleter takes objects of validated lists only.
LEMMA DeleteObjectKeeps ==
  ASSUME QueueAssumption, QueueInv, NEW n \in Nodes, NEW o, DeleteObject(n, o)
  PROVE  QueueInv'
PROOF
  <1>1. /\ ctl.gen \in Nat /\ ctl \in CtlRec
        /\ NodeInv(queue[n], local[n], ctl.gen, Retired, Loadable)
        /\ World(tenant, indexes, objects, produced, ctl.gen, grants)
    BY NodeFacts
  <1>2. /\ UNCHANGED <<ctl, grants, indexes, tenant, local, queue, produced>>
        /\ objects' = objects \ {o} /\ o \in ToExecute(n)
    BY DEF DeleteObject
  <1>3. o \in Retired
    <2>1. PICK l \in Range(queue[n].validated) : o \in l.objs
      BY <1>2 DEF ToExecute
    <2> QED BY <1>1, <2>1 DEF NodeInv, ValidatedIsRetired
  <1>4. World(tenant, indexes, objects \ {o}, produced, ctl.gen, grants)
    BY <1>1, <1>3, WorldDeletes DEF Retired
  <1>5. Retired' = Retired /\ Loadable' = Loadable /\ ctl' = ctl /\ ctl.gen <= ctl.gen
    BY <1>1, <1>2 DEF Retired, Loadable
  <1> QED BY <1>1, <1>2, <1>4, <1>5, WorldSteps

\* Files of executed lists are removed; the file that goes is that of the list in memory.
LEMMA CleanupListKeeps ==
  ASSUME QueueAssumption, QueueInv, NEW n \in Nodes, CleanupList(n)
  PROVE  /\ QueueInv'
         /\ \A l \in local[n].lists :
              \/ l \in local'[n].lists
              \/ l.objs \cap objects = {} \/ queue[n].writeFailed
PROOF
  <1> DEFINE q == queue[n]
             d == local[n]
  <1>1. /\ ctl.gen \in Nat \ {0} /\ NodeInv(q, d, ctl.gen, Retired, Loadable)
        /\ local \in [Nodes -> DiskRec] /\ queue \in [Nodes -> QueueRec]
        /\ q \in QueueRec /\ q.flush \in FlushRec /\ q.validated \in Seq(ListRec)
    BY NodeFacts, QueueTypes
  <1>2. /\ UNCHANGED <<ctl, grants, objects, indexes, tenant, produced>>
        /\ q.flush.step = "validated" /\ ToExecute(n) \cap objects = {}
    BY DEF CleanupList, Executed
  <1>3. CASE q.validated = <<>>
    <2> DEFINE q2 == [q EXCEPT !.flush = Resting]
    <2>1. /\ queue' = [queue EXCEPT ![n] = q2] /\ local' = local
          /\ local' = [local EXCEPT ![n] = d]
      BY <1>1, <1>3 DEF CleanupList
    <2>2. /\ Resting \in FlushRec /\ Resting.step = "idle" /\ Resting.lists = <<>>
          /\ Resting.update = NoLsn
      <3>1. <<>> \in Seq(ListRec)
        BY EmptySeq
      <3> QED BY <3>1 DEF FlushRec, Resting, Steps, NoLsn, LsnRec
    <2>3. NodeInv(q2, d, ctl.gen, Retired, Loadable)
      BY <1>1, <1>2, <2>2, NodeRests
    <2> HIDE DEF q2
    <2>4. QueueInv'
      BY <1>2, <2>1, <2>3, QueueSteps
    <2> QED BY <2>1, <2>4
  <1>4. CASE q.validated # <<>>
    <2> DEFINE q2 == [q EXCEPT !.validated = Tail(q.validated)]
               d2 == [d EXCEPT !.lists = {l \in d.lists : l.seq # Head(q.validated).seq}]
    <2>1. queue' = [queue EXCEPT ![n] = q2] /\ local' = [local EXCEPT ![n] = d2]
      BY <1>1, <1>4 DEF CleanupList
    <2>2. NodeInv(q2, d2, ctl.gen, Retired, Loadable)
      BY <1>1, <1>4, NodeCleans
    <2>3. d2.lists = {l \in d.lists : l.seq # Head(q.validated).seq}
      BY <1>1 DEF DiskRec
    <2> HIDE DEF q2, d2
    <2>4. QueueInv'
      BY <1>2, <2>1, <2>2, QueueSteps
    <2>5. local'[n] = d2
      BY <1>1, <2>1
    <2>6. ASSUME NEW l \in d.lists, l \notin d2.lists, ~q.writeFailed PROVE l.objs \cap objects = {}
      <3>1. Head(q.validated) \in Range(q.validated) /\ l.seq = Head(q.validated).seq
        BY <1>1, <1>4, <2>3, <2>6, TailFacts
      <3>2. Head(q.validated).objs = l.objs
        BY <1>1, <2>6, <3>1 DEF NodeInv, DiskIsSound, Matches
      <3> QED BY <1>2, <3>1, <3>2 DEF ToExecute
    <2> QED BY <2>4, <2>5, <2>6
  <1> QED BY <1>3, <1>4

-----------------------------------------------------------------------------
(* The theorems *)

\* Every step of a node's workers keeps the invariant.
LEMMA WorkerKeeps ==
  ASSUME QueueAssumption, QueueInv, NEW n \in Nodes, Worker(n)
  PROVE  QueueInv'
PROOF
  <1>1. CASE FlushLists(n)
    BY <1>1, FlushListsKeeps
  <1>2. CASE \E k \in 0..Len(queue[n].sent) : ValidateRequest(n, k)
    BY <1>2, ValidateRequestKeeps
  <1>3. CASE ValidateResponse(n)
    BY <1>3, ValidateResponseKeeps
  <1>4. CASE ApplyValidation(n)
    BY <1>4, ApplyValidationKeeps
  <1>5. CASE SaveHeader(n)
    BY <1>5, SaveHeaderKeeps
  <1>6. CASE NothingToValidate(n)
    BY <1>6, NothingToValidateKeeps
  <1>7. CASE \E o \in Layers : DeleteObject(n, o)
    BY <1>7, DeleteObjectKeeps
  <1>8. CASE CleanupList(n)
    BY <1>8, CleanupListKeeps
  <1> QED BY <1>1, <1>2, <1>3, <1>4, <1>5, <1>6, <1>7, <1>8 DEF Worker

\* The invariant is inductive.
LEMMA QueueInvNext == QueueAssumption /\ QueueInv /\ [Next]_vars => QueueInv'
PROOF
  <1> SUFFICES ASSUME QueueAssumption, QueueInv, [Next]_vars PROVE QueueInv'
    OBVIOUS
  <1>1. CASE ApplyGeneration
    BY <1>1, ControllerKeeps DEF QueueAssumption
  <1>2. ASSUME NEW n \in Nodes,
               \/ IncrementGeneration(n) \/ Restart(n) \/ Detach(n)
               \/ \E g \in Gens : Attach(n, g)
               \/ \E D \in SUBSET Layers : Compact(n, D)
               \/ UploadIndex(n) \/ PushLayers(n)
               \/ Worker(n)
        PROVE  QueueInv'
    <2>1. CASE IncrementGeneration(n)
      BY <2>1, ControllerKeeps
    <2>2. CASE Restart(n)
      BY <2>2, RestartKeeps
    <2>3. CASE Detach(n)
      BY <2>3, DetachKeeps
    <2>4. CASE \E g \in Gens : Attach(n, g)
      BY <2>4, AttachKeeps
    <2>5. CASE \E D \in SUBSET Layers : Compact(n, D)
      BY <2>5, CompactKeeps
    <2>6. CASE UploadIndex(n)
      BY <2>6, UploadIndexKeeps
    <2>7. CASE PushLayers(n)
      BY <2>7, PushLayersKeeps
    <2>8. CASE Worker(n)
      BY <2>8, WorkerKeeps
    <2> QED BY <1>2, <2>1, <2>2, <2>3, <2>4, <2>5, <2>6, <2>7, <2>8
  <1>3. CASE UNCHANGED vars
    BY <1>3 DEF vars, QueueInv, QueueTypeOK, Retired, Loadable
  <1> QED BY <1>1, <1>2, <1>3 DEF Next

\* Latest is what the index of the highest generation says.
LEMMA LatestIsTop ==
  ASSUME QueueAssumption, QueueInv
  PROVE  /\ Latest = indexes[TopOf(indexes)] /\ TopOf(indexes) \in Gens
         /\ \A n \in Nodes : tenant[n].gen = ctl.gen => Current(tenant, indexes, n)
PROOF
  <1>1. /\ indexes[1] # NoIndex /\ ctl.gen \in Gens
        /\ \A g \in Gens : g > ctl.gen => indexes[g] = NoIndex
    BY DEF QueueInv, World, WorldTypes, GenerationsAreIssued
  <1>2. TopOf(indexes) \in Gens /\ indexes[TopOf(indexes)] # NoIndex
    BY <1>1, TopFacts
  <1>3. TopOf(indexes) <= ctl.gen
    BY <1>1, <1>2, GensFacts
  <1>4. ctl.gen >= TopOf(indexes)
    BY <1>1, <1>2, <1>3, GensFacts
  <1>5. Latest = indexes[TopOf(indexes)]
    BY DEF Latest, IndexFor, TopOf, IndexOf
  <1> QED BY <1>2, <1>4, <1>5 DEF Current

\* The layers of the index that a new attachment loads, and those of the shard attached
\* in the latest generation, are in remote storage, whatever nodes of older generations,
\* late validate answers, lists recovered after restarts and failed writes still do.
THEOREM LiveLayersAreKept == QueueAssumption => (Spec => []IndexedLayersExist)
PROOF
  <1> SUFFICES ASSUME QueueAssumption PROVE Spec => []IndexedLayersExist
    OBVIOUS
  <1>1. QueueInv => IndexedLayersExist
    <2> SUFFICES ASSUME QueueInv PROVE IndexedLayersExist
      OBVIOUS
    <2>1. LiveLayersExist(tenant, indexes, objects)
      BY DEF QueueInv, World
    <2> QED BY <2>1, LatestIsTop DEF LiveLayersExist, IndexedLayersExist
  <1>2. Init => QueueInv
    BY QueueInvInit
  <1>3. QueueInv /\ [Next]_vars => QueueInv'
    BY QueueInvNext
  <1> QED BY <1>1, <1>2, <1>3, PTL DEF Spec

\* No node advertises a remote_consistent_lsn that the index a new attachment loads does
\* not have: safekeepers drop WAL below it.
THEOREM AdvertisedLsnsAreLoadable == QueueAssumption => (Spec => []VisibleLsnIsLoadable)
PROOF
  <1> SUFFICES ASSUME QueueAssumption PROVE Spec => []VisibleLsnIsLoadable
    OBVIOUS
  <1>1. QueueInv => VisibleLsnIsLoadable
    <2> SUFFICES ASSUME QueueInv, NEW n \in Nodes
                 PROVE  tenant[n].visible <= Latest.lsn
      BY DEF VisibleLsnIsLoadable
    <2>1. tenant[n].visible \in LoadableIn(tenant, indexes, produced)
      BY DEF QueueInv, World
    <2> QED BY <2>1, LatestIsTop DEF LoadableIn
  <1>2. Init => QueueInv
    BY QueueInvInit
  <1>3. QueueInv /\ [Next]_vars => QueueInv'
    BY QueueInvNext
  <1> QED BY <1>1, <1>2, <1>3, PTL DEF Spec

\* What ListWriter::recover hands to the deleter without asking the controller again, the
\* lists that the header covers, names no layer of the index that attachments load.
THEOREM HeadersCoverValidLists == QueueAssumption => (Spec => []HeaderCoversValidLists)
PROOF
  <1> SUFFICES ASSUME QueueAssumption PROVE Spec => []HeaderCoversValidLists
    OBVIOUS
  <1>1. QueueInv => HeaderCoversValidLists
    <2> SUFFICES ASSUME QueueInv, NEW n \in Nodes, NEW l \in local[n].lists,
                        l.seq <= local[n].header
                 PROVE  l.objs \cap Latest.layers = {}
      BY DEF HeaderCoversValidLists
    <2>1. l.objs \subseteq Retired
      BY DEF QueueInv, NodeInv, DiskIsSound
    <2> QED BY <2>1, LatestIsTop DEF Retired, RetiredIn
  <1>2. Init => QueueInv
    BY QueueInvInit
  <1>3. QueueInv /\ [Next]_vars => QueueInv'
    BY QueueInvNext
  <1> QED BY <1>1, <1>2, <1>3, PTL DEF Spec

\* ListWriter never gives a list the number of one on disk, nor one that the header covers.
THEOREM SequencesAreFresh == QueueAssumption => (Spec => []SequenceIsFresh)
PROOF
  <1> SUFFICES ASSUME QueueAssumption PROVE Spec => []SequenceIsFresh
    OBVIOUS
  <1>1. QueueInv => SequenceIsFresh
    BY DEF QueueInv, NodeInv, InSequence, Before, SequenceIsFresh
  <1>2. Init => QueueInv
    BY QueueInvInit
  <1>3. QueueInv /\ [Next]_vars => QueueInv'
    BY QueueInvNext
  <1> QED BY <1>1, <1>2, <1>3, PTL DEF Spec

\* In one step, the file of a list goes only when its objects have been deleted.
LEMMA ListsGoNext ==
  ASSUME QueueAssumption, QueueInv, Next
  PROVE  ListsGoWhenExecuted
PROOF
  <1> SUFFICES ASSUME NEW m \in Nodes, NEW l \in local[m].lists,
                      \A k \in local'[m].lists : k.seq # l.seq
               PROVE  l.objs \cap objects = {} \/ queue[m].writeFailed
    BY DEF ListsGoWhenExecuted
  <1>1. local \in [Nodes -> DiskRec] /\ local'[m] # local[m] /\ l \notin local'[m].lists
    BY DEF QueueInv, QueueTypeOK
  <1>2. ~ApplyGeneration
    BY <1>1 DEF ApplyGeneration
  <1>3. PICK n \in Nodes :
               \/ IncrementGeneration(n) \/ Restart(n) \/ Detach(n)
               \/ \E g \in Gens : Attach(n, g)
               \/ \E D \in SUBSET Layers : Compact(n, D)
               \/ UploadIndex(n) \/ PushLayers(n)
               \/ Worker(n)
    BY <1>2, ZenonT(60) DEF Next
  <1>4. /\ ~IncrementGeneration(n) /\ ~Restart(n) /\ ~Detach(n)
        /\ ~\E g \in Gens : Attach(n, g)
        /\ ~\E D \in SUBSET Layers : Compact(n, D)
        /\ ~UploadIndex(n)
    BY <1>1 DEF IncrementGeneration, Restart, Detach, Attach, Compact, UploadIndex
  <1>5. /\ ~\E k \in 0..Len(queue[n].sent) : ValidateRequest(n, k)
        /\ ~ValidateResponse(n) /\ ~NothingToValidate(n)
        /\ ~\E o \in Layers : DeleteObject(n, o)
    BY <1>1 DEF ValidateRequest, ValidateResponse, NothingToValidate, DeleteObject
  <1>6. CASE PushLayers(n)
    <2>1. n = m
      BY <1>1, <1>6 DEF PushLayers
    <2> QED BY <1>1, <1>6, <2>1, PushLayersKeeps
  <1>7. CASE FlushLists(n)
    <2>1. n = m
      BY <1>1, <1>7 DEF FlushLists
    <2> QED BY <1>1, <1>7, <2>1, FlushListsKeeps
  <1>8. CASE ApplyValidation(n)
    <2>1. n = m
      BY <1>1, <1>8 DEF ApplyValidation
    <2> QED BY <1>8, <2>1, ApplyValidationKeeps, ZenonT(60)
  <1>9. CASE SaveHeader(n)
    <2>1. n = m
      BY <1>1, <1>9 DEF SaveHeader
    <2> QED BY <1>1, <1>9, <2>1, SaveHeaderKeeps
  <1>10. CASE CleanupList(n)
    <2>1. n = m
      BY <1>1, <1>10 DEF CleanupList
    <2> QED BY <1>1, <1>10, <2>1, CleanupListKeeps
  <1> QED BY <1>3, <1>4, <1>5, <1>6, <1>7, <1>8, <1>9, <1>10 DEF Worker

\* A stored list, the only trace of its deletions, leaves the disk only when the deleter
\* has deleted its objects, or after a stale list could not be rewritten.
THEOREM DeletionsAreNotLost == QueueAssumption => (Spec => [][ListsGoWhenExecuted]_vars)
PROOF
  <1> SUFFICES ASSUME QueueAssumption PROVE Spec => [][ListsGoWhenExecuted]_vars
    OBVIOUS
  <1>1. QueueInv /\ [Next]_vars => [ListsGoWhenExecuted]_vars
    BY ListsGoNext
  <1>2. Init => QueueInv
    BY QueueInvInit
  <1>3. QueueInv /\ [Next]_vars => QueueInv'
    BY QueueInvNext
  <1> QED BY <1>1, <1>2, <1>3, PTL DEF Spec

=============================================================================
