---------------------------- MODULE TermHistory ----------------------------
(***************************************************************************)
(* Term histories: the list of (term, lsn) switches that identifies WAL.   *)
(* Every walproposer that wins a term appends the entry                    *)
(*     [term |-> its term, lsn |-> the LSN its own WAL starts at]          *)
(* to the history of the safekeeper it recovered from.  A safekeeper       *)
(* adopts the whole list with ProposerElected, before it has the WAL.      *)
(*                                                                         *)
(* The point where two histories diverge is computed twice in the code, in *)
(* Rust (TermHistory::find_highest_common_point) and in C                  *)
(* (SendProposerElected); both are here.                                   *)
(***************************************************************************)
EXTENDS Integers, SequencesExt

Higher(a, b) == IF a >= b THEN a ELSE b
Lower(a, b) == IF a <= b THEN a ELSE b

\* The entries that begin at or before upTo: the scan stops at the first one
\* that begins later.
UpTo(th, upTo) ==
  LET n == CHOOSE k \in 0..Len(th) :
             /\ \A i \in 1..k : th[i].lsn <= upTo
             /\ k < Len(th) => th[k + 1].lsn > upTo
  IN  SubSeq(th, 1, n)

\* The term of the last entry, 0 when there is none.
HighestTerm(th) == IF th = <<>> THEN 0 ELSE Last(th).term

\* AcceptorState::get_last_log_term: the term of the last WAL a safekeeper has.
LastLogTerm(th, flushLsn) == HighestTerm(UpTo(th, flushLsn))

\* How many leading entries of the two lists have the same term.
CommonEntries(th1, th2) ==
  CHOOSE k \in 0..Lower(Len(th1), Len(th2)) :
    /\ \A i \in 1..k : th1[i].term = th2[i].term
    /\ k < Lower(Len(th1), Len(th2)) => th1[k + 1].term # th2[k + 1].term

\* No common entry: Option::None.
NoPoint == [term |-> 0, lsn |-> 0]

\* Mutant of FindHighestCommonPoint: the safekeeper's own end of term is forgotten.
FindHighestCommonPoint_NoSkEnd(propTh, skTh, skWalEnd) ==
  LET last == CommonEntries(propTh, skTh)
  IN  IF last = 0 THEN NoPoint
      ELSE [term |-> propTh[last].term,
            lsn  |-> IF last = Len(propTh) THEN skWalEnd ELSE propTh[last + 1].lsn]

\* TermHistory::find_highest_common_point.  The proposer's history ends at
\* infinity, the safekeeper's at skWalEnd.
FindHighestCommonPoint(propTh, skTh, skWalEnd) ==
  LET last      == CommonEntries(propTh, skTh)
      skTermEnd == IF last < Len(skTh) THEN skTh[last + 1].lsn ELSE skWalEnd
  IN  IF last = 0 THEN NoPoint
      ELSE [term |-> propTh[last].term,
            lsn  |-> IF last = Len(propTh) THEN skWalEnd
                     ELSE Lower(propTh[last + 1].lsn, skTermEnd)]

\* Where handle_elected expects WAL to be cut: at the common point, or at the
\* start of the walproposer's history when there is none.
ExpectedTruncation(propTh, skTh, skWalEnd) ==
  LET lcp == FindHighestCommonPoint(propTh, skTh, skWalEnd)
  IN  IF lcp = NoPoint THEN propTh[1].lsn ELSE lcp.lsn

\* Mutant of StartStreamingAt: the end of the safekeeper's common term is taken to
\* be the end of its WAL.
StartStreamingAt_WalEnd(propTh, propTerm, skTh, flushLsn) ==
  LET last == CommonEntries(propTh, skTh)
  IN  IF last = 0 THEN propTh[1].lsn
      ELSE IF propTh[last].term = propTerm THEN flushLsn
      ELSE Lower(propTh[last + 1].lsn, flushLsn)

\* SendProposerElected: where walproposer starts streaming to a safekeeper
\* that voted with history skTh and end of WAL flushLsn.
StartStreamingAt(propTh, propTerm, skTh, flushLsn) ==
  LET last      == CommonEntries(propTh, skTh)
      skTermEnd == IF last < Len(skTh) THEN skTh[last + 1].lsn ELSE flushLsn
  IN  IF last = 0 THEN propTh[1].lsn
      ELSE IF propTh[last].term = propTerm THEN flushLsn
      ELSE Lower(propTh[last + 1].lsn, skTermEnd)

-----------------------------------------------------------------------------
(***************************************************************************)
(* What a history says: the term that wrote the WAL at each LSN.  WAL is a *)
(* sequence of terms, one per LSN from startLsn on.                        *)
(***************************************************************************)

\* The term that wrote the WAL unit at lsn, according to th.
TermAt(th, lsn) == LastLogTerm(th, lsn)

\* The WAL between startLsn and endLsn that th describes.
WalOf(th, startLsn, endLsn) ==
  [i \in 1..(endLsn - startLsn) |-> TermAt(th, startLsn + i - 1)]

=============================================================================
