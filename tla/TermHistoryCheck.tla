-------------------------- MODULE TermHistoryCheck --------------------------
(***************************************************************************)
(* All the term histories that elections can produce, and the divergence   *)
(* point of every two of them against its definition: the end of the       *)
(* longest common prefix of the WAL they describe.                         *)
(***************************************************************************)
EXTENDS TermHistory

CONSTANTS StartLsn,   \* where the timeline's WAL starts
          MaxTerm,    \* bound: the last term that is elected
          MaxLsn      \* bound: the end of the longest WAL

ASSUME BoundsAssumption ==
  StartLsn \in Nat \ {0} /\ MaxTerm \in Nat /\ MaxLsn \in Nat /\ StartLsn <= MaxLsn

VARIABLE history      \* history[t + 1]: the term history of the winner of term t

Lsns == StartLsn..MaxLsn

\* TimelinePersistentState::new: a timeline created with a start LSN.
InitialHistory == <<[term |-> 0, lsn |-> StartLsn]>>

Init == history = <<InitialHistory>>

\* ProcessPropStartPos: the next term is won; the donor adopted the history of
\* an earlier term and has WAL up to lsn.
Elect(donorTerm, lsn) ==
  /\ Len(history) <= MaxTerm
  /\ history' = Append(history,
                       Append(UpTo(history[donorTerm + 1], lsn),
                              [term |-> Len(history), lsn |-> lsn]))

Next == \E t \in 0..(Len(history) - 1), lsn \in Lsns : Elect(t, lsn)

Spec == Init /\ [][Next]_history

-----------------------------------------------------------------------------
(***************************************************************************)
(* The arguments below: walproposer of term pt meets a safekeeper that     *)
(* adopted the history of term st and has WAL up to end.  st <= pt: a      *)
(* safekeeper ignores a proposer whose term is below its own.              *)
(***************************************************************************)
SkHistory(st, end) == UpTo(history[st + 1], end)

Meetings ==
  {m \in (1..(Len(history) - 1)) \X (0..(Len(history) - 1)) \X Lsns : m[2] <= m[1]}

\* The length of the WAL that the two have in common.
CommonWal(pt, st, end) ==
  LET propWal == WalOf(history[pt + 1], StartLsn, MaxLsn + 1)
      skWal   == WalOf(history[st + 1], StartLsn, end)
  IN  Len(LongestCommonPrefix({propWal, skWal}))

\* find_highest_common_point returns the end of the longest WAL prefix that the
\* proposer and the safekeeper share: truncating there loses nothing the
\* proposer has and keeps nothing it does not have.
CommonPointIsDivergence ==
  \A m \in Meetings :
    FindHighestCommonPoint(history[m[1] + 1], SkHistory(m[2], m[3]), m[3]).lsn
      = StartLsn + CommonWal(m[1], m[2], m[3])

\* The C computation in SendProposerElected gives the LSN that the Rust one in
\* handle_elected expects: no ProposerElected is refused for a difference
\* between the two implementations.
BothSidesAgree ==
  \A m \in Meetings :
    StartStreamingAt(history[m[1] + 1], m[1], SkHistory(m[2], m[3]), m[3])
      = FindHighestCommonPoint(history[m[1] + 1], SkHistory(m[2], m[3]), m[3]).lsn

\* The safekeeper's history never starts a term beyond its WAL, and the WAL
\* length alone tells the last term (find_highest_common_point's first assertion,
\* and get_last_log_term).
HistoryWithinWal ==
  \A st \in 0..(Len(history) - 1), end \in Lsns :
    LET th == SkHistory(st, end)
    IN  /\ th # <<>>
        /\ Last(th).lsn <= end
        /\ \A i \in 1..(Len(th) - 1) :
             th[i].term < th[i + 1].term /\ th[i].lsn <= th[i + 1].lsn
=============================================================================
