------------------------- MODULE WalConsensusProofs -------------------------
(***************************************************************************)
(* TypeOK is an invariant of WalConsensus, for every set of safekeepers    *)
(* and walproposers and all bounds: first the handlers of a safekeeper,    *)
(* then the steps of a walproposer, then the messages between them, which  *)
(* give every handler what its lemma asks for.                             *)
(*                                                                         *)
(* Then election safety: at most one walproposer wins a term, in every     *)
(* order of messages, reconnects, crashes and restarts, when quorums       *)
(* intersect.                                                              *)
(***************************************************************************)
EXTENDS WalConsensus, TermHistoryProofs

-----------------------------------------------------------------------------
(* Safekeepers: every handler, and a crash, keep the state well formed. *)

InMemStates == [commit : Lsns, horizon : Lsns]

\* The ranges of terms and LSNs.
LEMMA Ranges ==
  /\ Lsns \in SUBSET Int /\ Lsns \in SUBSET (Nat \ {0})
  /\ Terms \in SUBSET Nat /\ 0 \in Terms /\ StartLsn \in Lsns /\ StartLsn \in Nat
  /\ MaxLsn \in Nat
BY LsnAssumption, MaxTermAssumption DEF Lsns, Terms

\* Lsns as an interval.
LEMMA LsnRange == \A l : l \in Lsns <=> l \in Int /\ StartLsn <= l /\ l <= MaxLsn
BY LsnAssumption DEF Lsns

\* What lies between two LSNs is an LSN.
LEMMA LsnInterval ==
  ASSUME NEW a \in Lsns, NEW b \in Lsns, NEW l \in a..b
  PROVE  l \in Lsns /\ a <= l /\ l <= b
BY LsnAssumption DEF Lsns

\* std::cmp::min and max return one of their arguments, ...
LEMMA LowerHigher ==
  ASSUME NEW S, NEW a \in S, NEW b \in S
  PROVE  Lower(a, b) \in S /\ Higher(a, b) \in S
BY DEF Lower, Higher

\* ... and bound both.
LEMMA LowerBounds ==
  ASSUME NEW a \in Int, NEW b \in Int
  PROVE  Lower(a, b) <= a /\ Lower(a, b) <= b /\ Higher(a, b) >= a /\ Higher(a, b) >= b
BY DEF Lower, Higher

\* The fields of one safekeeper.
LEMMA SafekeeperFacts ==
  ASSUME SafekeeperTypeOK, NEW s \in Safekeepers
  PROVE  /\ cf[s] \in ControlFiles
         /\ cf[s].term \in Terms /\ cf[s].hist \in Histories(Terms, Lsns)
         /\ cf[s].commit \in Lsns /\ cf[s].horizon \in Lsns /\ cf[s].gen \in DOMAIN Conf
         /\ inmem[s] \in InMemStates
         /\ inmem[s].commit \in Lsns /\ inmem[s].horizon \in Lsns
         /\ wal[s] \in Seq(Terms) /\ Len(wal[s]) \in Nat
         /\ flushLsn[s] \in Lsns /\ termStart[s] \in OptLsns
         /\ WriteLsn(s) \in Lsns /\ flushLsn[s] <= WriteLsn(s)
PROOF
  <1>1. cf[s] \in ControlFiles /\ inmem[s] \in InMemStates
    BY DEF SafekeeperTypeOK, InMemStates
  <1>2. /\ cf[s].term \in Terms /\ cf[s].hist \in Histories(Terms, Lsns)
        /\ cf[s].commit \in Lsns /\ cf[s].horizon \in Lsns /\ cf[s].gen \in DOMAIN Conf
    BY <1>1 DEF ControlFiles, TermSwitches, Histories
  <1>3. inmem[s].commit \in Lsns /\ inmem[s].horizon \in Lsns
    BY <1>1 DEF InMemStates
  <1>4. wal[s] \in Seq(Terms) /\ flushLsn[s] \in Lsns /\ termStart[s] \in OptLsns
    BY DEF SafekeeperTypeOK
  <1>5. Len(wal[s]) \in Nat
    BY <1>4, SeqFacts
  <1>6. WriteLsn(s) \in Lsns /\ flushLsn[s] <= WriteLsn(s)
    BY <1>5, Ranges, LsnRange DEF SafekeeperTypeOK, WriteLsn
  <1> QED BY <1>1, <1>2, <1>3, <1>4, <1>5, <1>6

\* The control file with fields replaced.
LEMMA ControlFileUpdates ==
  ASSUME NEW c \in ControlFiles
  PROVE  /\ \A t \in Terms : [c EXCEPT !.term = t] \in ControlFiles
         /\ \A l \in Lsns : [c EXCEPT !.commit = l] \in ControlFiles
         /\ \A g \in DOMAIN Conf : [c EXCEPT !.gen = g] \in ControlFiles
         /\ \A t \in Terms, l \in Lsns, h \in Seq(TermSwitches) :
              [c EXCEPT !.term = t, !.commit = l, !.hist = h] \in ControlFiles
BY DEF ControlFiles

\* start_change yields a control file.
LEMMA StartChangeType ==
  ASSUME SafekeeperTypeOK, NEW s \in Safekeepers
  PROVE  StartChange(s) \in ControlFiles
PROOF
  <1>1. cf[s] \in ControlFiles /\ inmem[s].commit \in Lsns /\ inmem[s].horizon \in Lsns
    BY SafekeeperFacts
  <1> QED BY <1>1 DEF StartChange, ControlFiles

\* So does raising the term.
LEMMA RaisedTermType ==
  ASSUME SafekeeperTypeOK, NEW s \in Safekeepers, NEW t \in Terms
  PROVE  RaisedTerm(s, t) \in ControlFiles
BY StartChangeType, ControlFileUpdates, SafekeeperFacts DEF RaisedTerm

\* Only safekeeper s changes, and its new state is well formed.
LEMMA OneChanges ==
  ASSUME SafekeeperTypeOK, NEW s \in Safekeepers,
         NEW c \in ControlFiles, NEW im \in InMemStates, NEW w \in Seq(Terms),
         NEW f \in Lsns, NEW ts \in OptLsns,
         f <= StartLsn + Len(w), StartLsn + Len(w) <= MaxLsn,
         cf' = [cf EXCEPT ![s] = c], inmem' = [inmem EXCEPT ![s] = im],
         wal' = [wal EXCEPT ![s] = w], flushLsn' = [flushLsn EXCEPT ![s] = f],
         termStart' = [termStart EXCEPT ![s] = ts]
  PROVE  SafekeeperTypeOK'
PROOF
  <1>1. cf' \in [Safekeepers -> ControlFiles]
    BY DEF SafekeeperTypeOK
  <1>2. inmem' \in [Safekeepers -> InMemStates]
    BY DEF SafekeeperTypeOK, InMemStates
  <1>3. wal' \in [Safekeepers -> Seq(Terms)]
    BY DEF SafekeeperTypeOK
  <1>4. flushLsn' \in [Safekeepers -> Lsns] /\ termStart' \in [Safekeepers -> OptLsns]
    BY DEF SafekeeperTypeOK
  <1>5. ASSUME NEW x \in Safekeepers
        PROVE  flushLsn'[x] <= WriteLsn(x)' /\ WriteLsn(x)' <= MaxLsn
    <2>1. CASE x = s
      BY <2>1 DEF SafekeeperTypeOK, WriteLsn
    <2>2. CASE x # s
      BY <2>2 DEF SafekeeperTypeOK, WriteLsn
    <2> QED BY <2>1, <2>2
  <1> QED BY <1>1, <1>2, <1>3, <1>4, <1>5 DEF SafekeeperTypeOK, InMemStates

\* Nothing changes on s.
LEMMA Same ==
  ASSUME SafekeeperTypeOK, NEW s \in Safekeepers
  PROVE  /\ cf = [cf EXCEPT ![s] = cf[s]] /\ inmem = [inmem EXCEPT ![s] = inmem[s]]
         /\ wal = [wal EXCEPT ![s] = wal[s]] /\ flushLsn = [flushLsn EXCEPT ![s] = flushLsn[s]]
         /\ termStart = [termStart EXCEPT ![s] = termStart[s]]
         /\ StartLsn + Len(wal[s]) <= MaxLsn
BY DEF SafekeeperTypeOK, WriteLsn

\* Only the control file of s changes.
LEMMA FileChanges ==
  ASSUME SafekeeperTypeOK, NEW s \in Safekeepers, NEW c \in ControlFiles,
         cf' = [cf EXCEPT ![s] = c], UNCHANGED <<inmem, wal, flushLsn, termStart>>
  PROVE  SafekeeperTypeOK'
PROOF
  <1>1. cf' \in [Safekeepers -> ControlFiles]
    BY DEF SafekeeperTypeOK
  <1> QED BY <1>1 DEF SafekeeperTypeOK, WriteLsn

\* A step that leaves the safekeepers alone.
LEMMA NothingChanges ==
  ASSUME SafekeeperTypeOK, UNCHANGED skVars
  PROVE  SafekeeperTypeOK'
BY DEF SafekeeperTypeOK, skVars, WriteLsn

-----------------------------------------------------------------------------
(* The handlers *)

\* A created timeline is well formed.
LEMMA InitType == SafekeeperInit => SafekeeperTypeOK
PROOF
  <1> SUFFICES ASSUME SafekeeperInit PROVE SafekeeperTypeOK
    OBVIOUS
  <1> DEFINE e == [term |-> 0, lsn |-> StartLsn]
             c == [term |-> 0, hist |-> <<e>>, commit |-> StartLsn,
                   horizon |-> StartLsn, gen |-> 1]
  <1>1. e \in TermSwitches
    BY Ranges DEF TermSwitches
  <1> HIDE DEF e
  <1>2. <<e>> \in Seq(TermSwitches)
    BY <1>1
  <1>3. c \in ControlFiles
    BY <1>2, Ranges, ConfAssumption DEF ControlFiles
  <1>4. [commit |-> StartLsn, horizon |-> StartLsn] \in [commit : Lsns, horizon : Lsns]
    BY Ranges
  <1>5. <<>> \in Seq(Terms) /\ Len(<<>>) = 0
    BY EmptySeq
  <1>6. cf = [s \in Safekeepers |-> c]
    BY DEF SafekeeperInit, e
  <1> HIDE DEF c
  <1>7. cf \in [Safekeepers -> ControlFiles]
    BY <1>3, <1>6
  <1>8. inmem \in [Safekeepers -> [commit : Lsns, horizon : Lsns]]
    BY <1>4 DEF SafekeeperInit
  <1>9. /\ wal \in [Safekeepers -> Seq(Terms)] /\ flushLsn \in [Safekeepers -> Lsns]
        /\ termStart \in [Safekeepers -> OptLsns]
    BY <1>5, Ranges DEF SafekeeperInit, OptLsns
  <1>10. \A s \in Safekeepers : flushLsn[s] <= WriteLsn(s) /\ WriteLsn(s) <= MaxLsn
    BY <1>5, LsnAssumption DEF SafekeeperInit, WriteLsn
  <1> QED BY <1>7, <1>8, <1>9, <1>10 DEF SafekeeperTypeOK

\* TimelineState::flush
LEMMA SaveControlFileType ==
  ASSUME SafekeeperTypeOK, NEW s \in Safekeepers, SaveControlFile(s)
  PROVE  SafekeeperTypeOK'
BY StartChangeType, FileChanges DEF SaveControlFile

\* TimelineState::term_bump
LEMMA TermBumpType ==
  ASSUME SafekeeperTypeOK, NEW s \in Safekeepers, NEW to \in Terms, TermBump(s, to)
  PROVE  SafekeeperTypeOK'
BY RaisedTermType, FileChanges DEF TermBump

\* TimelineState::membership_switch
LEMMA MembershipSwitchType ==
  ASSUME SafekeeperTypeOK, NEW s \in Safekeepers,
         NEW gen \in {0} \cup DOMAIN Conf, MembershipSwitch(s, gen)
  PROVE  SafekeeperTypeOK'
PROOF
  <1>1. cf[s].gen \in DOMAIN Conf /\ DOMAIN Conf \subseteq Nat \ {0}
    BY SafekeeperFacts, ConfAssumption
  <1>2. CASE gen <= cf[s].gen
    <2>1. UNCHANGED skVars
      BY <1>2 DEF MembershipSwitch, skVars
    <2> QED BY <2>1, NothingChanges
  <1>3. CASE ~(gen <= cf[s].gen)
    <2>1. gen \in DOMAIN Conf
      BY <1>1, <1>3
    <2>2. [StartChange(s) EXCEPT !.gen = gen] \in ControlFiles
      BY <2>1, StartChangeType, ControlFileUpdates
    <2> QED BY <1>3, <2>2, FileChanges DEF MembershipSwitch
  <1> QED BY <1>2, <1>3

\* handle_greeting
LEMMA HandleGreetingType ==
  ASSUME SafekeeperTypeOK, NEW s \in Safekeepers,
         NEW gen \in {0} \cup DOMAIN Conf, HandleGreeting(s, gen)
  PROVE  SafekeeperTypeOK'
BY MembershipSwitchType DEF HandleGreeting

\* All the written WAL is flushed, whatever becomes of the control file.
LEMMA HandleFlushType ==
  ASSUME SafekeeperTypeOK, NEW s \in Safekeepers, NEW c \in ControlFiles,
         cf' = [cf EXCEPT ![s] = c], flushLsn' = [flushLsn EXCEPT ![s] = WriteLsn(s)],
         UNCHANGED <<inmem, wal, termStart>>
  PROVE  SafekeeperTypeOK'
PROOF
  <1>1. cf' \in [Safekeepers -> ControlFiles]
    BY DEF SafekeeperTypeOK
  <1>2. WriteLsn(s) \in Lsns /\ flushLsn' \in [Safekeepers -> Lsns]
    BY SafekeeperFacts DEF SafekeeperTypeOK
  <1>3. ASSUME NEW x \in Safekeepers
        PROVE  flushLsn'[x] <= WriteLsn(x)' /\ WriteLsn(x)' <= MaxLsn
    <2>1. flushLsn'[x] = IF x = s THEN WriteLsn(s) ELSE flushLsn[x]
      BY DEF SafekeeperTypeOK
    <2>2. WriteLsn(x)' = WriteLsn(x)
      BY DEF WriteLsn
    <2>3. flushLsn[x] <= WriteLsn(x) /\ WriteLsn(x) \in Lsns
      BY SafekeeperFacts
    <2> QED BY <2>1, <2>2, <2>3, LsnRange
  <1> QED BY <1>1, <1>2, <1>3 DEF SafekeeperTypeOK

\* handle_vote_request
LEMMA HandleVoteRequestType ==
  ASSUME SafekeeperTypeOK, NEW s \in Safekeepers, NEW m, m.term \in Terms,
         HandleVoteRequest(s, m)
  PROVE  SafekeeperTypeOK'
BY RaisedTermType, HandleFlushType DEF HandleVoteRequest

\* handle_flush
LEMMA FlushType ==
  ASSUME SafekeeperTypeOK, NEW s \in Safekeepers, HandleFlush(s)
  PROVE  SafekeeperTypeOK'
PROOF
  <1>1. cf[s] \in ControlFiles
    BY SafekeeperFacts
  <1> QED BY <1>1, Same, HandleFlushType DEF HandleFlush

\* The error paths of handle_elected.
LEMMA RefuseElectedType ==
  ASSUME SafekeeperTypeOK, NEW s \in Safekeepers, NEW m, m.term \in Terms,
         RefuseElected(s, m)
  PROVE  SafekeeperTypeOK'
PROOF
  <1>1. CASE cf' = cf
    <2>1. UNCHANGED skVars
      BY <1>1 DEF RefuseElected, skVars
    <2> QED BY <2>1, NothingChanges
  <1>2. CASE cf' = [cf EXCEPT ![s] = RaisedTerm(s, m.term)]
    BY <1>2, RaisedTermType, FileChanges DEF RefuseElected
  <1> QED BY <1>1, <1>2 DEF RefuseElected

\* WAL cut at lsn.
LEMMA CutWal ==
  ASSUME SafekeeperTypeOK, NEW s \in Safekeepers, NEW lsn \in Lsns, lsn <= WriteLsn(s)
  PROVE  /\ SubSeq(wal[s], 1, lsn - StartLsn) \in Seq(Terms)
         /\ StartLsn + Len(SubSeq(wal[s], 1, lsn - StartLsn)) = lsn
PROOF
  <1> DEFINE n == lsn - StartLsn
  <1>1. lsn \in Int /\ StartLsn <= lsn /\ StartLsn \in Nat
    BY LsnRange, Ranges
  <1>2. n \in Nat /\ n <= Len(wal[s]) /\ Len(wal[s]) \in Nat
    BY <1>1, SafekeeperFacts DEF WriteLsn
  <1>3. \A i \in 1..n : wal[s][i] \in Terms
    BY <1>2, SafekeeperFacts, SeqFacts
  <1>4. StartLsn + n = lsn
    BY <1>1
  <1> HIDE DEF n
  <1>5. SubSeq(wal[s], 1, n) \in Seq(Terms) /\ Len(SubSeq(wal[s], 1, n)) = n
    BY <1>2, <1>3, SubSeqProperties
  <1> QED BY <1>4, <1>5 DEF n

\* handle_elected: what is left after the truncation is as long as it should be.
LEMMA AdoptElectedType ==
  ASSUME SafekeeperTypeOK, NEW s \in Safekeepers, NEW m, m.term \in Terms,
         m.start \in Lsns, m.hist \in Seq(TermSwitches), m.hist # <<>>,
         AdoptElected(s, m)
  PROVE  SafekeeperTypeOK'
PROOF
  <1> DEFINE commit == Higher(inmem[s].commit, StartLsn)
             w == SubSeq(wal[s], 1, m.start - StartLsn)
             c == [StartChange(s) EXCEPT !.term = m.term, !.commit = commit, !.hist = m.hist]
             im == [inmem[s] EXCEPT !.commit = commit]
  <1>1. w \in Seq(Terms) /\ StartLsn + Len(w) = m.start
    BY CutWal DEF AdoptElected, ElectedAccepted, ElectedExpected
  <1>2. commit \in Lsns
    BY SafekeeperFacts, Ranges, LowerHigher
  <1>3. c \in ControlFiles
    BY <1>2, StartChangeType, ControlFileUpdates
  <1>4. im \in InMemStates
    BY <1>2, SafekeeperFacts DEF InMemStates
  <1>5. Last(m.hist).lsn \in OptLsns
    BY HistoryFacts DEF Last, TermSwitches, OptLsns
  <1>6. /\ cf' = [cf EXCEPT ![s] = c] /\ wal' = [wal EXCEPT ![s] = w]
        /\ flushLsn' = [flushLsn EXCEPT ![s] = m.start]
        /\ termStart' = [termStart EXCEPT ![s] = Last(m.hist).lsn]
    BY DEF AdoptElected
  <1>7. inmem' = [inmem EXCEPT ![s] = im]
    BY DEF AdoptElected, SafekeeperTypeOK
  <1>8. m.start <= StartLsn + Len(w) /\ StartLsn + Len(w) <= MaxLsn
    BY <1>1, LsnRange
  <1> HIDE DEF w, c, im
  <1> QED BY <1>1, <1>3, <1>4, <1>5, <1>6, <1>7, <1>8, OneChanges

\* Segments flushed on the way do not go beyond the end of the write.
LEMMA FlushedBySegmentsType ==
  ASSUME SafekeeperTypeOK, NEW s \in Safekeepers, NEW end \in Lsns, flushLsn[s] <= end
  PROVE  FlushedBySegments(s, end) \in Lsns /\ FlushedBySegments(s, end) <= end
PROOF
  <1> DEFINE ends == {l \in SegmentEnds : flushLsn[s] < l /\ l <= end}
  <1>1. flushLsn[s] \in Lsns /\ end \in Nat
    BY SafekeeperFacts, Ranges
  <1>2. ends \in SUBSET Nat /\ \A l \in ends : l <= end /\ flushLsn[s] < l
    BY LsnAssumption
  <1>3. IsFiniteSet(ends) /\ ends \subseteq Int
    <2>1. \A l \in ends : l <= end
      BY <1>2
    <2> HIDE DEF ends
    <2>2. IsFiniteSet(ends)
      BY <1>1, <1>2, <2>1, FS_BoundedSetOfNaturals
    <2> QED BY <1>2, <2>2
  <1> HIDE DEF ends
  <1>4. CASE ends = {}
    BY <1>1, <1>4 DEF FlushedBySegments, ends
  <1>5. CASE ends # {}
    <2>1. Max(ends) \in ends
      BY <1>3, <1>5, MaxProperties
    <2>2. Max(ends) \in Nat /\ Max(ends) <= end /\ flushLsn[s] < Max(ends)
      BY <1>2, <2>1
    <2>3. Max(ends) \in Lsns
      <3>1. flushLsn[s] \in Int /\ StartLsn <= flushLsn[s] /\ StartLsn \in Nat
            /\ end <= MaxLsn /\ MaxLsn \in Nat
        BY <1>1, LsnRange, Ranges
      <3> QED BY <1>1, <2>2, <3>1, LsnRange
    <2> QED BY <1>5, <2>2, <2>3 DEF FlushedBySegments, ends
  <1> QED BY <1>4, <1>5

\* commit_lsn stays between the start of WAL and its flushed end.
LEMMA NewCommitLsnType ==
  ASSUME SafekeeperTypeOK, NEW s \in Safekeepers, NEW candidate \in Lsns, NEW flush \in Lsns
  PROVE  NewCommitLsn(s, candidate, flush) \in Lsns
BY SafekeeperFacts, LowerHigher DEF NewCommitLsn

\* update_commit_lsn yields a control file.
LEMMA FlushedCommitType ==
  ASSUME SafekeeperTypeOK, NEW s \in Safekeepers, NEW commit \in Lsns
  PROVE  FlushedCommit(s, commit) \in ControlFiles
BY SafekeeperFacts, StartChangeType, ControlFileUpdates DEF FlushedCommit

\* handle_append_request: WAL grows within bounds, and is flushed only as far as it is written.
LEMMA HandleAppendRequestType ==
  ASSUME SafekeeperTypeOK, NEW s \in Safekeepers, NEW m, m.term \in Terms,
         m.begin \in Lsns, m.wal \in Seq(Terms), m.begin + Len(m.wal) <= MaxLsn,
         m.commit \in OptLsns, m.truncate \in OptLsns,
         HandleAppendRequest(s, m)
  PROVE  SafekeeperTypeOK'
PROOF
  <1> DEFINE end == m.begin + Len(m.wal)
             flush == FlushedBySegments(s, end)
             commit == IF m.commit = 0 THEN inmem[s].commit ELSE NewCommitLsn(s, m.commit, flush)
             c == IF m.commit = 0 THEN cf[s] ELSE FlushedCommit(s, commit)
             w == wal[s] \o m.wal
             im == [commit |-> commit, horizon |-> Higher(inmem[s].horizon, m.truncate)]
  <1>1. WriteLsn(s) = m.begin
    BY SafekeeperFacts, Ranges DEF HandleAppendRequest, AppendRefused, AppendIgnored
  <1>2. w \in Seq(Terms) /\ Len(w) = Len(wal[s]) + Len(m.wal)
    BY SafekeeperFacts, ConcatProperties
  <1>3. Len(m.wal) \in Nat /\ m.begin \in Nat
    BY SeqFacts, Ranges
  <1>4. StartLsn + Len(w) = end
    <2>1. Len(wal[s]) \in Nat /\ StartLsn \in Nat /\ StartLsn + Len(wal[s]) = m.begin
      BY <1>1, SafekeeperFacts, Ranges DEF WriteLsn
    <2> DEFINE a == Len(w)
               b == Len(wal[s])
               d == Len(m.wal)
    <2>2. a = b + d /\ b \in Nat /\ d \in Nat /\ StartLsn + b = m.begin
      BY <1>2, <1>3, <2>1
    <2> HIDE DEF a, b, d
    <2>3. StartLsn + a = m.begin + d
      BY <2>1, <2>2
    <2> QED BY <2>3 DEF a, d
  <1>5. end \in Lsns /\ flushLsn[s] <= end
    <2>1. /\ flushLsn[s] \in Nat /\ flushLsn[s] <= m.begin /\ StartLsn <= m.begin
          /\ StartLsn \in Nat /\ MaxLsn \in Nat
      BY <1>1, SafekeeperFacts, LsnRange, Ranges
    <2> QED BY <1>3, <2>1, LsnRange
  <1> HIDE DEF w, end
  <1>6. flush \in Lsns /\ flush <= end
    BY <1>5, FlushedBySegmentsType
  <1> HIDE DEF flush
  <1>7. commit \in Lsns
    BY <1>6, SafekeeperFacts, NewCommitLsnType DEF OptLsns
  <1> HIDE DEF commit
  <1>8. c \in ControlFiles
    BY <1>7, SafekeeperFacts, FlushedCommitType
  <1>9. Higher(inmem[s].horizon, m.truncate) \in Lsns
    <2>1. CASE m.truncate = 0
      <3>1. inmem[s].horizon \in Lsns /\ inmem[s].horizon \in Nat
        BY SafekeeperFacts, Ranges
      <3> QED BY <2>1, <3>1 DEF Higher
    <2>2. CASE m.truncate \in Lsns
      BY <2>2, SafekeeperFacts, LowerHigher
    <2> QED BY <2>1, <2>2 DEF OptLsns
  <1>10. im \in InMemStates
    BY <1>7, <1>9 DEF InMemStates
  <1>11. cf' = [cf EXCEPT ![s] = c]
    BY Same DEF HandleAppendRequest, commit, flush, end
  <1>12. /\ wal' = [wal EXCEPT ![s] = w] /\ flushLsn' = [flushLsn EXCEPT ![s] = flush]
         /\ inmem' = [inmem EXCEPT ![s] = im]
         /\ termStart' = [termStart EXCEPT ![s] = termStart[s]]
    BY Same DEF HandleAppendRequest, commit, flush, end, w
  <1>13. termStart[s] \in OptLsns
    BY SafekeeperFacts
  <1>14. flush <= StartLsn + Len(w) /\ StartLsn + Len(w) <= MaxLsn
    BY <1>4, <1>5, <1>6, LsnRange
  <1> HIDE DEF c, im
  <1> QED BY <1>2, <1>6, <1>8, <1>10, <1>11, <1>12, <1>13, <1>14, OneChanges

\* The control file that update_commit_lsn may have written.
LEMMA FlushedCommitFile ==
  ASSUME SafekeeperTypeOK, NEW s \in Safekeepers, NEW l \in Lsns
  PROVE  LET c == FlushedCommit(s, l)
         IN  /\ c.term = cf[s].term /\ c.hist = cf[s].hist
             /\ c.commit = cf[s].commit \/ c.commit = l
             /\ c.horizon = cf[s].horizon \/ c.horizon = inmem[s].horizon
PROOF
  <1> DEFINE c == StartChange(s)
             d == [c EXCEPT !.commit = l]
  <1>1. cf[s] \in ControlFiles /\ c \in ControlFiles
    BY SafekeeperFacts, StartChangeType
  <1>2. c.term = cf[s].term /\ c.hist = cf[s].hist /\ c.horizon = inmem[s].horizon
    BY <1>1 DEF StartChange, ControlFiles
  <1>3. FlushedCommit(s, l) = d \/ FlushedCommit(s, l) = cf[s]
    BY DEF FlushedCommit
  <1> HIDE DEF c
  <1>4. d.term = c.term /\ d.hist = c.hist /\ d.horizon = c.horizon /\ d.commit = l
    BY <1>1 DEF ControlFiles
  <1> HIDE DEF d
  <1> QED BY <1>2, <1>3, <1>4

\* Where commit_lsn and peer_horizon_lsn come from when a peer is heard of: c is the
\* control file, im what is in memory.
InfoTaken(s, info, c, im) ==
  /\ c \in ControlFiles /\ im \in InMemStates
  /\ c.term = cf[s].term /\ c.hist = cf[s].hist
  /\ \/ /\ im.commit = inmem[s].commit
        /\ c.commit = cf[s].commit \/ c.commit = inmem[s].commit
     \/ /\ info.lastLogTerm = LastLogTerm(cf[s].hist, flushLsn[s])
        /\ im.commit = NewCommitLsn(s, info.commit, flushLsn[s])
        /\ c.commit = cf[s].commit \/ c.commit = im.commit
  /\ im.horizon = Higher(inmem[s].horizon, info.horizon)
  /\ c.horizon = cf[s].horizon \/ c.horizon = inmem[s].horizon \/ c.horizon = im.horizon

\* Memory, and the control file when it is flushed at the end.
LEMMA RecordInfoWrites ==
  ASSUME SafekeeperTypeOK, NEW s \in Safekeepers, NEW commit \in Lsns, NEW file \in ControlFiles,
         NEW horizon \in Lsns, RecordInfo(s, commit, file, horizon)
  PROVE  \E c \in ControlFiles, im \in InMemStates :
           /\ cf' = [cf EXCEPT ![s] = c] /\ inmem' = [inmem EXCEPT ![s] = im]
           /\ UNCHANGED wal /\ UNCHANGED flushLsn /\ UNCHANGED termStart
           /\ c.term = file.term /\ c.hist = file.hist
           /\ im.commit = commit /\ im.horizon = Higher(inmem[s].horizon, horizon)
           /\ \/ c.commit = file.commit /\ c.horizon = file.horizon
              \/ c.commit = commit /\ c.horizon = im.horizon
PROOF
  <1> DEFINE h  == Higher(inmem[s].horizon, horizon)
             im == [commit |-> commit, horizon |-> h]
             d  == [file EXCEPT !.commit = commit, !.horizon = h]
  <1>1. h \in Lsns
    BY SafekeeperFacts, LowerHigher
  <1>2. /\ inmem' = [inmem EXCEPT ![s] = im]
        /\ cf' = [cf EXCEPT ![s] = file] \/ cf' = [cf EXCEPT ![s] = d]
        /\ UNCHANGED wal /\ UNCHANGED flushLsn /\ UNCHANGED termStart
    BY DEF RecordInfo
  <1>3. im \in InMemStates /\ im.commit = commit /\ im.horizon = h
    BY <1>1 DEF InMemStates
  <1>4. d \in ControlFiles /\ d.term = file.term /\ d.hist = file.hist
    BY <1>1 DEF ControlFiles
  <1>5. d.commit = commit /\ d.horizon = h
    BY DEF ControlFiles
  <1> HIDE DEF im, d, h
  <1>6. CASE cf' = [cf EXCEPT ![s] = file]
    BY <1>2, <1>3, <1>6 DEF h
  <1>7. CASE cf' = [cf EXCEPT ![s] = d]
    BY <1>2, <1>3, <1>4, <1>5, <1>7 DEF h
  <1> QED BY <1>2, <1>6, <1>7

\* record_safekeeper_info
LEMMA InfoIsTaken ==
  ASSUME SafekeeperTypeOK, NEW s \in Safekeepers, NEW info, info.commit \in Lsns,
         info.horizon \in Lsns, RecordSafekeeperInfo(s, info)
  PROVE  \E c, im :
           /\ InfoTaken(s, info, c, im)
           /\ cf' = [cf EXCEPT ![s] = c] /\ inmem' = [inmem EXCEPT ![s] = im]
           /\ UNCHANGED wal /\ UNCHANGED flushLsn /\ UNCHANGED termStart
PROOF
  <1> DEFINE commit == NewCommitLsn(s, info.commit, flushLsn[s])
             file   == FlushedCommit(s, commit)
             same   == info.lastLogTerm = LastLogTerm(cf[s].hist, flushLsn[s])
  <1>1. commit \in Lsns /\ inmem[s].commit \in Lsns /\ cf[s] \in ControlFiles
    BY SafekeeperFacts, NewCommitLsnType
  <1>2. \/ same /\ RecordInfo(s, commit, file, info.horizon)
        \/ RecordInfo(s, inmem[s].commit, cf[s], info.horizon)
    BY DEF RecordSafekeeperInfo
  <1> HIDE DEF commit
  <1>3. file \in ControlFiles
    BY <1>1, FlushedCommitType
  <1>4. /\ file.term = cf[s].term /\ file.hist = cf[s].hist
        /\ file.commit = cf[s].commit \/ file.commit = commit
        /\ file.horizon = cf[s].horizon \/ file.horizon = inmem[s].horizon
    BY <1>1, FlushedCommitFile
  <1> HIDE DEF file
  <1>5. CASE same /\ RecordInfo(s, commit, file, info.horizon)
    <2>1. PICK c \in ControlFiles, im \in InMemStates :
            /\ cf' = [cf EXCEPT ![s] = c] /\ inmem' = [inmem EXCEPT ![s] = im]
            /\ UNCHANGED wal /\ UNCHANGED flushLsn /\ UNCHANGED termStart
            /\ c.term = file.term /\ c.hist = file.hist
            /\ im.commit = commit /\ im.horizon = Higher(inmem[s].horizon, info.horizon)
            /\ \/ c.commit = file.commit /\ c.horizon = file.horizon
               \/ c.commit = commit /\ c.horizon = im.horizon
      BY <1>1, <1>3, <1>5, RecordInfoWrites
    <2>2. InfoTaken(s, info, c, im)
      BY <1>4, <1>5, <2>1 DEF InfoTaken, commit
    <2> QED BY <2>1, <2>2
  <1>6. CASE RecordInfo(s, inmem[s].commit, cf[s], info.horizon)
    <2>1. PICK c \in ControlFiles, im \in InMemStates :
            /\ cf' = [cf EXCEPT ![s] = c] /\ inmem' = [inmem EXCEPT ![s] = im]
            /\ UNCHANGED wal /\ UNCHANGED flushLsn /\ UNCHANGED termStart
            /\ c.term = cf[s].term /\ c.hist = cf[s].hist
            /\ im.commit = inmem[s].commit /\ im.horizon = Higher(inmem[s].horizon, info.horizon)
            /\ \/ c.commit = cf[s].commit /\ c.horizon = cf[s].horizon
               \/ c.commit = inmem[s].commit /\ c.horizon = im.horizon
      BY <1>1, <1>6, RecordInfoWrites
    <2>2. InfoTaken(s, info, c, im)
      BY <2>1 DEF InfoTaken
    <2> QED BY <2>1, <2>2
  <1> QED BY <1>2, <1>5, <1>6

\* What a safekeeper makes of that is well formed.
LEMMA RecordSafekeeperInfoType ==
  ASSUME SafekeeperTypeOK, NEW s \in Safekeepers, NEW info, info.commit \in Lsns,
         info.horizon \in Lsns, RecordSafekeeperInfo(s, info)
  PROVE  SafekeeperTypeOK'
PROOF
  <1>1. PICK c, im :
          /\ InfoTaken(s, info, c, im)
          /\ cf' = [cf EXCEPT ![s] = c] /\ inmem' = [inmem EXCEPT ![s] = im]
          /\ UNCHANGED wal /\ UNCHANGED flushLsn /\ UNCHANGED termStart
    BY InfoIsTaken
  <1>2. c \in ControlFiles /\ im \in InMemStates
    BY <1>1 DEF InfoTaken
  <1>3. /\ wal[s] \in Seq(Terms) /\ flushLsn[s] \in Lsns /\ termStart[s] \in OptLsns
        /\ flushLsn[s] <= StartLsn + Len(wal[s])
    BY SafekeeperFacts DEF WriteLsn
  <1>4. /\ wal' = [wal EXCEPT ![s] = wal[s]]
        /\ flushLsn' = [flushLsn EXCEPT ![s] = flushLsn[s]]
        /\ termStart' = [termStart EXCEPT ![s] = termStart[s]]
        /\ StartLsn + Len(wal[s]) <= MaxLsn
    BY <1>1, Same
  <1>5. cf' = [cf EXCEPT ![s] = c] /\ inmem' = [inmem EXCEPT ![s] = im]
    BY <1>1
  <1> QED BY <1>2, <1>3, <1>4, <1>5, OneChanges

\* A restart with the WAL before lsn, not after the written end.
LEMMA RestartWithType ==
  ASSUME SafekeeperTypeOK, NEW s \in Safekeepers, NEW file \in ControlFiles,
         NEW lsn \in Lsns, lsn <= WriteLsn(s), RestartWith(s, file, lsn)
  PROVE  SafekeeperTypeOK'
PROOF
  <1> DEFINE w == SubSeq(wal[s], 1, lsn - StartLsn)
             im == [commit |-> file.commit, horizon |-> file.horizon]
  <1>1. w \in Seq(Terms) /\ StartLsn + Len(w) = lsn
    BY CutWal
  <1>2. im \in InMemStates
    BY DEF InMemStates, ControlFiles
  <1>3. lsn <= StartLsn + Len(w) /\ StartLsn + Len(w) <= MaxLsn /\ 0 \in OptLsns
    BY <1>1, LsnRange DEF OptLsns
  <1>4. /\ cf' = [cf EXCEPT ![s] = file] /\ inmem' = [inmem EXCEPT ![s] = im]
        /\ wal' = [wal EXCEPT ![s] = w] /\ flushLsn' = [flushLsn EXCEPT ![s] = lsn]
        /\ termStart' = [termStart EXCEPT ![s] = 0]
    BY DEF RestartWith
  <1> HIDE DEF w, im
  <1> QED BY <1>1, <1>2, <1>3, <1>4, OneChanges

\* A crash.
LEMMA CrashRestartType ==
  ASSUME SafekeeperTypeOK, NEW s \in Safekeepers, CrashRestart(s)
  PROVE  SafekeeperTypeOK'
PROOF
  <1>1. PICK lsn \in flushLsn[s]..WriteLsn(s) : RestartWith(s, cf[s], lsn)
    BY DEF CrashRestart
  <1>2. lsn \in Lsns /\ lsn <= WriteLsn(s) /\ cf[s] \in ControlFiles
    BY SafekeeperFacts, LsnInterval
  <1> QED BY <1>1, <1>2, RestartWithType

\* A crash in the middle of handle_elected.
LEMMA CrashInElectedType ==
  ASSUME SafekeeperTypeOK, NEW s \in Safekeepers, NEW m, m.term \in Terms, m.start \in Lsns,
         CrashInElected(s, m)
  PROVE  SafekeeperTypeOK'
PROOF
  <1>1. PICK lsn \in m.start..WriteLsn(s) : RestartWith(s, RaisedTerm(s, m.term), lsn)
    BY DEF CrashInElected
  <1>2. lsn \in Lsns /\ lsn <= WriteLsn(s)
    BY SafekeeperFacts, LsnInterval
  <1>3. RaisedTerm(s, m.term) \in ControlFiles
    BY RaisedTermType
  <1> QED BY <1>1, <1>2, <1>3, RestartWithType

-----------------------------------------------------------------------------
(* Walproposers.  The phases are needed: a vote that counts has an LSN, an *)
(* elected walproposer a history that ends with its own term.              *)

\* The type invariant and the phases, together inductive.
WalProposerOK == WalProposerTypeOK /\ WalProposerPhases

\* Optional LSNs are numbers; those that are not 0 are LSNs.
LEMMA OptRanges ==
  /\ OptLsns \in SUBSET Int /\ 0 \in OptLsns
  /\ \A l \in OptLsns : l \in Nat /\ (l # 0 => l \in Lsns)
  /\ \A l \in Lsns : l \in OptLsns /\ l # 0
BY Ranges DEF OptLsns

\* Optional LSNs are within the bound.
LEMMA OptBounds == \A l \in OptLsns : l \in Nat /\ l <= MaxLsn
PROOF
  <1>1. \A l \in Lsns : l \in Nat /\ l <= MaxLsn
    BY LsnAssumption DEF Lsns
  <1>2. 0 <= MaxLsn
    BY Ranges
  <1> QED BY <1>1, <1>2 DEF OptLsns

\* The fields of one walproposer.
LEMMA ProposerFacts ==
  ASSUME NEW w \in ProposerRecords
  PROVE  /\ w.state \in {"COLLECTING_TERMS", "CAMPAIGN", "ELECTED", "SYNCED", "DEAD"}
         /\ w.gen \in {0} \cup DOMAIN Conf /\ w.term \in Terms /\ w.start \in OptLsns
         /\ w.hist \in Histories(Terms, Lsns) /\ w.donor \in Safekeepers \cup {NoOne}
         /\ w.avail \in OptLsns /\ w.commit \in OptLsns /\ w.truncate \in OptLsns
BY DEF ProposerRecords, Histories, TermSwitches

\* The fields of struct Safekeeper.
LEMMA SafekeeperRecordFacts ==
  ASSUME NEW k \in SafekeeperRecords
  PROVE  /\ k.vote \in Votes /\ k.streamingAt \in OptLsns
         /\ k.sent \in {NothingSent} \cup (OptLsns \X OptLsns)
         /\ k.flush \in OptLsns /\ k.commit \in OptLsns
BY DEF SafekeeperRecords

\* The fields of a vote.
LEMMA VoteFacts ==
  ASSUME NEW v \in Votes
  PROVE  v.flush \in OptLsns /\ v.truncate \in OptLsns /\ v.hist \in Histories(Terms, Lsns)
BY DEF Votes, Histories, TermSwitches

\* A walproposer starts with the empty history.
LEMMA EmptyHistory == <<>> \in Seq(TermSwitches)
BY EmptySeq

\* No vote is a vote with nothing in it.
LEMMA NoVoteType == NoVote \in Votes
BY EmptyHistory, OptRanges DEF NoVote, Votes

\* A safekeeper that is not connected.
LEMMA OfflineType == Offline \in SafekeeperRecords /\ Offline.state = "OFFLINE"
BY NoVoteType, OptRanges DEF Offline, SafekeeperRecords

\* A walproposer that has just started.
LEMMA NewProposerType ==
  /\ NewProposer \in ProposerRecords
  /\ NewProposer.state = "COLLECTING_TERMS"
BY EmptyHistory, OptRanges, Ranges DEF NewProposer, ProposerRecords

\* Only walproposer p changes, to w and k.
LEMMA OneProposerChanges ==
  ASSUME WalProposerOK, NEW p \in Proposers,
         NEW w \in ProposerRecords, NEW k \in [Safekeepers -> SafekeeperRecords],
         ProposerPhase(w), \A s \in Safekeepers : SafekeeperPhase(w, k[s]),
         wp' = [wp EXCEPT ![p] = w], sks' = [sks EXCEPT ![p] = k]
  PROVE  WalProposerOK'
PROOF
  <1>1. wp' \in [Proposers -> ProposerRecords]
    BY DEF WalProposerOK, WalProposerTypeOK
  <1>2. sks' \in [Proposers -> [Safekeepers -> SafekeeperRecords]]
    BY DEF WalProposerOK, WalProposerTypeOK
  <1>3. ASSUME NEW q \in Proposers
        PROVE  /\ ProposerPhase(wp'[q])
               /\ \A s \in Safekeepers : SafekeeperPhase(wp'[q], sks'[q][s])
    <2>1. CASE q = p
      <3>1. wp'[q] = w /\ sks'[q] = k
        BY <2>1 DEF WalProposerOK, WalProposerTypeOK
      <3> QED BY <3>1
    <2>2. CASE q # p
      <3>1. wp'[q] = wp[q] /\ sks'[q] = sks[q]
        BY <2>2 DEF WalProposerOK, WalProposerTypeOK
      <3> QED BY <3>1 DEF WalProposerOK, WalProposerPhases
    <2> QED BY <2>1, <2>2
  <1> QED BY <1>1, <1>2, <1>3 DEF WalProposerOK, WalProposerTypeOK, WalProposerPhases

\* Only what p keeps of s changes, to sk.
LEMMA OneSafekeeperChanges ==
  ASSUME WalProposerOK, NEW p \in Proposers, NEW s \in Safekeepers,
         NEW sk \in SafekeeperRecords, SafekeeperPhase(wp[p], sk),
         UNCHANGED wp, sks' = [sks EXCEPT ![p] = [sks[p] EXCEPT ![s] = sk]]
  PROVE  WalProposerOK'
PROOF
  <1> DEFINE k == [sks[p] EXCEPT ![s] = sk]
  <1>1. wp[p] \in ProposerRecords /\ wp' = [wp EXCEPT ![p] = wp[p]]
    BY DEF WalProposerOK, WalProposerTypeOK
  <1>2. sks[p] \in [Safekeepers -> SafekeeperRecords]
    BY DEF WalProposerOK, WalProposerTypeOK
  <1>3. k \in [Safekeepers -> SafekeeperRecords]
    BY <1>2
  <1>4. ProposerPhase(wp[p]) /\ \A x \in Safekeepers : SafekeeperPhase(wp[p], k[x])
    BY <1>2 DEF WalProposerOK, WalProposerPhases
  <1>5. sks' = [sks EXCEPT ![p] = k]
    OBVIOUS
  <1> HIDE DEF k
  <1> QED BY <1>1, <1>3, <1>4, <1>5, OneProposerChanges

\* The records of one walproposer and one safekeeper.
LEMMA OneRecord ==
  ASSUME WalProposerOK, NEW p \in Proposers, NEW s \in Safekeepers
  PROVE  /\ wp[p] \in ProposerRecords /\ sks[p][s] \in SafekeeperRecords
         /\ sks[p] \in [Safekeepers -> SafekeeperRecords]
         /\ ProposerPhase(wp[p]) /\ SafekeeperPhase(wp[p], sks[p][s])
BY DEF WalProposerOK, WalProposerTypeOK, WalProposerPhases

-----------------------------------------------------------------------------
(* The steps *)

\* All walproposers start in their first phase.
LEMMA ProposerInitType == WalProposerInit => WalProposerOK
PROOF
  <1> SUFFICES ASSUME WalProposerInit PROVE WalProposerOK
    OBVIOUS
  <1>1. WalProposerTypeOK
    BY NewProposerType, OfflineType DEF WalProposerInit, WalProposerTypeOK
  <1>2. \A p \in Proposers, s \in Safekeepers : wp[p] = NewProposer /\ sks[p][s] = Offline
    BY DEF WalProposerInit
  <1>3. ProposerPhase(NewProposer) /\ SafekeeperPhase(NewProposer, Offline)
    BY NewProposerType, OfflineType DEF ProposerPhase, SafekeeperPhase
  <1>4. \A p \in Proposers : wp[p] = NewProposer
    BY DEF WalProposerInit
  <1> QED BY <1>1, <1>2, <1>3, <1>4 DEF WalProposerOK, WalProposerPhases

\* A process that exits.
LEMMA ExitType ==
  ASSUME WalProposerOK, NEW p \in Proposers, NEW state \in {"SYNCED", "DEAD"},
         NEW lsn \in OptLsns, Exit(p, state, lsn)
  PROVE  WalProposerOK'
PROOF
  <1> DEFINE w == Exited(state, lsn)
             k == [s \in Safekeepers |-> Offline]
  <1>1. w \in ProposerRecords /\ w.state = state
    BY NewProposerType DEF Exited, ProposerRecords
  <1>2. k \in [Safekeepers -> SafekeeperRecords]
    BY OfflineType
  <1>3. wp' = [wp EXCEPT ![p] = w] /\ sks' = [sks EXCEPT ![p] = k]
    BY DEF Exit
  <1> HIDE DEF w
  <1>4. ProposerPhase(w) /\ \A s \in Safekeepers : SafekeeperPhase(w, k[s])
    BY <1>1, OfflineType DEF ProposerPhase, SafekeeperPhase
  <1> HIDE DEF k
  <1> QED BY <1>1, <1>2, <1>3, <1>4, OneProposerChanges

\* A process that dies.
LEMMA DieType ==
  ASSUME WalProposerOK, NEW p \in Proposers, Die(p)
  PROVE  WalProposerOK'
BY ExitType, OptRanges DEF Die

\* ResetConnection
LEMMA StartConnectionType ==
  ASSUME WalProposerOK, NEW p \in Proposers, NEW s \in Safekeepers, StartConnection(p, s)
  PROVE  WalProposerOK'
PROOF
  <1> DEFINE sk == [sks[p][s] EXCEPT !.state = "HANDSHAKE_RECV"]
  <1>1. sk \in SafekeeperRecords /\ sk.state = "HANDSHAKE_RECV"
    BY OneRecord DEF SafekeeperRecords
  <1>2. sks' = [sks EXCEPT ![p] = [sks[p] EXCEPT ![s] = sk]] /\ UNCHANGED wp
    BY DEF StartConnection, WalProposerOK, WalProposerTypeOK
  <1> HIDE DEF sk
  <1>3. SafekeeperPhase(wp[p], sk)
    BY <1>1 DEF SafekeeperPhase, StartConnection, Alive
  <1> QED BY <1>1, <1>2, <1>3, OneSafekeeperChanges

\* ShutdownConnection: what outlives the connection is still well formed.
LEMMA ShutdownConnectionType ==
  ASSUME WalProposerOK, NEW p \in Proposers, NEW s \in Safekeepers, ShutdownConnection(p, s)
  PROVE  WalProposerOK'
PROOF
  <1> DEFINE sk == [Offline EXCEPT !.flush = sks[p][s].flush, !.commit = sks[p][s].commit]
  <1>1. sk \in SafekeeperRecords /\ sk.state = "OFFLINE"
    BY OneRecord, OfflineType DEF SafekeeperRecords
  <1>2. sks' = [sks EXCEPT ![p] = [sks[p] EXCEPT ![s] = sk]] /\ UNCHANGED wp
    BY DEF ShutdownConnection, WalProposerOK, WalProposerTypeOK
  <1> HIDE DEF sk
  <1>3. SafekeeperPhase(wp[p], sk)
    BY <1>1 DEF SafekeeperPhase
  <1> QED BY <1>1, <1>2, <1>3, OneSafekeeperChanges

\* WalProposerBroadcast: the end of WAL stays within the bound.
LEMMA GenerateWalType ==
  ASSUME WalProposerOK, NEW p \in Proposers, GenerateWal(p)
  PROVE  WalProposerOK'
PROOF
  <1> DEFINE w == [wp[p] EXCEPT !.avail = @ + 1]
  <1>1. wp[p] \in ProposerRecords /\ ProposerPhase(wp[p])
        /\ sks[p] \in [Safekeepers -> SafekeeperRecords]
    BY DEF WalProposerOK, WalProposerTypeOK, WalProposerPhases
  <1>2. wp[p].avail + 1 \in Lsns
    <2>1. wp[p].avail \in Lsns /\ wp[p].avail < MaxLsn
      BY <1>1, ProposerFacts, OptRanges DEF GenerateWal, ProposerPhase
    <2> QED BY <2>1, LsnRange, Ranges
  <1>3. w \in ProposerRecords /\ w.avail = wp[p].avail + 1 /\ w.state = wp[p].state
        /\ w.gen = wp[p].gen /\ w.start = wp[p].start /\ w.hist = wp[p].hist
        /\ w.term = wp[p].term
    BY <1>1, <1>2, OptRanges DEF ProposerRecords
  <1>4. wp' = [wp EXCEPT ![p] = w] /\ sks' = [sks EXCEPT ![p] = sks[p]]
    BY DEF GenerateWal, WalProposerOK, WalProposerTypeOK
  <1> HIDE DEF w
  <1>5. ProposerPhase(w)
    BY <1>1, <1>2, <1>3, OptRanges DEF ProposerPhase
  <1>6. \A s \in Safekeepers : SafekeeperPhase(w, sks[p][s])
    BY <1>3 DEF WalProposerOK, WalProposerPhases, SafekeeperPhase
  <1> QED BY <1>1, <1>3, <1>4, <1>5, <1>6, OneProposerChanges

\* RecvAcceptorGreeting: the campaign starts in a known generation and a term within the
\* bound.
LEMMA RecvAcceptorGreetingType ==
  ASSUME WalProposerOK, NEW p \in Proposers, NEW s \in Safekeepers, NEW m,
         m.gen \in DOMAIN Conf, m.term \in Terms, RecvAcceptorGreeting(p, s, m)
  PROVE  WalProposerOK'
PROOF
  <1> DEFINE collecting == wp[p].state = "COLLECTING_TERMS"
             gen        == Higher(wp[p].gen, m.gen)
             term       == IF collecting THEN Higher(wp[p].term, m.term) ELSE wp[p].term
             collected  == collecting /\ gen # 0 /\ HasQuorum(gen, Greeted(p, s))
             newTerm    == IF collected THEN term + 1 ELSE term
             newState   == IF collected THEN "CAMPAIGN" ELSE wp[p].state
             w == [wp[p] EXCEPT !.gen = gen, !.term = newTerm, !.state = newState]
             skState == IF collecting /\ ~collected THEN "WAIT_VOTING" ELSE "WAIT_VERDICT"
             k == [x \in Safekeepers |-> IF x \in Greeted(p, s)
                                         THEN [sks[p][x] EXCEPT !.state = skState]
                                         ELSE sks[p][x]]
  <1>1. /\ wp[p] \in ProposerRecords /\ sks[p] \in [Safekeepers -> SafekeeperRecords]
        /\ ProposerPhase(wp[p]) /\ \A x \in Safekeepers : SafekeeperPhase(wp[p], sks[p][x])
    BY DEF WalProposerOK, WalProposerTypeOK, WalProposerPhases
  <1>2. wp[p].state \in {"COLLECTING_TERMS", "CAMPAIGN", "ELECTED"}
    BY <1>1 DEF RecvAcceptorGreeting, SafekeeperPhase
  <1>3. gen \in DOMAIN Conf /\ gen # 0
    <2>1. m.gen \in Nat \ {0} /\ DOMAIN Conf \subseteq Nat \ {0}
      BY ConfAssumption
    <2>2. wp[p].gen = 0 \/ wp[p].gen \in DOMAIN Conf
      BY <1>1, ProposerFacts
    <2>3. CASE wp[p].gen = 0
      BY <2>1, <2>3 DEF Higher
    <2>4. CASE wp[p].gen \in DOMAIN Conf
      BY <2>1, <2>4, LowerHigher
    <2> QED BY <2>2, <2>3, <2>4
  <1>4. term \in Terms /\ (~collecting => term = wp[p].term)
    BY <1>1, ProposerFacts, LowerHigher
  <1>5. collected => term < MaxTerm
    BY DEF RecvAcceptorGreeting
  <1>6. wp' = [wp EXCEPT ![p] = w]
    BY DEF RecvAcceptorGreeting, WalProposerOK, WalProposerTypeOK
  <1>7. sks' = [sks EXCEPT ![p] = k]
    BY DEF RecvAcceptorGreeting
  <1> HIDE DEF gen, term
  <1>8. collected => collecting
    OBVIOUS
  <1> HIDE DEF collected
  <1>9. newTerm \in Terms /\ (~collecting => newTerm = wp[p].term)
    BY <1>4, <1>5, <1>8, MaxTermAssumption DEF Terms
  <1>10. newState \in {"COLLECTING_TERMS", "CAMPAIGN", "ELECTED"}
         /\ (~collecting => newState = wp[p].state)
         /\ (collecting => newState # "ELECTED")
         /\ (collected => newState = "CAMPAIGN")
    BY <1>2, <1>8
  <1> HIDE DEF newTerm, newState
  <1>11. /\ w \in ProposerRecords /\ w.gen = gen /\ w.term = newTerm /\ w.state = newState
         /\ w.start = wp[p].start /\ w.avail = wp[p].avail /\ w.hist = wp[p].hist
    BY <1>1, <1>3, <1>9, <1>10 DEF ProposerRecords
  <1> HIDE DEF w
  <1>12. ProposerPhase(w)
    BY <1>1, <1>3, <1>9, <1>10, <1>11 DEF ProposerPhase
  <1>13. skState \in {"WAIT_VOTING", "WAIT_VERDICT"}
         /\ (skState = "WAIT_VERDICT" => newState \in {"CAMPAIGN", "ELECTED"})
    BY <1>2, <1>10
  <1> HIDE DEF skState, collecting
  <1>14. ASSUME NEW x \in Safekeepers
         PROVE  k[x] \in SafekeeperRecords /\ SafekeeperPhase(w, k[x])
    <2>1. sks[p][x] \in SafekeeperRecords /\ SafekeeperPhase(wp[p], sks[p][x])
      BY <1>1
    <2>2. CASE x \in Greeted(p, s)
      <3>1. k[x] = [sks[p][x] EXCEPT !.state = skState]
        BY <2>2
      <3>2. k[x] \in SafekeeperRecords /\ k[x].state = skState
        BY <1>13, <2>1, <3>1 DEF SafekeeperRecords
      <3> HIDE DEF k
      <3> QED BY <1>10, <1>11, <1>13, <3>2 DEF SafekeeperPhase
    <2>3. CASE x \notin Greeted(p, s)
      <3>1. k[x] = sks[p][x]
        BY <2>3
      <3>2. SafekeeperPhase(w, sks[p][x])
        BY <1>10, <1>11, <2>1 DEF SafekeeperPhase, collecting
      <3> QED BY <2>1, <3>1, <3>2
    <2> QED BY <2>2, <2>3
  <1>15. k \in [Safekeepers -> SafekeeperRecords]
    BY <1>14
  <1> HIDE DEF k
  <1> QED BY <1>6, <1>7, <1>11, <1>12, <1>14, <1>15, OneProposerChanges

\* What a VoteResponse carries.
LEMMA VoteOfType ==
  ASSUME NEW m, m.flush \in Lsns, m.truncate \in Lsns, m.hist \in Seq(TermSwitches)
  PROVE  VoteOf(m) \in Votes /\ VoteOf(m).flush \in Lsns
BY OptRanges DEF VoteOf, Votes

\* RecvVoteResponse without a quorum.
LEMMA CountVoteType ==
  ASSUME WalProposerOK, NEW p \in Proposers, NEW s \in Safekeepers, NEW m,
         m.flush \in Lsns, m.truncate \in Lsns, m.hist \in Seq(TermSwitches),
         CountVote(p, s, m)
  PROVE  WalProposerOK'
PROOF
  <1> DEFINE v == VoteOf(m)
             sk == [sks[p][s] EXCEPT !.state = "WAIT_ELECTED", !.vote = v]
  <1>1. v \in Votes /\ v.flush # 0
    BY VoteOfType, OptRanges
  <1>2. sks' = [sks EXCEPT ![p] = [sks[p] EXCEPT ![s] = sk]] /\ UNCHANGED wp
    BY DEF CountVote, WalProposerOK, WalProposerTypeOK
  <1> HIDE DEF v
  <1>3. sk \in SafekeeperRecords /\ sk.state = "WAIT_ELECTED" /\ sk.vote = v
    BY <1>1, OneRecord DEF SafekeeperRecords
  <1> HIDE DEF sk
  <1>4. SafekeeperPhase(wp[p], sk)
    BY <1>1, <1>3 DEF SafekeeperPhase, CountVote
  <1> QED BY <1>2, <1>3, <1>4, OneSafekeeperChanges

\* Streaming starts within the LSNs.
LEMMA StreamingType ==
  ASSUME NEW w \in ProposerRecords, ProposerPhase(w), w.state = "ELECTED",
         NEW sk \in SafekeeperRecords, NEW v \in Votes, v.flush # 0
  PROVE  Streaming(w, sk, v) \in SafekeeperRecords /\ SafekeeperPhase(w, Streaming(w, sk, v))
PROOF
  <1> DEFINE l == StartStreamingAt(w.hist, w.term, v.hist, v.flush)
             n == [sk EXCEPT !.state = "ACTIVE", !.vote = NoVote, !.streamingAt = l]
  <1>1. /\ w.hist \in Histories(Terms, Lsns) /\ w.hist # <<>> /\ w.term = Last(w.hist).term
        /\ v.hist \in Histories(Terms, Lsns) /\ v.flush \in Lsns
    BY ProposerFacts, VoteFacts, OptRanges DEF ProposerPhase
  <1>2. l \in Lsns
    <2>1. Lsns \in SUBSET Int
      BY Ranges
    <2>2. StartStreamingAt(w.hist, Last(w.hist).term, v.hist, v.flush) \in Lsns
      BY <1>1, <2>1, StartStreamingAtType
    <2> QED BY <1>1, <2>2
  <1> HIDE DEF l
  <1>3. n \in SafekeeperRecords /\ n.state = "ACTIVE" /\ n.streamingAt = l
    BY <1>2, NoVoteType, OptRanges DEF SafekeeperRecords
  <1> HIDE DEF n
  <1>4. SafekeeperPhase(w, n)
    BY <1>2, <1>3, OptRanges DEF SafekeeperPhase
  <1> QED BY <1>3, <1>4 DEF Streaming, n, l

\* RecvVoteResponse after the election.
LEMMA JoinElectedType ==
  ASSUME WalProposerOK, NEW p \in Proposers, NEW s \in Safekeepers, NEW m,
         m.flush \in Lsns, m.truncate \in Lsns, m.hist \in Seq(TermSwitches),
         JoinElected(p, s, m)
  PROVE  WalProposerOK'
PROOF
  <1> DEFINE sk == Streaming(wp[p], sks[p][s], VoteOf(m))
  <1>1. VoteOf(m) \in Votes /\ VoteOf(m).flush # 0
    BY VoteOfType, OptRanges
  <1>2. wp[p].state = "ELECTED"
    BY DEF JoinElected
  <1>3. sk \in SafekeeperRecords /\ SafekeeperPhase(wp[p], sk)
    BY <1>1, <1>2, OneRecord, StreamingType
  <1>4. sks' = [sks EXCEPT ![p] = [sks[p] EXCEPT ![s] = sk]] /\ UNCHANGED wp
    BY DEF JoinElected, WalProposerOK, WalProposerTypeOK
  <1> HIDE DEF sk
  <1> QED BY <1>3, <1>4, OneSafekeeperChanges

\* The votes that an election is decided by.
LEMMA VotersFacts ==
  ASSUME WalProposerOK, NEW p \in Proposers, NEW s \in Safekeepers, NEW m,
         m.flush \in Lsns, m.truncate \in Lsns, m.hist \in Seq(TermSwitches)
  PROVE  /\ \A x \in Safekeepers :
              /\ VoteWith(p, s, m, x) \in Votes
              /\ x = s \/ sks[p][x].state = "WAIT_ELECTED" => VoteWith(p, s, m, x).flush # 0
         /\ wp[p].state = "CAMPAIGN" => Voters(p, s) \in SUBSET Safekeepers
PROOF
  <1>1. VoteOf(m) \in Votes /\ VoteOf(m).flush # 0
    BY VoteOfType, OptRanges
  <1>2. ASSUME NEW x \in Safekeepers
        PROVE  /\ VoteWith(p, s, m, x) \in Votes
               /\ x = s \/ sks[p][x].state = "WAIT_ELECTED" => VoteWith(p, s, m, x).flush # 0
    <2>1. sks[p][x].vote \in Votes
      BY OneRecord, SafekeeperRecordFacts
    <2>2. sks[p][x].state = "WAIT_ELECTED" => sks[p][x].vote.flush # 0
      BY OneRecord DEF SafekeeperPhase
    <2> QED BY <1>1, <2>1, <2>2 DEF VoteWith
  <1>3. ASSUME wp[p].state = "CAMPAIGN" PROVE Voters(p, s) \in SUBSET Safekeepers
    <2>1. wp[p].gen \in DOMAIN Conf
      BY <1>3, OneRecord, ProposerFacts DEF ProposerPhase
    <2> QED BY <2>1, ConfAssumption DEF Voters, Members
  <1> QED BY <1>2, <1>3

\* ProcessPropStartPos: the history of the donor, extended, is a history.
LEMMA ElectedProposerType ==
  ASSUME WalProposerOK, NEW p \in Proposers, NEW s \in Safekeepers, NEW m,
         m.flush \in Lsns, m.truncate \in Lsns, m.hist \in Seq(TermSwitches),
         wp[p].state = "CAMPAIGN", NEW donor \in Voters(p, s)
  PROVE  LET w == ElectedProposer(p, s, m, donor)
         IN  /\ w \in ProposerRecords /\ ProposerPhase(w) /\ w.state = "ELECTED"
             /\ w.term = wp[p].term
PROOF
  <1> DEFINE vote == VoteWith(p, s, m, donor)
             e == [term |-> wp[p].term, lsn |-> vote.flush]
             h == Append(vote.hist, e)
             T == {VoteWith(p, s, m, x).truncate : x \in Voters(p, s)}
             w == [wp[p] EXCEPT !.state = "ELECTED", !.donor = donor, !.start = vote.flush,
                                !.avail = vote.flush, !.hist = h, !.truncate = Max(T)]
  <1>1. wp[p] \in ProposerRecords /\ ProposerPhase(wp[p]) /\ wp[p].term \in Terms
    BY OneRecord, ProposerFacts
  <1>2. Voters(p, s) \in SUBSET Safekeepers /\ donor \in Safekeepers
    BY VotersFacts
  <1>3. donor = s \/ sks[p][donor].state = "WAIT_ELECTED"
    BY DEF Voters
  <1>4. vote \in Votes /\ vote.flush # 0
    BY <1>2, <1>3, VotersFacts
  <1>5. T \in SUBSET OptLsns /\ T # {}
    <2>1. \A x \in Voters(p, s) : VoteWith(p, s, m, x).truncate \in OptLsns
      BY <1>2, VotersFacts, VoteFacts
    <2> QED BY <2>1
  <1>6. IsFiniteSet(T)
    <2> HIDE DEF T
    <2>1. T \in SUBSET Nat /\ \A x \in T : x <= MaxLsn
      BY <1>5, OptBounds
    <2> QED BY <2>1, Ranges, FS_BoundedSetOfNaturals
  <1> HIDE DEF T
  <1>7. Max(T) \in OptLsns
    BY <1>5, <1>6, OptRanges, MaxProperties
  <1> HIDE DEF vote
  <1>8. vote.flush \in Lsns /\ vote.hist \in Seq(TermSwitches)
    BY <1>4, VoteFacts, OptRanges DEF Histories, TermSwitches
  <1>9. e \in TermSwitches /\ e.term = wp[p].term
    BY <1>1, <1>8 DEF TermSwitches
  <1> HIDE DEF e
  <1>10. h \in Seq(TermSwitches) /\ h # <<>> /\ Last(h).term = wp[p].term
    BY <1>8, <1>9, AppendProperties DEF Last
  <1> HIDE DEF h
  <1>11. /\ w \in ProposerRecords /\ w.state = "ELECTED" /\ w.term = wp[p].term
         /\ w.gen = wp[p].gen /\ w.start = vote.flush /\ w.avail = vote.flush /\ w.hist = h
    BY <1>1, <1>2, <1>7, <1>8, <1>10, OptRanges DEF ProposerRecords
  <1> HIDE DEF w
  <1>12. ProposerPhase(w)
    BY <1>1, <1>4, <1>10, <1>11 DEF ProposerPhase
  <1> QED BY <1>11, <1>12 DEF ElectedProposer, w, h, e, vote, T

\* RecvVoteResponse with a quorum: whoever gets streamed to has a place to start at.
LEMMA WinElectionType ==
  ASSUME WalProposerOK, NEW p \in Proposers, NEW s \in Safekeepers, NEW m,
         m.flush \in Lsns, m.truncate \in Lsns, m.hist \in Seq(TermSwitches),
         NEW donor \in Safekeepers, WinElection(p, s, m, donor)
  PROVE  WalProposerOK'
PROOF
  <1> DEFINE w == ElectedProposer(p, s, m, donor)
             k == [x \in Safekeepers |->
                     IF x = s \/ sks[p][x].state = "WAIT_ELECTED"
                     THEN Streaming(w, sks[p][x], VoteWith(p, s, m, x))
                     ELSE sks[p][x]]
  <1>1. wp[p].state = "CAMPAIGN" /\ donor \in Voters(p, s)
    BY DEF WinElection
  <1>2. w \in ProposerRecords /\ ProposerPhase(w) /\ w.state = "ELECTED"
    BY <1>1, ElectedProposerType
  <1>3. \/ Exit(p, "SYNCED", w.start)
        \/ wp' = [wp EXCEPT ![p] = w] /\ sks' = [sks EXCEPT ![p] = k]
    BY DEF WinElection
  <1> HIDE DEF w
  <1>4. CASE Exit(p, "SYNCED", w.start)
    BY <1>2, <1>4, ProposerFacts, ExitType
  <1>5. CASE wp' = [wp EXCEPT ![p] = w] /\ sks' = [sks EXCEPT ![p] = k]
    <2>1. ASSUME NEW x \in Safekeepers
          PROVE  k[x] \in SafekeeperRecords /\ SafekeeperPhase(w, k[x])
      <3>1. sks[p][x] \in SafekeeperRecords /\ SafekeeperPhase(wp[p], sks[p][x])
        BY OneRecord
      <3>2. CASE x = s \/ sks[p][x].state = "WAIT_ELECTED"
        <4>1. VoteWith(p, s, m, x) \in Votes /\ VoteWith(p, s, m, x).flush # 0
          BY <3>2, VotersFacts
        <4>2. k[x] = Streaming(w, sks[p][x], VoteWith(p, s, m, x))
          BY <3>2
        <4> QED BY <1>2, <3>1, <4>1, <4>2, StreamingType
      <3>3. CASE ~(x = s \/ sks[p][x].state = "WAIT_ELECTED")
        <4>1. k[x] = sks[p][x]
          BY <3>3
        <4>2. SafekeeperPhase(w, sks[p][x])
          BY <1>1, <1>2, <3>1 DEF SafekeeperPhase
        <4> QED BY <3>1, <4>1, <4>2
      <3> QED BY <3>2, <3>3
    <2>2. k \in [Safekeepers -> SafekeeperRecords]
      BY <2>1
    <2> HIDE DEF k
    <2> QED BY <1>2, <1>5, <2>1, <2>2, OneProposerChanges
  <1> QED BY <1>3, <1>4, <1>5

-----------------------------------------------------------------------------
(* Streaming and acknowledgements *)

\* The end of an AppendRequest is an LSN.
LEMMA SendEndType ==
  ASSUME NEW p \in Proposers, NEW s \in Safekeepers,
         sks[p][s].streamingAt \in Lsns, wp[p].avail \in Lsns
  PROVE  SendEnd(p, s) \in Lsns
PROOF
  <1>1. /\ sks[p][s].streamingAt \in Nat /\ StartLsn <= sks[p][s].streamingAt
        /\ wp[p].avail \in Nat /\ StartLsn <= wp[p].avail /\ wp[p].avail <= MaxLsn
        /\ MaxSendSize \in Nat /\ StartLsn \in Nat /\ MaxLsn \in Nat
    BY LsnRange, Ranges, MaxSendSizeAssumption
  <1> QED BY <1>1, LsnRange DEF SendEnd, Lower

\* What SendAppendRequests may rely on for a safekeeper that is streamed to.
LEMMA ActiveFacts ==
  ASSUME WalProposerOK, NEW p \in Proposers, NEW s \in Safekeepers, sks[p][s].state = "ACTIVE"
  PROVE  /\ wp[p].state = "ELECTED" /\ wp[p].gen \in DOMAIN Conf
         /\ wp[p].start \in Lsns /\ wp[p].avail \in Lsns /\ sks[p][s].streamingAt \in Lsns
PROOF
  <1>1. /\ wp[p] \in ProposerRecords /\ ProposerPhase(wp[p])
        /\ sks[p][s] \in SafekeeperRecords /\ SafekeeperPhase(wp[p], sks[p][s])
    BY OneRecord
  <1>2. wp[p].state = "ELECTED" /\ sks[p][s].streamingAt # 0
    BY <1>1 DEF SafekeeperPhase
  <1>3. wp[p].gen # 0 /\ wp[p].start # 0 /\ wp[p].avail # 0
    BY <1>1, <1>2 DEF ProposerPhase
  <1> QED BY <1>1, <1>2, <1>3, ProposerFacts, SafekeeperRecordFacts, OptRanges

\* SendAppendRequests
LEMMA SendAppendRequestType ==
  ASSUME WalProposerOK, NEW p \in Proposers, NEW s \in Safekeepers, NEW donor,
         SendAppendRequest(p, s, donor)
  PROVE  WalProposerOK'
PROOF
  <1> DEFINE sent == <<wp[p].commit, wp[p].truncate>>
             end == SendEnd(p, s)
             sk == [sks[p][s] EXCEPT !.streamingAt = end, !.sent = sent]
  <1>1. sks[p][s].state = "ACTIVE"
    BY DEF SendAppendRequest
  <1>2. end \in Lsns
    BY <1>1, ActiveFacts, SendEndType
  <1>3. sent \in OptLsns \X OptLsns
    BY OneRecord, ProposerFacts
  <1>4. sks' = [sks EXCEPT ![p] = [sks[p] EXCEPT ![s] = sk]] /\ UNCHANGED wp
    BY DEF SendAppendRequest, WalProposerOK, WalProposerTypeOK
  <1> HIDE DEF end, sent
  <1>5. /\ sk \in SafekeeperRecords /\ sk.state = "ACTIVE" /\ sk.streamingAt = end
    BY <1>1, <1>2, <1>3, OneRecord, OptRanges DEF SafekeeperRecords
  <1> HIDE DEF sk
  <1>6. SafekeeperPhase(wp[p], sk)
    BY <1>1, <1>2, <1>5, ActiveFacts, OptRanges DEF SafekeeperPhase
  <1> QED BY <1>4, <1>5, <1>6, OneSafekeeperChanges

\* What an AppendRequest carries.  WAL of earlier terms is WAL that the donor has.
LEMMA AppendRequestType ==
  ASSUME SafekeeperTypeOK, WalProposerOK, NEW p \in Proposers, NEW s \in Safekeepers,
         NEW donor \in Safekeepers, SendAppendRequest(p, s, donor)
  PROVE  LET m == AppendRequest(p, s, donor)
         IN  /\ m.wal \in Seq(Terms)
             /\ m.begin + Len(m.wal) <= MaxLsn
PROOF
  <1> DEFINE begin == sks[p][s].streamingAt
             start == wp[p].start
             end == SendEnd(p, s)
             e(i) == IF begin + i - 1 >= start THEN wp[p].term
                     ELSE wal[donor][begin + i - StartLsn]
             n == end - begin
             w == [i \in 1..n |-> e(i)]
  <1>1. sks[p][s].state = "ACTIVE" /\ CanRead(p, s, donor)
    BY DEF SendAppendRequest
  <1>2. start \in Lsns /\ wp[p].avail \in Lsns /\ begin \in Lsns
    BY <1>1, ActiveFacts
  <1>3. end \in Lsns
    BY <1>2, SendEndType
  <1>4. /\ wp[p].term \in Terms /\ wal[donor] \in Seq(Terms) /\ Len(wal[donor]) \in Nat
        /\ flushLsn[donor] \in Lsns /\ flushLsn[donor] <= StartLsn + Len(wal[donor])
    BY OneRecord, ProposerFacts, SafekeeperFacts DEF WriteLsn
  <1>5. \/ begin >= start \/ end = begin
        \/ flushLsn[donor] >= Lower(end, start)
    BY <1>1 DEF CanRead
  <1>6. /\ start \in Nat /\ begin \in Nat /\ end \in Nat /\ StartLsn \in Nat /\ StartLsn <= begin
        /\ flushLsn[donor] \in Nat /\ end <= MaxLsn /\ begin <= MaxLsn /\ MaxLsn \in Nat
    BY <1>2, <1>3, <1>4, LsnRange, Ranges
  <1>7. AppendRequest(p, s, donor).begin = begin /\ AppendRequest(p, s, donor).wal = w
    BY DEF AppendRequest
  <1> HIDE DEF begin, start, end
  <1>8. ASSUME NEW i \in 1..n PROVE e(i) \in Terms
    <2>1. CASE begin + i - 1 >= start
      BY <1>4, <2>1
    <2>2. CASE ~(begin + i - 1 >= start)
      <3>1. i \in Nat /\ i >= 1 /\ begin + i <= end /\ begin + i <= start
        BY <1>6, <2>2
      <3>2. begin + i <= flushLsn[donor]
        BY <1>5, <1>6, <3>1 DEF Lower
      <3>3. begin + i - StartLsn \in 1..Len(wal[donor])
        BY <1>4, <1>6, <3>1, <3>2
      <3>4. wal[donor][begin + i - StartLsn] \in Terms
        BY <1>4, <3>3, SeqFacts
      <3> QED BY <2>2, <3>4
    <2> QED BY <2>1, <2>2
  <1>9. CASE n \in Nat
    <2>1. w \in [1..n -> Terms]
      BY <1>8
    <2>2. w \in Seq(Terms) /\ Len(w) = n
      <3> HIDE DEF w, n
      <3> QED BY <1>9, <2>1
    <2>3. begin + n <= MaxLsn
      BY <1>6
    <2> QED BY <1>7, <2>2, <2>3
  <1>10. CASE n \notin Nat
    <2>1. 1..n = {}
      BY <1>6, <1>10
    <2>2. w = <<>>
      BY <2>1
    <2>3. w \in Seq(Terms) /\ Len(w) = 0
      BY <2>2, EmptySeq
    <2> HIDE DEF w
    <2>4. begin + Len(w) <= MaxLsn
      BY <1>6, <2>3
    <2> QED BY <1>7, <2>3, <2>4
  <1> QED BY <1>9, <1>10

\* A quorum of a nonempty set exists, so there is an LSN that it has flushed.
LEMMA CommittedMsetType ==
  ASSUME NEW p, NEW members \in SUBSET Safekeepers, members # {},
         NEW flush \in [Safekeepers -> OptLsns]
  PROVE  CommittedMset(p, members, flush) \in OptLsns
PROOF
  <1> DEFINE acked(x) == IF flush[x] >= wp[p].start THEN flush[x] ELSE 0
             lsns == {0} \cup {acked(x) : x \in members}
             T == {l \in lsns : MsetHasQuorum(members, {x \in members : acked(x) >= l})}
  <1>1. \A x \in members : acked(x) \in OptLsns /\ acked(x) \in Nat
    BY OptRanges
  <1>2. lsns \in SUBSET OptLsns
    BY <1>1, OptRanges
  <1>3. T \in SUBSET lsns
    BY Zenon
  <1>4. 0 \in T
    <2>1. {x \in members : acked(x) >= 0} = members
      BY <1>1
    <2>2. IsFiniteSet(members) /\ Cardinality(members) \in Nat /\ Cardinality(members) # 0
      BY SafekeepersAssumption, FS_Subset, FS_CardinalityType, FS_EmptySet
    <2>3. members \cap members = members
      OBVIOUS
    <2>4. \A c \in Nat : c # 0 => c >= (c \div 2) + 1
      OBVIOUS
    <2>5. Cardinality(members) >= (Cardinality(members) \div 2) + 1
      BY <2>2, <2>4
    <2>6. MsetHasQuorum(members, members)
      BY <2>3, <2>5 DEF MsetHasQuorum
    <2> QED BY <2>1, <2>6
  <1>5. T \in SUBSET OptLsns
    BY <1>2, <1>3, Zenon
  <1>6. CommittedMset(p, members, flush) = Max(T)
    BY DEF CommittedMset
  <1> HIDE DEF T
  <1>7. T \in SUBSET Nat /\ \A x \in T : x <= MaxLsn
    BY <1>5, OptBounds
  <1>8. IsFiniteSet(T)
    BY <1>7, Ranges, FS_BoundedSetOfNaturals
  <1>9. T \subseteq Int /\ T # {}
    BY <1>4, <1>7
  <1>10. Max(T) \in T
    BY <1>8, <1>9, MaxProperties
  <1> QED BY <1>5, <1>6, <1>10

\* GetAcknowledgedByQuorumWALPosition, joint configurations included.
LEMMA AcknowledgedByQuorumType ==
  ASSUME NEW p, wp[p].gen \in DOMAIN Conf, NEW flush \in [Safekeepers -> OptLsns]
  PROVE  AcknowledgedByQuorum(p, flush) \in OptLsns
PROOF
  <1> DEFINE conf == Conf[wp[p].gen]
  <1>1. conf.members \in SUBSET Safekeepers /\ conf.members # {}
        /\ conf.newMembers \in SUBSET Safekeepers
    BY ConfAssumption
  <1>2. CommittedMset(p, conf.members, flush) \in OptLsns
    BY <1>1, CommittedMsetType
  <1>3. conf.newMembers # {} => CommittedMset(p, conf.newMembers, flush) \in OptLsns
    BY <1>1, CommittedMsetType
  <1> QED BY <1>2, <1>3, LowerHigher DEF AcknowledgedByQuorum

\* CalculateMinFlushLsn
LEMMA MinFlushLsnType ==
  ASSUME NEW flush \in [Safekeepers -> OptLsns], NEW s \in Safekeepers
  PROVE  MinFlushLsn(flush) \in OptLsns
PROOF
  <1> DEFINE T == {flush[x] : x \in Safekeepers}
  <1>1. T \in SUBSET OptLsns /\ T # {}
    OBVIOUS
  <1>2. MinFlushLsn(flush) = Min(T)
    BY DEF MinFlushLsn
  <1> HIDE DEF T
  <1>3. T \in SUBSET Nat /\ \A x \in T : x <= MaxLsn
    BY <1>1, OptBounds
  <1>4. IsFiniteSet(T)
    BY <1>3, Ranges, FS_BoundedSetOfNaturals
  <1>5. T \subseteq Int /\ T # {}
    BY <1>1, <1>3
  <1>6. Min(T) \in T
    BY <1>4, <1>5, MinProperties
  <1> QED BY <1>1, <1>2, <1>6

\* HandleSafekeeperResponse moves only commitLsn and truncateLsn.
LEMMA AcknowledgedType ==
  ASSUME WalProposerOK, NEW p \in Proposers, NEW s \in Safekeepers, NEW m,
         m.flush \in OptLsns, wp[p].gen \in DOMAIN Conf
  PROVE  LET w == Acknowledged(p, s, m)
         IN  /\ w \in ProposerRecords /\ w.state = wp[p].state /\ w.gen = wp[p].gen
             /\ w.start = wp[p].start /\ w.avail = wp[p].avail /\ w.hist = wp[p].hist
             /\ w.term = wp[p].term
PROOF
  <1> DEFINE flush == [x \in Safekeepers |-> IF x = s THEN m.flush ELSE sks[p][x].flush]
             commit == Higher(wp[p].commit, AcknowledgedByQuorum(p, flush))
             trunc == Higher(wp[p].truncate, Lower(MinFlushLsn(flush), commit))
             w == [wp[p] EXCEPT !.commit = commit, !.truncate = trunc]
  <1>1. wp[p] \in ProposerRecords /\ wp[p].commit \in OptLsns /\ wp[p].truncate \in OptLsns
    BY OneRecord, ProposerFacts
  <1>2. \A x \in Safekeepers : sks[p][x].flush \in OptLsns
    BY OneRecord, SafekeeperRecordFacts
  <1>3. flush \in [Safekeepers -> OptLsns]
    BY <1>2
  <1>4. Acknowledged(p, s, m) = w
    BY DEF Acknowledged
  <1> HIDE DEF flush
  <1>5. commit \in OptLsns
    BY <1>1, <1>3, AcknowledgedByQuorumType, LowerHigher
  <1> HIDE DEF commit
  <1>6. trunc \in OptLsns
    BY <1>1, <1>3, <1>5, MinFlushLsnType, LowerHigher
  <1> HIDE DEF trunc
  <1>7. /\ w \in ProposerRecords /\ w.state = wp[p].state /\ w.gen = wp[p].gen
        /\ w.start = wp[p].start /\ w.avail = wp[p].avail /\ w.hist = wp[p].hist
        /\ w.term = wp[p].term
    BY <1>1, <1>5, <1>6 DEF ProposerRecords
  <1> HIDE DEF w
  <1> QED BY <1>4, <1>7

\* RecvAppendResponses
LEMMA RecvAppendResponseType ==
  ASSUME WalProposerOK, NEW p \in Proposers, NEW s \in Safekeepers, NEW m,
         m.flush \in OptLsns, m.commit \in OptLsns, RecvAppendResponse(p, s, m)
  PROVE  WalProposerOK'
PROOF
  <1> DEFINE w == Acknowledged(p, s, m)
             sk == [sks[p][s] EXCEPT !.flush = m.flush, !.commit = m.commit]
             k == [sks[p] EXCEPT ![s] = sk]
  <1>1. sks[p][s].state = "ACTIVE"
    BY DEF RecvAppendResponse
  <1>2. wp[p].state = "ELECTED" /\ wp[p].gen \in DOMAIN Conf /\ wp[p].start \in OptLsns
    BY <1>1, ActiveFacts, OptRanges
  <1>3. \/ Exit(p, "SYNCED", wp[p].start)
        \/ wp' = [wp EXCEPT ![p] = w] /\ sks' = [sks EXCEPT ![p] = k]
    BY DEF RecvAppendResponse, WalProposerOK, WalProposerTypeOK
  <1>4. CASE Exit(p, "SYNCED", wp[p].start)
    BY <1>2, <1>4, ExitType
  <1>5. CASE wp' = [wp EXCEPT ![p] = w] /\ sks' = [sks EXCEPT ![p] = k]
    <2>1. /\ w \in ProposerRecords /\ w.state = wp[p].state /\ w.gen = wp[p].gen
          /\ w.start = wp[p].start /\ w.avail = wp[p].avail /\ w.hist = wp[p].hist
          /\ w.term = wp[p].term
      BY <1>2, AcknowledgedType
    <2> HIDE DEF w
    <2>2. ProposerPhase(wp[p]) /\ sks[p] \in [Safekeepers -> SafekeeperRecords]
          /\ \A x \in Safekeepers : SafekeeperPhase(wp[p], sks[p][x])
      BY DEF WalProposerOK, WalProposerTypeOK, WalProposerPhases
    <2>3. ProposerPhase(w)
      BY <2>1, <2>2 DEF ProposerPhase
    <2>4. /\ sk \in SafekeeperRecords /\ sk.state = sks[p][s].state
          /\ sk.vote = sks[p][s].vote /\ sk.streamingAt = sks[p][s].streamingAt
      BY <2>2 DEF SafekeeperRecords
    <2> HIDE DEF sk
    <2>5. k \in [Safekeepers -> SafekeeperRecords]
      BY <2>2, <2>4
    <2>6. ASSUME NEW x \in Safekeepers PROVE SafekeeperPhase(w, k[x])
      <3>1. SafekeeperPhase(w, sks[p][x])
        BY <2>1, <2>2 DEF SafekeeperPhase
      <3>2. CASE x = s
        <4>1. k[x] = sk
          BY <2>2, <3>2
        <4>2. SafekeeperPhase(w, sk)
          BY <2>4, <3>1, <3>2 DEF SafekeeperPhase
        <4> QED BY <4>1, <4>2
      <3>3. CASE x # s
        <4>1. k[x] = sks[p][x]
          BY <2>2, <3>3
        <4> QED BY <3>1, <4>1
      <3> QED BY <3>2, <3>3
    <2> HIDE DEF k
    <2> QED BY <1>5, <2>1, <2>3, <2>5, <2>6, OneProposerChanges
  <1> QED BY <1>3, <1>4, <1>5

-----------------------------------------------------------------------------
(* Messages *)

Connections == [open : BOOLEAN, queue : Seq(ToSafekeeper), dirty : BOOLEAN]
Infos == [lastLogTerm : Terms, commit : Lsns, horizon : Lsns]

ConnOK == conn \in [Kinds -> [Proposers -> [Safekeepers -> Connections]]]
ToWpOK == toWp \in [Proposers -> [Safekeepers -> Seq(ToProposer)]]
BrokerOK == broker \in [Safekeepers -> Infos]
HistoryOK == won \in SUBSET (Proposers \X Terms) /\ committed \in Seq(Terms)

\* TypeOK in the parts that the lemmas below are about.
LEMMA Parts ==
  TypeOK <=> /\ SafekeeperTypeOK /\ WalProposerOK /\ ConnOK /\ ToWpOK
             /\ BrokerOK /\ HistoryOK
BY DEF TypeOK, WalProposerOK, ConnOK, ToWpOK, BrokerOK, HistoryOK, Connections, Infos

\* The same in the next state.
LEMMA PartsNext ==
  TypeOK' <=> /\ SafekeeperTypeOK' /\ WalProposerOK' /\ ConnOK' /\ ToWpOK'
              /\ BrokerOK' /\ HistoryOK'
BY DEF TypeOK, WalProposerOK, ConnOK, ToWpOK, BrokerOK, HistoryOK, Connections, Infos

-----------------------------------------------------------------------------
(* Messages *)

\* What a handler may rely on in a message of each type.
LEMMA MessageFacts ==
  ASSUME NEW m \in ToSafekeeper
  PROVE  /\ m.term \in Terms
         /\ m.type = "ProposerElected" =>
              /\ m.start \in Lsns /\ m.hist \in Seq(TermSwitches) /\ m.hist # <<>>
         /\ m.type = "AppendRequest" =>
              /\ m.begin \in Lsns /\ m.wal \in Seq(Terms) /\ m.begin + Len(m.wal) <= MaxLsn
              /\ m.commit \in OptLsns /\ m.truncate \in OptLsns
PROOF
  <1> DEFINE V == [type : {"VoteRequest"}, gen : Nat, term : Terms]
             E == [type : {"ProposerElected"}, gen : Nat, term : Terms, start : Lsns,
                   hist : Seq(TermSwitches) \ {<<>>}]
             A == [type : {"AppendRequest"}, gen : Nat, term : Terms, begin : Lsns,
                   wal : Seq(Terms), commit : OptLsns, truncate : OptLsns]
  <1>1. m \in V \/ m \in E \/ (m \in A /\ m.begin + Len(m.wal) <= MaxLsn)
    BY DEF ToSafekeeper
  <1>2. CASE m \in V
    BY <1>2
  <1>3. CASE m \in E
    BY <1>3
  <1>4. CASE m \in A /\ m.begin + Len(m.wal) <= MaxLsn
    BY <1>4
  <1> QED BY <1>1, <1>2, <1>3, <1>4

\* What walproposer may rely on in an answer of each type.
LEMMA AnswerFacts ==
  ASSUME NEW m \in ToProposer
  PROVE  /\ m.term \in Terms
         /\ m.type = "Greeting" => m.gen \in DOMAIN Conf
         /\ m.type = "Vote" =>
              m.flush \in Lsns /\ m.truncate \in Lsns /\ m.hist \in Seq(TermSwitches)
         /\ m.type = "AppendResponse" => m.flush \in OptLsns /\ m.commit \in OptLsns
PROOF
  <1> DEFINE G == [type : {"Greeting"}, gen : DOMAIN Conf, term : Terms]
             V == [type : {"Vote"}, gen : Nat, term : Terms, given : BOOLEAN, flush : Lsns,
                   truncate : Lsns, hist : Seq(TermSwitches)]
             R == [type : {"AppendResponse"}, gen : Nat, term : Terms, flush : OptLsns,
                   commit : OptLsns]
  <1>1. m \in G \/ m \in V \/ m \in R
    BY DEF ToProposer
  <1>2. CASE m \in G
    BY <1>2
  <1>3. CASE m \in V
    BY <1>3
  <1>4. CASE m \in R
    BY <1>4
  <1> QED BY <1>1, <1>2, <1>3, <1>4

\* Generations are numbers.
LEMMA GenType == DOMAIN Conf \in SUBSET Nat /\ {0} \cup DOMAIN Conf \in SUBSET Nat
BY ConfAssumption

\* The request that campaigning walproposers send.
LEMMA VoteRequestType ==
  ASSUME NEW w \in ProposerRecords
  PROVE  VoteRequest(w) \in ToSafekeeper
BY ProposerFacts, GenType DEF VoteRequest, ToSafekeeper

\* The announcement that elected walproposers send.
LEMMA ProposerElectedType ==
  ASSUME NEW w \in ProposerRecords, w.hist # <<>>, NEW sk, sk.streamingAt \in Lsns
  PROVE  ProposerElected(w, sk) \in ToSafekeeper
PROOF
  <1>1. w.gen \in Nat /\ w.term \in Terms /\ w.hist \in Seq(TermSwitches)
    BY ProposerFacts, GenType DEF ProposerRecords
  <1> QED BY <1>1 DEF ProposerElected, ToSafekeeper

\* An AppendRequest, empty or not.
LEMMA AppendMessageType ==
  ASSUME NEW gen \in Nat, NEW term \in Terms, NEW begin \in Lsns, NEW log \in Seq(Terms),
         begin + Len(log) <= MaxLsn, NEW commit \in OptLsns, NEW truncate \in OptLsns
  PROVE  [type |-> "AppendRequest", gen |-> gen, term |-> term, begin |-> begin,
          wal |-> log, commit |-> commit, truncate |-> truncate] \in ToSafekeeper
PROOF
  <1> DEFINE m == [type |-> "AppendRequest", gen |-> gen, term |-> term, begin |-> begin,
                   wal |-> log, commit |-> commit, truncate |-> truncate]
             A == [type : {"AppendRequest"}, gen : Nat, term : Terms, begin : Lsns,
                   wal : Seq(Terms), commit : OptLsns, truncate : OptLsns]
  <1>1. m \in A /\ m.begin + Len(m.wal) <= MaxLsn
    OBVIOUS
  <1>2. {x \in A : x.begin + Len(x.wal) <= MaxLsn} \in SUBSET ToSafekeeper
    BY Zenon DEF ToSafekeeper
  <1> HIDE DEF m, A
  <1>3. m \in ToSafekeeper
    BY <1>1, <1>2
  <1> QED BY <1>3 DEF m

\* The answers of a safekeeper, formed from the state after the handler.
LEMMA ReplyTypes ==
  ASSUME SafekeeperTypeOK', NEW s \in Safekeepers
  PROVE  GreetingReply(s) \in ToProposer /\ AppendReply(s) \in ToProposer
PROOF
  <1>1. cf'[s] \in ControlFiles /\ flushLsn'[s] \in Lsns
    BY DEF SafekeeperTypeOK
  <1>2. /\ cf'[s].gen \in DOMAIN Conf /\ cf'[s].gen \in Nat /\ cf'[s].term \in Terms
        /\ cf'[s].commit \in OptLsns /\ flushLsn'[s] \in OptLsns
    BY <1>1, GenType, OptRanges DEF ControlFiles
  <1> QED BY <1>2 DEF GreetingReply, AppendReply, ToProposer

\* The answer that carries nothing but the term.
LEMMA TermOnlyReplyType ==
  ASSUME SafekeeperTypeOK, NEW s \in Safekeepers
  PROVE  TermOnlyReply(s) \in ToProposer
PROOF
  <1>1. cf[s].gen \in Nat /\ cf[s].term \in Terms
    BY SafekeeperFacts, GenType DEF ControlFiles
  <1> QED BY <1>1, OptRanges DEF TermOnlyReply, ToProposer

\* A vote, given or not: the history it carries is cut to flushed WAL.
LEMMA VoteReplyType ==
  ASSUME SafekeeperTypeOK, SafekeeperTypeOK', NEW s \in Safekeepers, NEW m
  PROVE  VoteReply(s, m) \in ToProposer
PROOF
  <1> DEFINE h == UpTo(cf[s].hist, flushLsn'[s])
             g == cf[s].term < m.term
  <1>1. cf'[s] \in ControlFiles /\ flushLsn'[s] \in Lsns
    BY DEF SafekeeperTypeOK
  <1>2. cf'[s].term \in Terms
    BY <1>1 DEF ControlFiles
  <1>3. cf[s].gen \in Nat /\ inmem[s].horizon \in Lsns /\ cf[s].hist \in Histories(Terms, Lsns)
    BY SafekeeperFacts, GenType DEF ControlFiles
  <1>4. h \in Histories(Terms, Lsns)
    BY <1>1, <1>3, UpToType, Ranges
  <1>5. h \in Seq(TermSwitches)
    BY <1>4 DEF Histories, TermSwitches
  <1>6. g \in BOOLEAN
    OBVIOUS
  <1>7. VoteReply(s, m) = [type |-> "Vote", gen |-> cf[s].gen, term |-> cf'[s].term,
                           given |-> g, flush |-> flushLsn'[s],
                           truncate |-> inmem[s].horizon, hist |-> h]
    BY DEF VoteReply
  <1> HIDE DEF h, g
  <1> QED BY <1>1, <1>2, <1>3, <1>5, <1>6, <1>7 DEF ToProposer

-----------------------------------------------------------------------------
(* Queues and connections *)

\* Taking the first element of a queue.
LEMMA TakeFirst ==
  ASSUME NEW S, NEW q \in Seq(S), q # <<>>
  PROVE  Head(q) \in S /\ Tail(q) \in Seq(S)
BY HeadTailProperties

\* Adding elements to a queue.
LEMMA AddLast ==
  ASSUME NEW S, NEW q \in Seq(S)
  PROVE  /\ \A r \in Seq(S) : q \o r \in Seq(S)
         /\ \A e \in S : Append(q, e) \in Seq(S)
         /\ <<>> \in Seq(S)
         /\ \A e \in S : <<e>> \in Seq(S)
BY ConcatProperties, AppendProperties, EmptySeq

\* What is known of one connection and one queue of answers.
LEMMA ConnectionFacts ==
  ASSUME ConnOK, NEW k \in Kinds, NEW p \in Proposers, NEW s \in Safekeepers
  PROVE  /\ conn[k][p][s] \in Connections
         /\ conn[k][p][s].queue \in Seq(ToSafekeeper)
         /\ conn[k][p][s].dirty \in BOOLEAN /\ conn[k][p][s].open \in BOOLEAN
         /\ conn[k][p] \in [Safekeepers -> Connections]
BY DEF ConnOK, Connections

\* A closed connection and one that has just been opened.
LEMMA ClosedType ==
  /\ Closed \in Connections
  /\ [Closed EXCEPT !.open = TRUE] \in Connections
BY EmptySeq DEF Closed, Connections

\* New values of the fields of a connection.
LEMMA ConnectionUpdates ==
  ASSUME NEW c \in Connections
  PROVE  /\ \A q \in Seq(ToSafekeeper) : [c EXCEPT !.queue = q] \in Connections
         /\ \A d \in BOOLEAN : [c EXCEPT !.dirty = d] \in Connections
         /\ \A q \in Seq(ToSafekeeper), d \in BOOLEAN :
              [c EXCEPT !.queue = q, !.dirty = d] \in Connections
BY DEF Connections

\* The connections of one walproposer change.
LEMMA ConnectionsChange ==
  ASSUME ConnOK, NEW k \in Kinds, NEW p \in Proposers,
         NEW f \in [Safekeepers -> Connections], conn' = [conn EXCEPT ![k][p] = f]
  PROVE  ConnOK'
BY DEF ConnOK

\* One connection changes.
LEMMA OneConnectionChanges ==
  ASSUME ConnOK, NEW k \in Kinds, NEW p \in Proposers, NEW s \in Safekeepers,
         NEW c \in Connections, conn' = [conn EXCEPT ![k][p][s] = c]
  PROVE  ConnOK'
BY DEF ConnOK

\* One queue of answers changes.
LEMMA OneAnswerQueueChanges ==
  ASSUME ToWpOK, NEW p \in Proposers, NEW s \in Safekeepers,
         NEW q \in Seq(ToProposer), toWp' = [toWp EXCEPT ![p][s] = q]
  PROVE  ToWpOK'
BY DEF ToWpOK

\* What is known of one queue of answers.
LEMMA AnswerQueueFacts ==
  ASSUME ToWpOK, NEW p \in Proposers, NEW s \in Safekeepers
  PROVE  toWp[p][s] \in Seq(ToProposer)
BY DEF ToWpOK

\* A safekeeper has processed a message and answered.
LEMMA HandledType ==
  ASSUME ConnOK, ToWpOK, NEW k \in Kinds, NEW p \in Proposers, NEW s \in Safekeepers,
         conn[k][p][s].queue # <<>>, NEW d \in BOOLEAN, NEW replies \in Seq(ToProposer),
         Handled(k, p, s, d, replies)
  PROVE  ConnOK' /\ ToWpOK'
PROOF
  <1> DEFINE c == conn[k][p][s]
             n == Consumed(k, c, d)
  <1>1. c \in Connections /\ c.queue \in Seq(ToSafekeeper)
    BY ConnectionFacts
  <1>2. Tail(c.queue) \in Seq(ToSafekeeper)
    BY <1>1, TakeFirst
  <1>3. n \in Connections
    BY <1>1, <1>2, ClosedType, ConnectionUpdates DEF Consumed
  <1>4. conn' = [conn EXCEPT ![k][p][s] = n]
    BY DEF Handled
  <1>5. ConnOK'
    <2> HIDE DEF n
    <2> QED BY <1>3, <1>4, OneConnectionChanges
  <1>6. toWp[p][s] \o replies \in Seq(ToProposer)
    BY AnswerQueueFacts, AddLast
  <1>7. \/ toWp' = toWp
        \/ toWp' = [toWp EXCEPT ![p][s] = toWp[p][s] \o replies]
    BY DEF Handled
  <1>8. ToWpOK'
    BY <1>6, <1>7, OneAnswerQueueChanges DEF ToWpOK
  <1> QED BY <1>5, <1>8

\* A safekeeper has closed a connection.
LEMMA RefusedType ==
  ASSUME ConnOK, ToWpOK, NEW k \in Kinds, NEW p \in Proposers, NEW s \in Safekeepers,
         Refused(k, p, s)
  PROVE  ConnOK' /\ ToWpOK'
PROOF
  <1>1. ConnOK'
    BY ClosedType, OneConnectionChanges DEF Refused
  <1>2. ToWpOK'
    BY DEF Refused, ToWpOK
  <1> QED BY <1>1, <1>2

\* Messages have been written to a connection.
LEMMA SentType ==
  ASSUME NEW c \in Connections, NEW r \in Seq(ToSafekeeper)
  PROVE  Sent(c, r) \in Connections
PROOF
  <1>1. c.queue \in Seq(ToSafekeeper)
    BY DEF Connections
  <1>2. c.queue \o r \in Seq(ToSafekeeper)
    BY <1>1, AddLast
  <1> QED BY <1>2, ConnectionUpdates DEF Sent

\* Walproposer has given up connections.
LEMMA GiveUpType ==
  ASSUME ConnOK, ToWpOK, NEW p \in Proposers, NEW gone,
         NEW last \in [Safekeepers -> Seq(ToSafekeeper)], GiveUp(p, gone, last)
  PROVE  ConnOK' /\ ToWpOK'
PROOF
  <1> DEFINE live == [s \in Safekeepers |-> IF s \in gone THEN Closed ELSE conn["live"][p][s]]
             left(s) == Sent(conn["live"][p][s], last[s])
             stale == [s \in Safekeepers |->
                         IF s \in gone THEN Abandoned(left(s), conn["stale"][p][s])
                         ELSE conn["stale"][p][s]]
             answers == [s \in Safekeepers |-> IF s \in gone THEN <<>> ELSE toWp[p][s]]
  <1>1. "live" \in Kinds /\ "stale" \in Kinds
    BY DEF Kinds
  <1>2. ASSUME NEW s \in Safekeepers
        PROVE  /\ conn["live"][p][s] \in Connections /\ conn["stale"][p][s] \in Connections
               /\ left(s) \in Connections
    <2>1. conn["live"][p][s] \in Connections /\ conn["stale"][p][s] \in Connections
      BY <1>1, ConnectionFacts
    <2>2. left(s) \in Connections
      BY <2>1, SentType
    <2> QED BY <2>1, <2>2
  <1>3. live \in [Safekeepers -> Connections]
    BY <1>2, ClosedType
  <1>4. stale \in [Safekeepers -> Connections]
    <2>1. ASSUME NEW s \in Safekeepers
          PROVE  Abandoned(left(s), conn["stale"][p][s]) \in Connections
      BY <1>2 DEF Abandoned
    <2> HIDE DEF left
    <2> QED BY <1>2, <2>1
  <1>5. conn' = [conn EXCEPT !["live"][p] = live, !["stale"][p] = stale]
    BY DEF GiveUp
  <1>6. ConnOK'
    <2> HIDE DEF live, stale
    <2> QED BY <1>1, <1>3, <1>4, <1>5 DEF ConnOK
  <1>7. answers \in [Safekeepers -> Seq(ToProposer)]
    BY AnswerQueueFacts, EmptySeq
  <1>8. toWp' = [toWp EXCEPT ![p] = answers]
    BY DEF GiveUp
  <1>9. ToWpOK'
    <2> HIDE DEF answers
    <2> QED BY <1>7, <1>8 DEF ToWpOK
  <1> QED BY <1>6, <1>9

\* Nothing is sent on a connection that is given up.
LEMMA NoLastType == NoLast \in [Safekeepers -> Seq(ToSafekeeper)]
BY EmptySeq DEF NoLast

\* What a step of walproposer sends.
LEMMA OutgoingType ==
  ASSUME WalProposerOK', NEW p \in Proposers, NEW s \in Safekeepers
  PROVE  Outgoing(p, s) \in Seq(ToSafekeeper)
PROOF
  <1>1. /\ wp'[p] \in ProposerRecords /\ sks'[p][s] \in SafekeeperRecords
        /\ ProposerPhase(wp'[p]) /\ SafekeeperPhase(wp'[p], sks'[p][s])
    BY DEF WalProposerOK, WalProposerTypeOK, WalProposerPhases
  <1>2. VoteRequest(wp'[p]) \in ToSafekeeper
    BY <1>1, VoteRequestType
  <1>3. ASSUME sks'[p][s].state = "ACTIVE"
        PROVE  ProposerElected(wp'[p], sks'[p][s]) \in ToSafekeeper
    <2>1. sks'[p][s].streamingAt \in OptLsns /\ sks'[p][s].streamingAt # 0
      BY <1>1, <1>3, SafekeeperRecordFacts DEF SafekeeperPhase
    <2>2. sks'[p][s].streamingAt \in Lsns
      BY <2>1, OptRanges
    <2>3. wp'[p].hist # <<>>
      BY <1>1, <1>3 DEF SafekeeperPhase, ProposerPhase
    <2> QED BY <1>1, <2>2, <2>3, ProposerElectedType
  <1>4. \/ Outgoing(p, s) = <<VoteRequest(wp'[p])>>
        \/ /\ sks'[p][s].state = "ACTIVE"
           /\ Outgoing(p, s) = <<ProposerElected(wp'[p], sks'[p][s])>>
        \/ Outgoing(p, s) = <<>>
    BY DEF Outgoing
  <1>5. /\ <<>> \in Seq(ToSafekeeper)
        /\ \A e \in ToSafekeeper : <<e>> \in Seq(ToSafekeeper)
    BY EmptySeq, AddLast
  <1> QED BY <1>2, <1>3, <1>4, <1>5

\* Walproposer has taken an answer and sent messages.
LEMMA AnsweredType ==
  ASSUME ConnOK, ToWpOK, WalProposerOK', NEW p \in Proposers, NEW s \in Safekeepers,
         toWp[p][s] # <<>>, Answered(p, s)
  PROVE  ConnOK' /\ ToWpOK'
PROOF
  <1> DEFINE f == [x \in Safekeepers |-> Sent(conn["live"][p][x], Outgoing(p, x))]
  <1>1. "live" \in Kinds
    BY DEF Kinds
  <1>2. ASSUME NEW x \in Safekeepers
        PROVE  Sent(conn["live"][p][x], Outgoing(p, x)) \in Connections
    BY <1>1, ConnectionFacts, OutgoingType, SentType
  <1>3. conn' = [conn EXCEPT !["live"][p] = f]
    BY DEF Answered
  <1>4. f \in [Safekeepers -> Connections]
    BY <1>2
  <1> HIDE DEF f
  <1>5. ConnOK'
    BY <1>1, <1>3, <1>4, ConnectionsChange
  <1>6. Tail(toWp[p][s]) \in Seq(ToProposer)
    BY AnswerQueueFacts, TakeFirst
  <1>7. ToWpOK'
    BY <1>6, OneAnswerQueueChanges DEF Answered
  <1> QED BY <1>5, <1>7

\* What a step leaves alone stays as it is.
LEMMA Untouched ==
  /\ UNCHANGED wpVars /\ WalProposerOK => WalProposerOK'
  /\ UNCHANGED netVars /\ ConnOK /\ ToWpOK => ConnOK' /\ ToWpOK'
  /\ UNCHANGED broker /\ BrokerOK => BrokerOK'
  /\ UNCHANGED history /\ HistoryOK => HistoryOK'
BY DEF wpVars, netVars, history, WalProposerOK, WalProposerTypeOK, WalProposerPhases,
       ConnOK, ToWpOK, BrokerOK, HistoryOK

-----------------------------------------------------------------------------
(* Safekeeper steps *)

\* The message that a handler takes from its queue.
LEMMA ReceivedType ==
  ASSUME ConnOK, NEW k \in Kinds, NEW p \in Proposers, NEW s \in Safekeepers,
         NEW t, FirstMessage(k, p, s, t)
  PROVE  /\ Message(k, p, s) \in ToSafekeeper /\ Message(k, p, s).type = t
         /\ conn[k][p][s].queue # <<>>
         /\ conn[k][p][s].dirty \in BOOLEAN
BY ConnectionFacts, TakeFirst DEF FirstMessage, Message

\* A message to a safekeeper is handled, whatever it is.
LEMMA ReceiveMessageType ==
  ASSUME TypeOK, NEW k \in Kinds, NEW p \in Proposers, NEW s \in Safekeepers,
         ReceiveMessage(k, p, s)
  PROVE  TypeOK'
PROOF
  <1> DEFINE m == Message(k, p, s)
  <1>1. SafekeeperTypeOK /\ WalProposerOK /\ ConnOK /\ ToWpOK /\ BrokerOK /\ HistoryOK
    BY Parts
  <1>2. SUFFICES SafekeeperTypeOK' /\ ConnOK' /\ ToWpOK'
    <2>1. UNCHANGED wpVars /\ UNCHANGED broker /\ UNCHANGED history
      BY DEF ReceiveMessage, ReceiveVoteRequest, ReceiveElected, ReceiveAppend, RefuseMessage
    <2> QED BY <1>1, <2>1, Untouched, PartsNext
  <1>3. <<>> \in Seq(ToProposer) /\ \A e \in ToProposer : <<e>> \in Seq(ToProposer)
    BY EmptySeq, AddLast
  <1>4. CASE ReceiveVoteRequest(k, p, s)
    <2>1. m.term \in Terms /\ conn[k][p][s].queue # <<>> /\ conn[k][p][s].dirty \in BOOLEAN
      BY <1>1, <1>4, ReceivedType, MessageFacts DEF ReceiveVoteRequest
    <2>2. SafekeeperTypeOK'
      BY <1>1, <1>4, <2>1, HandleVoteRequestType DEF ReceiveVoteRequest
    <2>3. <<VoteReply(s, m)>> \in Seq(ToProposer)
      BY <1>1, <1>3, <2>2, VoteReplyType
    <2> QED BY <1>1, <1>4, <2>1, <2>2, <2>3, HandledType DEF ReceiveVoteRequest
  <1>5. CASE ReceiveElected(k, p, s)
    <2>1. /\ m.term \in Terms /\ m.start \in Lsns /\ m.hist \in Seq(TermSwitches)
          /\ m.hist # <<>> /\ conn[k][p][s].queue # <<>> /\ conn[k][p][s].dirty \in BOOLEAN
      BY <1>1, <1>5, ReceivedType, MessageFacts DEF ReceiveElected
    <2>2. SafekeeperTypeOK'
      BY <1>1, <1>5, <2>1, AdoptElectedType, NothingChanges DEF ReceiveElected
    <2> QED BY <1>1, <1>3, <1>5, <2>1, <2>2, HandledType DEF ReceiveElected
  <1>6. CASE ReceiveAppend(k, p, s)
    <2>1. /\ m.term \in Terms /\ m.begin \in Lsns /\ m.wal \in Seq(Terms)
          /\ m.begin + Len(m.wal) <= MaxLsn /\ m.commit \in OptLsns /\ m.truncate \in OptLsns
          /\ conn[k][p][s].queue # <<>>
      BY <1>1, <1>6, ReceivedType, MessageFacts DEF ReceiveAppend
    <2>2. SafekeeperTypeOK'
      BY <1>1, <1>6, <2>1, HandleAppendRequestType, NothingChanges DEF ReceiveAppend
    <2>3. <<AppendReply(s)>> \in Seq(ToProposer) /\ <<TermOnlyReply(s)>> \in Seq(ToProposer)
      BY <1>1, <1>3, <2>2, ReplyTypes, TermOnlyReplyType
    <2>4. \E r \in Seq(ToProposer) : Handled(k, p, s, TRUE, r)
      BY <1>3, <1>6, <2>3 DEF ReceiveAppend
    <2> QED BY <1>1, <2>1, <2>2, <2>4, HandledType
  <1>7. CASE RefuseMessage(k, p, s)
    <2>1. ConnOK' /\ ToWpOK'
      BY <1>1, <1>7, RefusedType DEF RefuseMessage
    <2>2. CASE UNCHANGED skVars
      BY <1>1, <2>1, <2>2, NothingChanges
    <2>3. CASE FirstMessage(k, p, s, "ProposerElected") /\ RefuseElected(s, m)
      <3>1. m.term \in Terms
        BY <1>1, <2>3, ReceivedType, MessageFacts
      <3> QED BY <1>1, <2>1, <2>3, <3>1, RefuseElectedType
    <2> QED BY <1>7, <2>2, <2>3 DEF RefuseMessage
  <1> QED BY <1>4, <1>5, <1>6, <1>7 DEF ReceiveMessage

\* Written WAL is flushed and acknowledged.
LEMMA FlushWalType ==
  ASSUME TypeOK, NEW k \in Kinds, NEW p \in Proposers, NEW s \in Safekeepers, FlushWal(k, p, s)
  PROVE  TypeOK'
PROOF
  <1> DEFINE c == conn[k][p][s]
             n == IF k = "stale" /\ c.queue = <<>> THEN Closed ELSE [c EXCEPT !.dirty = FALSE]
             q == Append(toWp[p][s], AppendReply(s))
  <1>1. SafekeeperTypeOK /\ WalProposerOK /\ ConnOK /\ ToWpOK /\ BrokerOK /\ HistoryOK
    BY Parts
  <1>2. SafekeeperTypeOK'
    BY <1>1, FlushType DEF FlushWal
  <1>3. n \in Connections
    BY <1>1, ConnectionFacts, ClosedType, ConnectionUpdates
  <1>4. conn' = [conn EXCEPT ![k][p][s] = n]
    BY DEF FlushWal
  <1>5. ConnOK'
    <2> HIDE DEF n
    <2> QED BY <1>1, <1>3, <1>4, OneConnectionChanges
  <1>6. q \in Seq(ToProposer)
    BY <1>1, <1>2, AnswerQueueFacts, ReplyTypes, AddLast
  <1>7. toWp' = toWp \/ toWp' = [toWp EXCEPT ![p][s] = q]
    BY DEF FlushWal
  <1>8. ToWpOK'
    <2> HIDE DEF q
    <2> QED BY <1>1, <1>6, <1>7, OneAnswerQueueChanges DEF ToWpOK
  <1>9. UNCHANGED wpVars /\ UNCHANGED broker /\ UNCHANGED history
    BY DEF FlushWal
  <1> QED BY <1>1, <1>2, <1>5, <1>8, <1>9, Untouched, PartsNext

\* What a safekeeper publishes.
LEMMA SafekeeperInfoType ==
  ASSUME SafekeeperTypeOK, NEW s \in Safekeepers
  PROVE  SafekeeperInfo(s) \in Infos
PROOF
  <1>1. /\ inmem[s].commit \in Lsns /\ inmem[s].horizon \in Lsns
        /\ LastLogTerm(cf[s].hist, flushLsn[s]) \in Terms
    BY SafekeeperFacts, LastLogTermType, Ranges
  <1> QED BY <1>1 DEF SafekeeperInfo, Infos

\* The other steps of a safekeeper that does not crash.
LEMMA LocalStepType ==
  ASSUME TypeOK, NEW s \in Safekeepers,
         \/ Publish(s) \/ PersistState(s) \/ BumpTerm(s) \/ SwitchMembership(s)
         \/ \E peer \in Safekeepers : ReceiveInfo(s, peer)
  PROVE  TypeOK'
PROOF
  <1>1. SafekeeperTypeOK /\ WalProposerOK /\ ConnOK /\ ToWpOK /\ BrokerOK /\ HistoryOK
    BY Parts
  <1>2. UNCHANGED wpVars /\ UNCHANGED netVars /\ UNCHANGED history
    BY DEF Publish, PersistState, BumpTerm, SwitchMembership, ReceiveInfo
  <1>3. SUFFICES SafekeeperTypeOK' /\ BrokerOK'
    BY <1>1, <1>2, Untouched, PartsNext
  <1>4. CASE Publish(s)
    <2>1. SafekeeperTypeOK'
      BY <1>1, <1>4, NothingChanges DEF Publish
    <2>2. SafekeeperInfo(s) \in Infos
      BY <1>1, SafekeeperInfoType
    <2>3. BrokerOK'
      BY <1>1, <1>4, <2>2 DEF Publish, BrokerOK
    <2> QED BY <2>1, <2>3
  <1>5. CASE PersistState(s)
    BY <1>1, <1>5, SaveControlFileType, Untouched DEF PersistState
  <1>6. CASE BumpTerm(s)
    <2>1. cf[s].term + 1 \in Terms
      BY <1>1, <1>6, SafekeeperFacts, MaxTermAssumption DEF BumpTerm, Terms
    <2> QED BY <1>1, <1>6, <2>1, TermBumpType, Untouched DEF BumpTerm
  <1>7. CASE SwitchMembership(s)
    BY <1>1, <1>7, MembershipSwitchType, Untouched DEF SwitchMembership
  <1>8. ASSUME NEW peer \in Safekeepers, ReceiveInfo(s, peer)
        PROVE  SafekeeperTypeOK' /\ BrokerOK'
    <2>1. broker[peer].commit \in Lsns /\ broker[peer].horizon \in Lsns
      BY <1>1 DEF BrokerOK, Infos
    <2> QED BY <1>1, <1>8, <2>1, RecordSafekeeperInfoType, Untouched DEF ReceiveInfo
  <1> QED BY <1>4, <1>5, <1>6, <1>7, <1>8

-----------------------------------------------------------------------------
(* Walproposer steps *)

\* The answer that walproposer takes from its queue.
LEMMA AnswerType ==
  ASSUME ToWpOK, NEW p \in Proposers, NEW s \in Safekeepers, NEW t, FirstAnswer(p, s, t)
  PROVE  Answer(p, s) \in ToProposer /\ Answer(p, s).type = t /\ toWp[p][s] # <<>>
BY AnswerQueueFacts, TakeFirst DEF FirstAnswer, Answer

\* A connection is made and greeted.
LEMMA ConnectType ==
  ASSUME TypeOK, NEW p \in Proposers, NEW s \in Safekeepers, Connect(p, s)
  PROVE  TypeOK'
PROOF
  <1> DEFINE q == <<GreetingReply(s)>>
             c == [Closed EXCEPT !.open = TRUE]
  <1>1. SafekeeperTypeOK /\ WalProposerOK /\ ConnOK /\ ToWpOK /\ BrokerOK /\ HistoryOK
    BY Parts
  <1>2. WalProposerOK'
    BY <1>1, StartConnectionType DEF Connect
  <1>3. wp[p].gen \in {0} \cup DOMAIN Conf
    BY <1>1, OneRecord, ProposerFacts
  <1>4. SafekeeperTypeOK'
    BY <1>1, <1>3, HandleGreetingType DEF Connect
  <1>5. q \in Seq(ToProposer)
    BY <1>4, ReplyTypes, EmptySeq, AddLast
  <1>6. c \in Connections /\ "live" \in Kinds
    BY ClosedType DEF Kinds
  <1>7. /\ conn' = [conn EXCEPT !["live"][p][s] = c] /\ toWp' = [toWp EXCEPT ![p][s] = q]
        /\ UNCHANGED broker /\ UNCHANGED history
    BY DEF Connect
  <1> HIDE DEF q, c
  <1>8. ConnOK' /\ ToWpOK'
    BY <1>1, <1>5, <1>6, <1>7, OneConnectionChanges, OneAnswerQueueChanges
  <1> QED BY <1>1, <1>2, <1>4, <1>7, <1>8, Untouched, PartsNext

\* A greeting or a vote that does not decide the election.
LEMMA ReceiveGreetingType ==
  ASSUME TypeOK, NEW p \in Proposers, NEW s \in Safekeepers,
         ReceiveGreeting(p, s) \/ ReceiveVote(p, s)
  PROVE  TypeOK'
PROOF
  <1> DEFINE m == Answer(p, s)
  <1>1. SafekeeperTypeOK /\ WalProposerOK /\ ConnOK /\ ToWpOK /\ BrokerOK /\ HistoryOK
    BY Parts
  <1>2. WalProposerOK' /\ toWp[p][s] # <<>>
    <2>1. CASE ReceiveGreeting(p, s)
      <3>1. m.gen \in DOMAIN Conf /\ m.term \in Terms /\ toWp[p][s] # <<>>
        BY <1>1, <2>1, AnswerType, AnswerFacts DEF ReceiveGreeting
      <3> QED BY <1>1, <2>1, <3>1, RecvAcceptorGreetingType DEF ReceiveGreeting
    <2>2. CASE ReceiveVote(p, s)
      <3>1. /\ m.flush \in Lsns /\ m.truncate \in Lsns /\ m.hist \in Seq(TermSwitches)
            /\ toWp[p][s] # <<>>
        BY <1>1, <2>2, AnswerType, AnswerFacts DEF ReceiveVote
      <3> QED BY <1>1, <2>2, <3>1, CountVoteType, JoinElectedType DEF ReceiveVote
    <2> QED BY <2>1, <2>2
  <1>3. Answered(p, s) /\ UNCHANGED skVars /\ UNCHANGED broker /\ UNCHANGED history
    BY DEF ReceiveGreeting, ReceiveVote
  <1>4. ConnOK' /\ ToWpOK'
    BY <1>1, <1>2, <1>3, AnsweredType
  <1> QED BY <1>1, <1>2, <1>3, <1>4, NothingChanges, Untouched, PartsNext

\* The vote that decides the election.
LEMMA BecomeElectedType ==
  ASSUME TypeOK, NEW p \in Proposers, NEW s \in Safekeepers, BecomeElected(p, s)
  PROVE  TypeOK'
PROOF
  <1> DEFINE m == Answer(p, s)
  <1>1. SafekeeperTypeOK /\ WalProposerOK /\ ConnOK /\ ToWpOK /\ BrokerOK /\ HistoryOK
    BY Parts
  <1>2. /\ m.flush \in Lsns /\ m.truncate \in Lsns /\ m.hist \in Seq(TermSwitches)
        /\ toWp[p][s] # <<>>
    BY <1>1, AnswerType, AnswerFacts DEF BecomeElected
  <1>3. WalProposerOK'
    BY <1>1, <1>2, WinElectionType DEF BecomeElected
  <1>4. Answered(p, s) \/ GiveUp(p, Safekeepers, NoLast)
    BY DEF BecomeElected
  <1>5. ConnOK' /\ ToWpOK'
    BY <1>1, <1>2, <1>3, <1>4, AnsweredType, GiveUpType, NoLastType
  <1>6. wp[p].term \in Terms
    BY <1>1, OneRecord, ProposerFacts
  <1>7. /\ won' = won \cup {<<p, wp[p].term>>} /\ UNCHANGED committed
        /\ UNCHANGED skVars /\ UNCHANGED broker
    BY DEF BecomeElected
  <1>8. HistoryOK'
    BY <1>1, <1>6, <1>7 DEF HistoryOK
  <1> QED BY <1>1, <1>3, <1>5, <1>7, <1>8, NothingChanges, Untouched, PartsNext

\* The WAL that a history describes.
LEMMA WalOfType ==
  ASSUME NEW h \in Histories(Terms, Lsns), NEW end \in Nat
  PROVE  WalOf(h, StartLsn, end) \in Seq(Terms)
PROOF
  <1> DEFINE n == end - StartLsn
  <1>1. n \in Int /\ StartLsn \in Nat
    BY Ranges
  <1>2. ASSUME NEW i \in 1..n
        PROVE  TermAt(h, StartLsn + i - 1) \in Terms
    BY <1>1, LastLogTermType, Ranges DEF TermAt
  <1>3. WalOf(h, StartLsn, end) = [i \in 1..n |-> TermAt(h, StartLsn + i - 1)]
    BY DEF WalOf
  <1> HIDE DEF n
  <1>4. WalOf(h, StartLsn, end) \in [1..n -> Terms]
    BY <1>2, <1>3
  <1>5. \E k \in Nat : 1..n = 1..k
    <2>1. CASE n >= 0
      BY <1>1, <2>1
    <2>2. CASE n < 0
      <3>1. 1..n = 1..0
        BY <1>1, <2>2
      <3> QED BY <3>1
    <2> QED BY <1>1, <2>1, <2>2
  <1> QED BY <1>4, <1>5, SeqDef

\* An acknowledgement is counted; sync-safekeepers may finish with it.
LEMMA ReceiveAppendResponseType ==
  ASSUME TypeOK, NEW p \in Proposers, NEW s \in Safekeepers, ReceiveAppendResponse(p, s)
  PROVE  TypeOK'
PROOF
  <1> DEFINE m == Answer(p, s)
             w == Acknowledged(p, s, m)
             log == NowCommitted(p, s, m)
             last == LastBroadcast(p, s, m)
  <1>1. SafekeeperTypeOK /\ WalProposerOK /\ ConnOK /\ ToWpOK /\ BrokerOK /\ HistoryOK
    BY Parts
  <1>2. m.flush \in OptLsns /\ m.commit \in OptLsns /\ toWp[p][s] # <<>>
    BY <1>1, AnswerType, AnswerFacts DEF ReceiveAppendResponse
  <1>3. WalProposerOK'
    BY <1>1, <1>2, RecvAppendResponseType DEF ReceiveAppendResponse
  <1>4. sks[p][s].state = "ACTIVE"
    BY DEF ReceiveAppendResponse, RecvAppendResponse
  <1>5. wp[p].gen \in DOMAIN Conf
    BY <1>1, <1>4, ActiveFacts
  <1>6. w \in ProposerRecords
    BY <1>1, <1>2, <1>5, AcknowledgedType
  <1>7. w.commit \in OptLsns /\ w.truncate \in OptLsns
    BY <1>6, ProposerFacts
  <1>8. last \in [Safekeepers -> Seq(ToSafekeeper)]
    <2> DEFINE a(x) == [type |-> "AppendRequest", gen |-> wp[p].gen, term |-> wp[p].term,
                        begin |-> sks[p][x].streamingAt, wal |-> <<>>,
                        commit |-> w.commit, truncate |-> w.truncate]
    <2>1. ASSUME NEW x \in Safekeepers, sks[p][x].state = "ACTIVE"
          PROVE  a(x) \in ToSafekeeper
      <3>1. sks[p][x].streamingAt \in Lsns
        BY <1>1, <2>1, ActiveFacts
      <3>2. wp[p].term \in Terms /\ wp[p].gen \in Nat
        BY <1>1, <1>5, OneRecord, ProposerFacts, GenType
      <3>3. <<>> \in Seq(Terms) /\ sks[p][x].streamingAt + Len(<<>>) <= MaxLsn
        BY <3>1, EmptySeq, LsnRange
      <3> HIDE DEF w
      <3> QED BY <1>7, <3>1, <3>2, <3>3, AppendMessageType
    <2>2. last = [x \in Safekeepers |-> IF sks[p][x].state # "ACTIVE" THEN <<>> ELSE <<a(x)>>]
      BY DEF LastBroadcast
    <2>3. <<>> \in Seq(ToSafekeeper) /\ \A e \in ToSafekeeper : <<e>> \in Seq(ToSafekeeper)
      BY EmptySeq, AddLast
    <2> HIDE DEF a, last
    <2> QED BY <2>1, <2>2, <2>3
  <1>9. Answered(p, s) \/ GiveUp(p, Safekeepers, last)
    BY DEF ReceiveAppendResponse
  <1>10. ConnOK' /\ ToWpOK'
    <2> HIDE DEF last
    <2> QED BY <1>1, <1>2, <1>3, <1>8, <1>9, AnsweredType, GiveUpType
  <1>11. log \in Seq(Terms)
    <2>1. wp[p].hist \in Histories(Terms, Lsns) /\ w.commit \in Nat
      BY <1>1, <1>7, OneRecord, ProposerFacts, OptRanges
    <2> HIDE DEF w
    <2>2. WalOf(wp[p].hist, StartLsn, w.commit) \in Seq(Terms)
      BY <2>1, WalOfType
    <2> QED BY <2>2 DEF NowCommitted, w
  <1>12. /\ committed' = log \/ committed' = committed
         /\ UNCHANGED won /\ UNCHANGED skVars /\ UNCHANGED broker
    BY DEF ReceiveAppendResponse
  <1>13. HistoryOK'
    BY <1>1, <1>11, <1>12 DEF HistoryOK
  <1> QED BY <1>1, <1>3, <1>10, <1>12, <1>13, NothingChanges, Untouched, PartsNext

\* An AppendRequest is sent, with WAL or without.
LEMMA SendAppendType ==
  ASSUME TypeOK, NEW p \in Proposers, NEW s \in Safekeepers, SendAppend(p, s)
  PROVE  TypeOK'
PROOF
  <1>1. SafekeeperTypeOK /\ WalProposerOK /\ ConnOK /\ ToWpOK /\ BrokerOK /\ HistoryOK
    BY Parts
  <1>2. PICK donor \in Safekeepers :
          /\ SendAppendRequest(p, s, donor)
          /\ conn' = [conn EXCEPT !["live"][p][s] = Sent(@, <<AppendRequest(p, s, donor)>>)]
    BY DEF SendAppend
  <1> DEFINE m == AppendRequest(p, s, donor)
             n == Sent(conn["live"][p][s], <<m>>)
  <1>3. WalProposerOK'
    BY <1>1, <1>2, SendAppendRequestType
  <1>4. m \in ToSafekeeper
    <2> DEFINE log == m.wal
    <2>1. m.wal \in Seq(Terms) /\ m.begin + Len(m.wal) <= MaxLsn
      BY <1>1, <1>2, AppendRequestType
    <2>2. sks[p][s].state = "ACTIVE"
      BY <1>2 DEF SendAppendRequest
    <2>3. sks[p][s].streamingAt \in Lsns /\ wp[p].gen \in Nat
      BY <1>1, <2>2, ActiveFacts, GenType
    <2>4. wp[p].term \in Terms /\ wp[p].commit \in OptLsns /\ wp[p].truncate \in OptLsns
      BY <1>1, OneRecord, ProposerFacts
    <2>5. m = [type |-> "AppendRequest", gen |-> wp[p].gen, term |-> wp[p].term,
               begin |-> sks[p][s].streamingAt, wal |-> log,
               commit |-> wp[p].commit, truncate |-> wp[p].truncate]
      BY DEF AppendRequest
    <2>6. log \in Seq(Terms) /\ sks[p][s].streamingAt + Len(log) <= MaxLsn
      BY <2>1 DEF AppendRequest
    <2> HIDE DEF m, log
    <2> QED BY <2>3, <2>4, <2>5, <2>6, AppendMessageType
  <1>5. "live" \in Kinds
    BY DEF Kinds
  <1>6. n \in Connections
    <2> HIDE DEF m
    <2>1. <<m>> \in Seq(ToSafekeeper)
      BY <1>4, EmptySeq, AddLast
    <2> QED BY <1>1, <1>5, <2>1, ConnectionFacts, SentType
  <1>7. conn' = [conn EXCEPT !["live"][p][s] = n]
    BY <1>2
  <1>8. ConnOK'
    <2> HIDE DEF n
    <2> QED BY <1>1, <1>5, <1>6, <1>7, OneConnectionChanges
  <1>9. UNCHANGED skVars /\ UNCHANGED toWp /\ UNCHANGED broker /\ UNCHANGED history
    BY DEF SendAppend
  <1>10. ToWpOK'
    BY <1>1, <1>9 DEF ToWpOK
  <1> QED BY <1>1, <1>3, <1>8, <1>9, <1>10, NothingChanges, Untouched, PartsNext

\* Walproposer exits, is killed, or gives up a connection.
LEMMA GivesUpType ==
  ASSUME TypeOK, NEW p \in Proposers,
         \/ Kill(p)
         \/ \E s \in Safekeepers : Fatal(p, s) \/ Disconnect(p, s)
  PROVE  TypeOK'
PROOF
  <1>1. SafekeeperTypeOK /\ WalProposerOK /\ ConnOK /\ ToWpOK /\ BrokerOK /\ HistoryOK
    BY Parts
  <1>2. WalProposerOK'
    BY <1>1, DieType, ShutdownConnectionType DEF Kill, Fatal, Disconnect
  <1>3. /\ \E gone : GiveUp(p, gone, NoLast)
        /\ UNCHANGED skVars /\ UNCHANGED broker /\ UNCHANGED history
    BY DEF Kill, Fatal, Disconnect
  <1>4. ConnOK' /\ ToWpOK'
    BY <1>1, <1>3, GiveUpType, NoLastType
  <1> QED BY <1>1, <1>2, <1>3, <1>4, NothingChanges, Untouched, PartsNext

\* Postgres writes WAL.
LEMMA NewWalType ==
  ASSUME TypeOK, NEW p \in Proposers, NewWal(p)
  PROVE  TypeOK'
PROOF
  <1>1. SafekeeperTypeOK /\ WalProposerOK /\ ConnOK /\ ToWpOK /\ BrokerOK /\ HistoryOK
    BY Parts
  <1>2. WalProposerOK'
    BY <1>1, GenerateWalType DEF NewWal
  <1>3. UNCHANGED skVars /\ UNCHANGED netVars /\ UNCHANGED broker /\ UNCHANGED history
    BY DEF NewWal
  <1> QED BY <1>1, <1>2, <1>3, NothingChanges, Untouched, PartsNext

-----------------------------------------------------------------------------
(* Failures *)

\* Messages on a stale connection are lost.
LEMMA LoseStaleType ==
  ASSUME TypeOK, NEW p \in Proposers, NEW s \in Safekeepers, LoseStale(p, s)
  PROVE  TypeOK'
PROOF
  <1> DEFINE c == conn["stale"][p][s]
             n == IF c.dirty THEN [c EXCEPT !.queue = <<>>] ELSE Closed
  <1>1. SafekeeperTypeOK /\ WalProposerOK /\ ConnOK /\ ToWpOK /\ BrokerOK /\ HistoryOK
    BY Parts
  <1>2. "stale" \in Kinds
    BY DEF Kinds
  <1>3. n \in Connections
    BY <1>1, <1>2, ConnectionFacts, ClosedType, ConnectionUpdates, EmptySeq
  <1>4. /\ conn' = [conn EXCEPT !["stale"][p][s] = n]
        /\ UNCHANGED skVars /\ UNCHANGED wpVars /\ UNCHANGED toWp
        /\ UNCHANGED broker /\ UNCHANGED history
    BY DEF LoseStale
  <1> HIDE DEF n
  <1>5. ConnOK' /\ ToWpOK'
    BY <1>1, <1>2, <1>3, <1>4, OneConnectionChanges DEF ToWpOK
  <1> QED BY <1>1, <1>4, <1>5, NothingChanges, Untouched, PartsNext

\* A safekeeper crashes and restarts, in the middle of handle_elected or not.
LEMMA CrashType ==
  ASSUME TypeOK, NEW s \in Safekeepers, Crash(s)
  PROVE  TypeOK'
PROOF
  <1>1. SafekeeperTypeOK /\ WalProposerOK /\ ConnOK /\ ToWpOK /\ BrokerOK /\ HistoryOK
    BY Parts
  <1>2. SafekeeperTypeOK'
    <2>1. CASE CrashRestart(s)
      BY <1>1, <2>1, CrashRestartType
    <2>2. ASSUME NEW k \in Kinds, NEW p \in Proposers,
                 FirstMessage(k, p, s, "ProposerElected"), CrashInElected(s, Message(k, p, s))
          PROVE  SafekeeperTypeOK'
      <3>1. Message(k, p, s).term \in Terms /\ Message(k, p, s).start \in Lsns
        BY <1>1, <2>2, ReceivedType, MessageFacts
      <3> QED BY <1>1, <2>2, <3>1, CrashInElectedType
    <2> QED BY <2>1, <2>2 DEF Crash
  <1>3. /\ conn' = ConnectionsOf(s) /\ UNCHANGED wpVars /\ UNCHANGED toWp
        /\ UNCHANGED broker /\ UNCHANGED history
    BY DEF Crash
  <1>4. ConnOK'
    <2>1. ASSUME NEW k \in Kinds, NEW p \in Proposers
          PROVE  [conn[k][p] EXCEPT ![s] = Closed] \in [Safekeepers -> Connections]
      BY <1>1, ConnectionFacts, ClosedType
    <2> QED BY <1>3, <2>1 DEF ConnOK, ConnectionsOf
  <1>5. ToWpOK'
    BY <1>1, <1>3 DEF ToWpOK
  <1> QED BY <1>1, <1>2, <1>3, <1>4, <1>5, Untouched, PartsNext

-----------------------------------------------------------------------------

\* Everything starts closed and empty.
LEMMA InitTypeOK == Init => TypeOK
PROOF
  <1> SUFFICES ASSUME Init PROVE TypeOK
    OBVIOUS
  <1>1. SafekeeperTypeOK /\ WalProposerOK
    BY InitType, ProposerInitType DEF Init
  <1>2. ConnOK
    BY ClosedType DEF Init, ConnOK
  <1>3. ToWpOK
    BY EmptySeq DEF Init, ToWpOK
  <1>4. BrokerOK
    BY <1>1, SafekeeperInfoType DEF Init, BrokerOK
  <1>5. HistoryOK
    BY EmptySeq DEF Init, HistoryOK
  <1> QED BY <1>1, <1>2, <1>3, <1>4, <1>5, Parts

\* Every step keeps TypeOK.
LEMMA NextTypeOK == TypeOK /\ [Next]_vars => TypeOK'
PROOF
  <1> SUFFICES ASSUME TypeOK, [Next]_vars PROVE TypeOK'
    OBVIOUS
  <1>1. ASSUME NEW s \in Safekeepers, SafekeeperStep(s) \/ PersistState(s) \/ Publish(s)
        PROVE  TypeOK'
    BY <1>1, ReceiveMessageType, FlushWalType, LocalStepType DEF SafekeeperStep
  <1>2. ASSUME NEW p \in Proposers, ProposerStep(p)
        PROVE  TypeOK'
    BY <1>2, ConnectType, ReceiveGreetingType, BecomeElectedType, ReceiveAppendResponseType,
       SendAppendType, GivesUpType, NewWalType
       DEF ProposerStep, ReceiveAnswer, SendWal, NoticeClosed
  <1>3. ASSUME NEW p \in Proposers, NEW s \in Safekeepers, Heartbeat(p, s)
        PROVE  TypeOK'
    BY <1>3, SendAppendType DEF Heartbeat
  <1>4. CASE Failure
    BY <1>4, CrashType, LocalStepType, GivesUpType, LoseStaleType DEF Failure
  <1>5. CASE UNCHANGED vars
    BY <1>5, Parts, PartsNext, NothingChanges, Untouched DEF vars, netVars
  <1> QED BY <1>1, <1>2, <1>3, <1>4, <1>5 DEF Next

\* For every set of safekeepers and walproposers, every configuration and all
\* bounds: LSNs and terms stay in their ranges, through votes, truncation, recovery,
\* acknowledgements and crashes; WAL is flushed only as far as it is written; a
\* walproposer in a phase has the fields that the C code of that phase reads; and
\* every message is one its handler accepts.
THEOREM TypeOKHolds == Spec => []TypeOK
PROOF
  <1>1. Init => TypeOK
    BY InitTypeOK
  <1>2. TypeOK /\ [Next]_vars => TypeOK'
    BY NextTypeOK
  <1> QED BY <1>1, <1>2, PTL DEF Spec

-----------------------------------------------------------------------------
(***************************************************************************)
(* Elections.  The votes that matter are those that may still be counted:  *)
(* they are on the way to walproposer on its live connection, or it has    *)
(* counted them and waits for more.  A safekeeper has persisted the term   *)
(* of each, so it never gives another one in that term, and once a term is *)
(* won the voters of its quorum have no vote in that term left for anybody *)
(* else.                                                                   *)
(***************************************************************************)

\* Any two quorums have a safekeeper in common, whichever generations they are of.
QuorumsIntersect ==
  \A g, h \in DOMAIN Conf, Q, R \in SUBSET Safekeepers :
    HasQuorum(g, Q) /\ HasQuorum(h, R) => Q \cap R # {}

Campaigning(w) == w.state \in {"CAMPAIGN", "ELECTED"}

Given(m) == m.type = "Vote" /\ m.given

\* The vote of s may still be counted by p, or is counted.
HasVote(p, s) ==
  sks[p][s].state = "WAIT_ELECTED" \/ \E m \in ToSet(toWp[p][s]) : Given(m)

\* Votes are requested in the term of the walproposer, which stays the same.
RequestsAreOwn ==
  \A p \in Proposers, s \in Safekeepers : \A m \in ToSet(conn["live"][p][s].queue) :
    m.type = "VoteRequest" => Campaigning(wp[p]) /\ m.term = wp[p].term

\* The safekeeper's term is not below that of its vote.
VotesArePersisted ==
  \A p \in Proposers, s \in Safekeepers :
    HasVote(p, s) => Campaigning(wp[p]) /\ wp[p].term <= cf[s].term

VotesAreUnique ==
  \A p, q \in Proposers, s \in Safekeepers :
    HasVote(p, s) /\ HasVote(q, s) /\ wp[p].term = wp[q].term => p = q

\* s has no vote for anybody but the winner of term e[2], and will give none.
Decided(e, s) ==
  /\ e[2] <= cf[s].term
  /\ \A p \in Proposers : HasVote(p, s) /\ wp[p].term = e[2] => p = e[1]

WonByQuorum ==
  \A e \in won : \E g \in DOMAIN Conf, Q \in SUBSET Safekeepers :
    HasQuorum(g, Q) /\ \A s \in Q : Decided(e, s)

ElectionInv ==
  /\ TypeOK
  /\ RequestsAreOwn
  /\ VotesArePersisted
  /\ VotesAreUnique
  /\ WonByQuorum
  /\ ElectionSafety

-----------------------------------------------------------------------------
(* Steps in the abstract *)

TermsGrow == \A s \in Safekeepers : cf[s].term <= cf'[s].term

\* Nobody gets a vote in this step, except that q may get one from a safekeeper
\* that enters its term with it; and nobody who has one changes its term.
VotesComeFrom(q) ==
  \A p \in Proposers, s \in Safekeepers :
    HasVote(p, s)' =>
      /\ wp'[p].term = wp[p].term /\ Campaigning(wp'[p])
      /\ HasVote(p, s) \/ (p = q /\ cf[s].term < wp[p].term /\ wp[p].term <= cf'[s].term)

\* Terms are numbers.
LEMMA TermsAreInts == Terms \in SUBSET Int
BY Ranges

\* The terms that are compared are numbers.
LEMMA TermTypes ==
  ASSUME TypeOK
  PROVE  /\ \A s \in Safekeepers : cf[s].term \in Int
         /\ \A p \in Proposers : wp[p].term \in Int
         /\ \A e \in won : e \in Proposers \X Terms /\ e[2] \in Int
PROOF
  <1>1. SafekeeperTypeOK /\ WalProposerOK /\ HistoryOK
    BY Parts
  <1>2. \A s \in Safekeepers : cf[s].term \in Terms
    BY <1>1, SafekeeperFacts
  <1>3. \A p \in Proposers : wp[p].term \in Terms
    BY <1>1, ProposerFacts DEF WalProposerOK, WalProposerTypeOK
  <1>4. Terms \in SUBSET Int
    BY Ranges
  <1>5. \A e \in won : e \in Proposers \X Terms
    BY <1>1 DEF HistoryOK
  <1> QED BY <1>2, <1>3, <1>4, <1>5

\* Such steps keep what the votes promise.
LEMMA PromisesHold ==
  ASSUME ElectionInv, TypeOK', TermsGrow, NEW q, VotesComeFrom(q)
  PROVE  /\ VotesArePersisted' /\ VotesAreUnique'
         /\ \A e \in Proposers \X Terms, s \in Safekeepers : Decided(e, s) => Decided(e, s)'
PROOF
  <1>0. TypeOK /\ VotesArePersisted /\ VotesAreUnique
    BY DEF ElectionInv
  <1>1. /\ \A s \in Safekeepers : cf[s].term \in Int /\ cf'[s].term \in Int
        /\ \A p \in Proposers : wp[p].term \in Int
    <2>1. \A s \in Safekeepers : cf'[s].term \in Terms
      BY PartsNext DEF SafekeeperTypeOK, ControlFiles
    <2>2. \A s \in Safekeepers : cf'[s].term \in Int
      BY <2>1, Ranges
    <2> QED BY <1>0, <2>2, TermTypes
  <1>2. VotesArePersisted'
    <2> SUFFICES ASSUME NEW p \in Proposers, NEW s \in Safekeepers, HasVote(p, s)'
                 PROVE  Campaigning(wp'[p]) /\ wp'[p].term <= cf'[s].term
      BY DEF VotesArePersisted
    <2>1. /\ wp'[p].term = wp[p].term /\ Campaigning(wp'[p])
          /\ HasVote(p, s) \/ wp[p].term <= cf'[s].term
      BY DEF VotesComeFrom
    <2>2. HasVote(p, s) => wp[p].term <= cf[s].term
      BY <1>0 DEF VotesArePersisted
    <2>3. cf[s].term <= cf'[s].term
      BY DEF TermsGrow
    <2> QED BY <1>1, <2>1, <2>2, <2>3
  <1>3. VotesAreUnique'
    <2> SUFFICES ASSUME NEW a \in Proposers, NEW b \in Proposers, NEW s \in Safekeepers,
                        HasVote(a, s)', HasVote(b, s)', wp'[a].term = wp'[b].term
                 PROVE  a = b
      BY DEF VotesAreUnique
    <2>1. /\ wp[a].term = wp[b].term
          /\ HasVote(a, s) \/ (a = q /\ cf[s].term < wp[a].term)
          /\ HasVote(b, s) \/ (b = q /\ cf[s].term < wp[b].term)
      BY DEF VotesComeFrom
    <2>2. /\ HasVote(a, s) => wp[a].term <= cf[s].term
          /\ HasVote(b, s) => wp[b].term <= cf[s].term
      BY <1>0 DEF VotesArePersisted
    <2>3. HasVote(a, s) /\ HasVote(b, s) => a = b
      BY <1>0, <2>1 DEF VotesAreUnique
    <2> QED BY <1>1, <2>1, <2>2, <2>3
  <1>4. ASSUME NEW e \in Proposers \X Terms, NEW s \in Safekeepers, Decided(e, s)
        PROVE  Decided(e, s)'
    <2>0. e[2] \in Int
      BY TermsAreInts
    <2>1. e[2] <= cf[s].term /\ cf[s].term <= cf'[s].term
      BY <1>4 DEF Decided, TermsGrow
    <2>2. ASSUME NEW p \in Proposers, HasVote(p, s)', wp'[p].term = e[2]
          PROVE  p = e[1]
      <3>1. wp[p].term = e[2] /\ (HasVote(p, s) \/ cf[s].term < wp[p].term)
        BY <2>2 DEF VotesComeFrom
      <3>2. HasVote(p, s)
        BY <1>1, <2>0, <2>1, <3>1
      <3> QED BY <1>4, <3>1, <3>2 DEF Decided
    <2>3. e[2] <= cf'[s].term
      BY <1>1, <2>0, <2>1
    <2> QED BY <2>2, <2>3 DEF Decided
  <1> QED BY <1>2, <1>3, <1>4

\* ... and the whole invariant, when nobody wins.
LEMMA InvariantHolds ==
  ASSUME ElectionInv, TypeOK', TermsGrow, NEW q, VotesComeFrom(q), RequestsAreOwn',
         UNCHANGED won
  PROVE  ElectionInv'
PROOF
  <1>1. VotesArePersisted' /\ VotesAreUnique'
    BY PromisesHold
  <1>2. WonByQuorum'
    <2>1. ASSUME NEW e \in won
          PROVE  \E g \in DOMAIN Conf, Q \in SUBSET Safekeepers :
                   HasQuorum(g, Q) /\ \A s \in Q : Decided(e, s)'
      <3>1. PICK g \in DOMAIN Conf, Q \in SUBSET Safekeepers :
                   HasQuorum(g, Q) /\ \A s \in Q : Decided(e, s)
        BY <2>1 DEF ElectionInv, WonByQuorum
      <3>2. e \in Proposers \X Terms
        BY <2>1, TermTypes DEF ElectionInv
      <3>3. \A s \in Q : Decided(e, s)'
        BY <3>1, <3>2, PromisesHold
      <3> QED BY <3>1, <3>3
    <2> QED BY <2>1 DEF WonByQuorum
  <1>3. ElectionSafety'
    BY DEF ElectionInv, ElectionSafety
  <1> QED BY <1>1, <1>2, <1>3 DEF ElectionInv

-----------------------------------------------------------------------------
(* Terms of safekeepers *)

\* The term of a control file is a number.
LEMMA FileTermType ==
  ASSUME SafekeeperTypeOK, NEW s \in Safekeepers
  PROVE  cf[s].term \in Int
BY SafekeeperFacts, TermsAreInts

\* What the control file is replaced by never has a lower term.
LEMMA FileTerms ==
  ASSUME SafekeeperTypeOK, NEW s \in Safekeepers
  PROVE  /\ StartChange(s).term = cf[s].term /\ cf[s].term >= cf[s].term
         /\ StartChange(s).term >= cf[s].term
         /\ \A l : FlushedCommit(s, l).term >= cf[s].term
         /\ \A t \in Terms : RaisedTerm(s, t).term >= cf[s].term
         /\ \A t \in Terms : cf[s].term < t => RaisedTerm(s, t).term = t
PROOF
  <1>1. cf[s] \in ControlFiles /\ cf[s].term \in Int /\ Terms \in SUBSET Int
    BY SafekeeperFacts, FileTermType, TermsAreInts
  <1>2. StartChange(s).term = cf[s].term
    BY <1>1 DEF StartChange, ControlFiles
  <1>3. StartChange(s) \in ControlFiles
    BY StartChangeType
  <1>4. ASSUME NEW l PROVE FlushedCommit(s, l).term >= cf[s].term
    BY <1>1, <1>2, <1>3 DEF FlushedCommit, ControlFiles
  <1>5. ASSUME NEW t \in Terms
        PROVE  /\ RaisedTerm(s, t).term >= cf[s].term
               /\ cf[s].term < t => RaisedTerm(s, t).term = t
    <2>1. [StartChange(s) EXCEPT !.term = t].term = t
      BY <1>3 DEF ControlFiles
    <2> QED BY <1>1, <2>1 DEF RaisedTerm
  <1>6. StartChange(s).term >= cf[s].term /\ cf[s].term >= cf[s].term
    BY <1>1, <1>2
  <1> QED BY <1>2, <1>4, <1>5, <1>6

\* Only the control file of s changes.
LEMMA OneTermGrows ==
  ASSUME SafekeeperTypeOK, NEW s \in Safekeepers, NEW c, c.term >= cf[s].term,
         cf' = [cf EXCEPT ![s] = c]
  PROVE  TermsGrow
PROOF
  <1>1. \A x \in Safekeepers : cf[x].term \in Int
    BY FileTermType
  <1>2. \A x \in Safekeepers : cf'[x] = IF x = s THEN c ELSE cf[x]
    BY DEF SafekeeperTypeOK
  <1> QED BY <1>1, <1>2 DEF TermsGrow

\* No control file changes.
LEMMA NoTermChanges ==
  ASSUME SafekeeperTypeOK, UNCHANGED cf
  PROVE  TermsGrow
PROOF
  <1>1. \A x \in Safekeepers : cf[x].term \in Int
    BY FileTermType
  <1> QED BY <1>1 DEF TermsGrow

\* No message lowers the term.
LEMMA MessagesKeepTerms ==
  ASSUME TypeOK, NEW k \in Kinds, NEW p \in Proposers, NEW s \in Safekeepers,
         ReceiveMessage(k, p, s)
  PROVE  TermsGrow
PROOF
  <1> DEFINE m == Message(k, p, s)
  <1>1. SafekeeperTypeOK /\ ConnOK /\ cf[s].term \in Int /\ Terms \in SUBSET Int
    BY Parts, FileTermType, TermsAreInts
  <1>2. m.term \in Terms
    BY <1>1, ReceivedType, MessageFacts, NoTermChanges
       DEF ReceiveMessage, ReceiveVoteRequest, ReceiveElected, ReceiveAppend, RefuseMessage
  <1>3. CASE UNCHANGED cf
    BY <1>1, <1>3, NoTermChanges
  <1>4. CASE cf' = [cf EXCEPT ![s] = RaisedTerm(s, m.term)]
    BY <1>1, <1>2, <1>4, FileTerms, OneTermGrows
  <1>5. CASE AdoptElected(s, m)
    <2> DEFINE c == [StartChange(s) EXCEPT !.term = m.term,
                       !.commit = Higher(inmem[s].commit, StartLsn), !.hist = m.hist]
    <2>1. c.term = m.term
      BY <1>1, StartChangeType DEF ControlFiles
    <2>2. cf[s].term <= m.term /\ cf' = [cf EXCEPT ![s] = c]
      BY <1>5 DEF AdoptElected, ElectedAccepted, ElectedExpected
    <2> HIDE DEF c
    <2> QED BY <1>1, <1>2, <2>1, <2>2, OneTermGrows
  <1>6. CASE HandleAppendRequest(s, m)
    <2>1. \/ UNCHANGED cf
          \/ \E l : cf' = [cf EXCEPT ![s] = FlushedCommit(s, l)]
      BY <1>6 DEF HandleAppendRequest
    <2> QED BY <1>1, <1>3, <2>1, FileTerms, OneTermGrows
  <1>7. \/ UNCHANGED cf \/ cf' = [cf EXCEPT ![s] = RaisedTerm(s, m.term)]
        \/ AdoptElected(s, m) \/ HandleAppendRequest(s, m)
    BY DEF ReceiveMessage, ReceiveVoteRequest, ReceiveElected, ReceiveAppend, RefuseMessage,
           HandleVoteRequest, RefuseElected, skVars
  <1> QED BY <1>3, <1>4, <1>5, <1>6, <1>7

\* Nor does anything else that happens to a safekeeper, a crash included.
LEMMA EventsKeepTerms ==
  ASSUME TypeOK, NEW s \in Safekeepers,
         \/ Publish(s) \/ PersistState(s) \/ BumpTerm(s) \/ SwitchMembership(s) \/ Crash(s)
         \/ \E peer \in Safekeepers : ReceiveInfo(s, peer)
         \/ \E k \in Kinds, p \in Proposers : FlushWal(k, p, s)
         \/ \E p \in Proposers : Connect(p, s)
  PROVE  TermsGrow
PROOF
  <1>1. SafekeeperTypeOK /\ ConnOK /\ cf[s].term \in Int /\ Terms \in SUBSET Int
    BY Parts, FileTermType, TermsAreInts
  <1>2. CASE UNCHANGED cf
    BY <1>1, <1>2, NoTermChanges
  <1>3. CASE cf' = [cf EXCEPT ![s] = StartChange(s)]
    BY <1>1, <1>3, FileTerms, OneTermGrows
  <1>4. CASE \E t \in Terms : cf' = [cf EXCEPT ![s] = RaisedTerm(s, t)]
    BY <1>1, <1>4, FileTerms, OneTermGrows
  <1>5. CASE \E gen : cf' = [cf EXCEPT ![s] = [StartChange(s) EXCEPT !.gen = gen]]
    <2>1. PICK gen : cf' = [cf EXCEPT ![s] = [StartChange(s) EXCEPT !.gen = gen]]
      BY <1>5
    <2> DEFINE c == [StartChange(s) EXCEPT !.gen = gen]
    <2>2. c.term >= cf[s].term
      BY <1>1, StartChangeType, FileTerms DEF ControlFiles
    <2>3. cf' = [cf EXCEPT ![s] = c]
      BY <2>1
    <2> HIDE DEF c
    <2> QED BY <1>1, <2>2, <2>3, OneTermGrows
  <1>6. ASSUME NEW peer \in Safekeepers, ReceiveInfo(s, peer)
        PROVE  TermsGrow
    <2>1. broker[peer].commit \in Lsns /\ broker[peer].horizon \in Lsns
      BY Parts DEF BrokerOK, Infos
    <2>2. PICK c, im : InfoTaken(s, broker[peer], c, im) /\ cf' = [cf EXCEPT ![s] = c]
      BY <1>1, <1>6, <2>1, InfoIsTaken DEF ReceiveInfo
    <2>3. c.term >= cf[s].term
      BY <1>1, <2>2 DEF InfoTaken
    <2> QED BY <1>1, <2>2, <2>3, OneTermGrows
  <1>7. CASE Crash(s)
    <2>1. CASE CrashRestart(s)
      <3>1. cf' = [cf EXCEPT ![s] = cf[s]]
        BY <2>1 DEF CrashRestart, RestartWith
      <3> QED BY <1>1, <3>1, FileTerms, OneTermGrows
    <2>2. ASSUME NEW k \in Kinds, NEW p \in Proposers,
                 FirstMessage(k, p, s, "ProposerElected"), CrashInElected(s, Message(k, p, s))
          PROVE  TermsGrow
      <3>1. Message(k, p, s).term \in Terms
        BY <1>1, <2>2, ReceivedType, MessageFacts
      <3>2. cf' = [cf EXCEPT ![s] = RaisedTerm(s, Message(k, p, s).term)]
        BY <2>2 DEF CrashInElected, RestartWith
      <3> QED BY <1>4, <3>1, <3>2
    <2> QED BY <1>7, <2>1, <2>2 DEF Crash
  <1>8. CASE BumpTerm(s)
    <2>1. cf[s].term + 1 \in Terms
      BY <1>1, <1>8, SafekeeperFacts, MaxTermAssumption DEF BumpTerm, Terms
    <2>2. cf' = [cf EXCEPT ![s] = RaisedTerm(s, cf[s].term + 1)]
      BY <1>8 DEF BumpTerm, TermBump
    <2> QED BY <1>4, <2>1, <2>2
  <1>9. CASE PersistState(s)
    BY <1>3, <1>9 DEF PersistState, SaveControlFile
  <1>10. CASE SwitchMembership(s) \/ \E p \in Proposers : Connect(p, s)
    BY <1>2, <1>5, <1>10 DEF SwitchMembership, Connect, HandleGreeting, MembershipSwitch
  <1>11. CASE \E peer \in Safekeepers : ReceiveInfo(s, peer)
    BY <1>6, <1>11
  <1>12. CASE Publish(s) \/ \E k \in Kinds, p \in Proposers : FlushWal(k, p, s)
    BY <1>2, <1>12 DEF Publish, FlushWal, HandleFlush, skVars
  <1> QED BY <1>7, <1>8, <1>9, <1>10, <1>11, <1>12

-----------------------------------------------------------------------------
(* Queues *)

\* The elements of a queue that is consumed and extended.
LEMMA QueueElements ==
  ASSUME NEW S, NEW q \in Seq(S)
  PROVE  /\ q # <<>> => Head(q) \in ToSet(q) /\ ToSet(Tail(q)) \in SUBSET ToSet(q)
         /\ \A r \in Seq(S) : ToSet(q \o r) = ToSet(q) \cup ToSet(r)
         /\ \A e \in S : ToSet(Append(q, e)) = ToSet(q) \cup {e}
PROOF
  <1>1. ASSUME q # <<>>
        PROVE  Head(q) \in ToSet(q) /\ ToSet(Tail(q)) \in SUBSET ToSet(q)
    BY <1>1, HeadTailProperties, LenProperties DEF ToSet
  <1>2. ASSUME NEW r \in Seq(S)
        PROVE  ToSet(q \o r) = ToSet(q) \cup ToSet(r)
    <2>1. /\ Len(q) \in Nat /\ Len(r) \in Nat /\ DOMAIN q = 1..Len(q) /\ DOMAIN r = 1..Len(r)
          /\ DOMAIN (q \o r) = 1..(Len(q) + Len(r))
          /\ \A i \in 1..Len(q) : (q \o r)[i] = q[i]
          /\ \A i \in 1..Len(r) : (q \o r)[Len(q) + i] = r[i]
      BY ConcatProperties, LenProperties
    <2>2. ToSet(q \o r) \in SUBSET (ToSet(q) \cup ToSet(r))
      <3> SUFFICES ASSUME NEW i \in 1..(Len(q) + Len(r))
                   PROVE  (q \o r)[i] \in ToSet(q) \cup ToSet(r)
        BY <2>1 DEF ToSet
      <3>1. CASE i \in 1..Len(q)
        BY <2>1, <3>1 DEF ToSet
      <3>2. CASE i \notin 1..Len(q)
        <4>1. i - Len(q) \in 1..Len(r) /\ i = Len(q) + (i - Len(q))
          BY <2>1, <3>2
        <4> QED BY <2>1, <4>1 DEF ToSet
      <3> QED BY <3>1, <3>2
    <2>3. ASSUME NEW i \in 1..Len(q) PROVE q[i] \in ToSet(q \o r)
      BY <2>1 DEF ToSet
    <2>4. ASSUME NEW i \in 1..Len(r) PROVE r[i] \in ToSet(q \o r)
      <3>1. Len(q) + i \in 1..(Len(q) + Len(r))
        BY <2>1
      <3> QED BY <2>1, <3>1 DEF ToSet
    <2>5. ToSet(q) \in SUBSET ToSet(q \o r) /\ ToSet(r) \in SUBSET ToSet(q \o r)
      <3>1. ToSet(q) = {q[i] : i \in 1..Len(q)} /\ ToSet(r) = {r[i] : i \in 1..Len(r)}
        BY <2>1 DEF ToSet
      <3> QED BY <2>3, <2>4, <3>1
    <2> QED BY <2>2, <2>5
  <1>3. ASSUME NEW e \in S
        PROVE  ToSet(Append(q, e)) = ToSet(q) \cup {e}
    <2>1. <<e>> \in Seq(S) /\ Append(q, e) = q \o <<e>> /\ ToSet(<<e>>) = {e}
      BY AppendProperties, AddLast DEF ToSet
    <2> QED BY <1>2, <2>1
  <1> QED BY <1>1, <1>2, <1>3

\* Queues of no element and of one.
LEMMA SmallQueues == ToSet(<<>>) = {} /\ \A e : ToSet(<<e>>) = {e}
BY DEF ToSet

\* The live connections carry nothing new to the safekeepers, or the answers to
\* walproposers.
NoNewMessages ==
  \A p \in Proposers, s \in Safekeepers :
    ToSet(conn'["live"][p][s].queue) \in SUBSET ToSet(conn["live"][p][s].queue)
NoNewVotes ==
  \A p \in Proposers, s \in Safekeepers :
    \A m \in ToSet(toWp'[p][s]) : Given(m) => m \in ToSet(toWp[p][s])

\* What does not change brings nothing new.
LEMMA NothingNew ==
  /\ UNCHANGED conn => NoNewMessages
  /\ UNCHANGED toWp => NoNewVotes
BY DEF NoNewMessages, NoNewVotes

\* A handled message is gone from its queue; the replies join the answers.
LEMMA HandledQueues ==
  ASSUME ConnOK, ToWpOK, NEW k \in Kinds, NEW p \in Proposers, NEW s \in Safekeepers,
         conn[k][p][s].queue # <<>>, NEW d, NEW replies \in Seq(ToProposer),
         Handled(k, p, s, d, replies)
  PROVE  /\ NoNewMessages
         /\ \A q \in Proposers, x \in Safekeepers :
              \A m \in ToSet(toWp'[q][x]) :
                m \in ToSet(toWp[q][x]) \/ (k = "live" /\ q = p /\ x = s /\ m \in ToSet(replies))
PROOF
  <1> DEFINE c == conn[k][p][s]
             n == Consumed(k, c, d)
  <1>1. c \in Connections /\ c.queue \in Seq(ToSafekeeper)
    BY ConnectionFacts
  <1>2. n.queue = <<>> \/ n.queue = Tail(c.queue)
    BY <1>1 DEF Consumed, Closed, Connections
  <1>3. ToSet(n.queue) \in SUBSET ToSet(c.queue)
    BY <1>1, <1>2, QueueElements, SmallQueues
  <1>4. conn' = [conn EXCEPT ![k][p][s] = n]
    BY DEF Handled
  <1> HIDE DEF n
  <1>5. NoNewMessages
    <2> SUFFICES ASSUME NEW q \in Proposers, NEW x \in Safekeepers
                 PROVE  ToSet(conn'["live"][q][x].queue) \in SUBSET ToSet(conn["live"][q][x].queue)
      BY DEF NoNewMessages
    <2>1. "live" \in Kinds
      BY DEF Kinds
    <2>2. conn'["live"][q][x] = IF "live" = k /\ q = p /\ x = s THEN n ELSE conn["live"][q][x]
      BY <1>4, <2>1 DEF ConnOK
    <2>3. CASE "live" = k /\ q = p /\ x = s
      BY <1>3, <2>2, <2>3
    <2>4. CASE ~("live" = k /\ q = p /\ x = s)
      BY <2>2, <2>4
    <2> QED BY <2>3, <2>4
  <1>6. ASSUME NEW q \in Proposers, NEW x \in Safekeepers, NEW m \in ToSet(toWp'[q][x])
        PROVE  m \in ToSet(toWp[q][x]) \/ (k = "live" /\ q = p /\ x = s /\ m \in ToSet(replies))
    <2>1. toWp[q][x] \in Seq(ToProposer)
      BY AnswerQueueFacts
    <2>2. CASE k = "live" /\ q = p /\ x = s
      <3>1. toWp'[q][x] = toWp[q][x] \o replies
        BY <2>2 DEF Handled, ToWpOK
      <3>2. ToSet(toWp'[q][x]) = ToSet(toWp[q][x]) \cup ToSet(replies)
        BY <2>1, <3>1, QueueElements
      <3> QED BY <1>6, <2>2, <3>2
    <2>3. CASE ~(k = "live" /\ q = p /\ x = s)
      <3>1. toWp'[q][x] = toWp[q][x]
        BY <2>3 DEF Handled, ToWpOK
      <3> QED BY <1>6, <3>1
    <2> QED BY <2>2, <2>3
  <1> QED BY <1>5, <1>6

\* Giving up connections only takes messages away.
LEMMA GiveUpQueues ==
  ASSUME ConnOK, ToWpOK, NEW p \in Proposers, NEW gone, NEW last, GiveUp(p, gone, last)
  PROVE  /\ NoNewMessages /\ NoNewVotes
         /\ \A s \in Safekeepers \cap gone :
              ToSet(conn'["live"][p][s].queue) = {} /\ ToSet(toWp'[p][s]) = {}
PROOF
  <1> DEFINE live == [s \in Safekeepers |-> IF s \in gone THEN Closed ELSE conn["live"][p][s]]
             answers == [s \in Safekeepers |-> IF s \in gone THEN <<>> ELSE toWp[p][s]]
  <1>1. "live" \in Kinds /\ "stale" \in Kinds /\ "live" # "stale"
    BY DEF Kinds
  <1>2. conn'["live"] = [conn["live"] EXCEPT ![p] = live]
    BY <1>1 DEF GiveUp, ConnOK
  <1>3. toWp' = [toWp EXCEPT ![p] = answers]
    BY DEF GiveUp
  <1>4. conn["live"] \in [Proposers -> [Safekeepers -> Connections]]
    BY <1>1 DEF ConnOK
  <1>5. ASSUME NEW q \in Proposers, NEW s \in Safekeepers
        PROVE  /\ conn'["live"][q][s] = IF q = p /\ s \in gone THEN Closed ELSE conn["live"][q][s]
               /\ toWp'[q][s] = IF q = p /\ s \in gone THEN <<>> ELSE toWp[q][s]
    BY <1>2, <1>3, <1>4 DEF ToWpOK
  <1>6. Closed.queue = <<>>
    BY DEF Closed
  <1>7. NoNewMessages
    BY <1>5, <1>6, SmallQueues DEF NoNewMessages
  <1>8. NoNewVotes
    BY <1>5, SmallQueues DEF NoNewVotes
  <1> QED BY <1>5, <1>6, <1>7, <1>8, SmallQueues

\* An answer that is taken is gone; what is sent comes from Outgoing.
LEMMA AnsweredQueues ==
  ASSUME ConnOK, ToWpOK, WalProposerOK', NEW p \in Proposers, NEW s \in Safekeepers,
         toWp[p][s] # <<>>, Answered(p, s)
  PROVE  /\ NoNewVotes
         /\ \A q \in Proposers, x \in Safekeepers :
              \A m \in ToSet(conn'["live"][q][x].queue) :
                m \in ToSet(conn["live"][q][x].queue) \/ (q = p /\ m \in ToSet(Outgoing(p, x)))
PROOF
  <1> DEFINE f == [x \in Safekeepers |-> Sent(conn["live"][p][x], Outgoing(p, x))]
  <1>1. "live" \in Kinds
    BY DEF Kinds
  <1>2. conn' = [conn EXCEPT !["live"][p] = f]
    BY DEF Answered
  <1>3. ASSUME NEW q \in Proposers, NEW x \in Safekeepers,
               NEW m \in ToSet(conn'["live"][q][x].queue)
        PROVE  m \in ToSet(conn["live"][q][x].queue) \/ (q = p /\ m \in ToSet(Outgoing(p, x)))
    <2>1. CASE q # p
      <3>1. conn'["live"][q][x] = conn["live"][q][x]
        BY <1>1, <1>2, <2>1, SMTT(60) DEF ConnOK
      <3> QED BY <1>3, <3>1
    <2>2. CASE q = p
      <3>1. conn'["live"][q][x] = Sent(conn["live"][p][x], Outgoing(p, x))
        BY <1>1, <1>2, <2>2 DEF ConnOK
      <3>2. /\ conn["live"][p][x] \in Connections
            /\ conn["live"][p][x].queue \in Seq(ToSafekeeper)
            /\ Outgoing(p, x) \in Seq(ToSafekeeper)
        BY <1>1, ConnectionFacts, OutgoingType, SMTT(60)
      <3>3. \/ conn'["live"][q][x].queue = conn["live"][p][x].queue
            \/ conn'["live"][q][x].queue = conn["live"][p][x].queue \o Outgoing(p, x)
        BY <3>1, <3>2 DEF Sent, Connections
      <3>4. ToSet(conn["live"][p][x].queue \o Outgoing(p, x))
              = ToSet(conn["live"][p][x].queue) \cup ToSet(Outgoing(p, x))
        BY <3>2, QueueElements
      <3> QED BY <1>3, <2>2, <3>3, <3>4
    <2> QED BY <2>1, <2>2
  <1>4. NoNewVotes
    <2>1. ASSUME NEW q \in Proposers, NEW x \in Safekeepers
          PROVE  ToSet(toWp'[q][x]) \in SUBSET ToSet(toWp[q][x])
      <3>1. toWp[p][s] \in Seq(ToProposer)
        BY AnswerQueueFacts
      <3>2. toWp'[q][x] = IF q = p /\ x = s THEN Tail(toWp[p][s]) ELSE toWp[q][x]
        BY DEF Answered, ToWpOK
      <3>3. ToSet(Tail(toWp[p][s])) \in SUBSET ToSet(toWp[p][s])
        BY <3>1, QueueElements
      <3>4. CASE q = p /\ x = s
        BY <3>2, <3>3, <3>4
      <3>5. CASE ~(q = p /\ x = s)
        BY <3>2, <3>5
      <3> QED BY <3>4, <3>5
    <2> QED BY <2>1 DEF NoNewVotes
  <1> QED BY <1>3, <1>4

-----------------------------------------------------------------------------
(* Walproposers *)

\* Walproposer q counts no vote it did not have, and keeps its term unless it
\* drops everything.
Stays(q) ==
  /\ Campaigning(wp[q]) =>
       \/ wp'[q].term = wp[q].term /\ Campaigning(wp'[q])
       \/ \A x \in Safekeepers :
            /\ ToSet(conn'["live"][q][x].queue) = {} /\ ToSet(toWp'[q][x]) = {}
            /\ sks'[q][x].state # "WAIT_ELECTED"
  /\ \A x \in Safekeepers : sks'[q][x].state = "WAIT_ELECTED" => HasVote(q, x)

\* Requests that are new on a live connection are in the term of the walproposer.
OwnRequests ==
  \A p \in Proposers, s \in Safekeepers : \A m \in ToSet(conn'["live"][p][s].queue) :
    m.type = "VoteRequest" =>
      m \in ToSet(conn["live"][p][s].queue) \/ (Campaigning(wp'[p]) /\ m.term = wp'[p].term)

\* Steps of this kind create no votes.
LEMMA VotesStay ==
  ASSUME ElectionInv, \A p \in Proposers : Stays(p), OwnRequests, NoNewVotes, NEW q
  PROVE  RequestsAreOwn' /\ VotesComeFrom(q)
PROOF
  <1>1. RequestsAreOwn /\ VotesArePersisted
    BY DEF ElectionInv
  <1>2. RequestsAreOwn'
    <2> SUFFICES ASSUME NEW p \in Proposers, NEW s \in Safekeepers,
                        NEW m \in ToSet(conn'["live"][p][s].queue), m.type = "VoteRequest"
                 PROVE  Campaigning(wp'[p]) /\ m.term = wp'[p].term
      BY DEF RequestsAreOwn
    <2>1. \/ m \in ToSet(conn["live"][p][s].queue)
          \/ Campaigning(wp'[p]) /\ m.term = wp'[p].term
      BY DEF OwnRequests
    <2>2. CASE m \in ToSet(conn["live"][p][s].queue)
      <3>1. Campaigning(wp[p]) /\ m.term = wp[p].term
        BY <1>1, <2>2 DEF RequestsAreOwn
      <3>2. wp'[p].term = wp[p].term /\ Campaigning(wp'[p])
        BY <3>1 DEF Stays
      <3> QED BY <3>1, <3>2
    <2> QED BY <2>1, <2>2
  <1>3. VotesComeFrom(q)
    <2> SUFFICES ASSUME NEW p \in Proposers, NEW s \in Safekeepers, HasVote(p, s)'
                 PROVE  /\ wp'[p].term = wp[p].term /\ Campaigning(wp'[p])
                        /\ HasVote(p, s)
      BY DEF VotesComeFrom
    <2>1. sks'[p][s].state = "WAIT_ELECTED" \/ \E m \in ToSet(toWp'[p][s]) : Given(m)
      BY DEF HasVote, Given
    <2>2. HasVote(p, s)
      <3>1. CASE sks'[p][s].state = "WAIT_ELECTED"
        BY <3>1 DEF Stays
      <3>2. CASE \E m \in ToSet(toWp'[p][s]) : Given(m)
        BY <3>2 DEF NoNewVotes, HasVote
      <3> QED BY <2>1, <3>1, <3>2
    <2>3. Campaigning(wp[p])
      BY <1>1, <2>2 DEF VotesArePersisted
    <2>4. wp'[p].term = wp[p].term /\ Campaigning(wp'[p])
      BY <2>1, <2>3 DEF Stays
    <2> QED BY <2>2, <2>4
  <1> QED BY <1>2, <1>3

\* A walproposer that does nothing stays.
LEMMA IdleStays ==
  ASSUME NEW q, wp'[q] = wp[q],
         \A x \in Safekeepers : sks'[q][x].state = sks[q][x].state \/ sks'[q][x].state # "WAIT_ELECTED"
  PROVE  Stays(q)
BY DEF Stays, HasVote

\* Only walproposer p changes.
LEMMA OthersStay ==
  ASSUME WalProposerOK, NEW p \in Proposers, NEW w, NEW k,
         wp' = [wp EXCEPT ![p] = w], sks' = [sks EXCEPT ![p] = k]
  PROVE  /\ wp'[p] = w /\ sks'[p] = k
         /\ \A q \in Proposers : q # p => wp'[q] = wp[q] /\ sks'[q] = sks[q] /\ Stays(q)
PROOF
  <1>1. /\ wp'[p] = w /\ sks'[p] = k
        /\ \A q \in Proposers : q # p => wp'[q] = wp[q] /\ sks'[q] = sks[q]
    BY DEF WalProposerOK, WalProposerTypeOK
  <1>2. ASSUME NEW q \in Proposers, q # p PROVE Stays(q)
    <2>1. wp'[q] = wp[q] /\ \A x \in Safekeepers : sks'[q][x].state = sks[q][x].state
      BY <1>1, <1>2
    <2> QED BY <2>1, IdleStays
  <1> QED BY <1>1, <1>2

\* A step that leaves all walproposers alone.
LEMMA AllIdle ==
  ASSUME UNCHANGED wpVars
  PROVE  \A q \in Proposers : Stays(q)
PROOF
  <1>1. UNCHANGED wp /\ UNCHANGED sks
    BY DEF wpVars
  <1> QED BY <1>1, IdleStays

\* Requests that were there before are covered by the invariant.
LEMMA OldRequests == NoNewMessages => OwnRequests
BY DEF NoNewMessages, OwnRequests

\* What is sent with an answer's processing is requested in the sender's term.
LEMMA AnsweredRequests ==
  ASSUME ConnOK, ToWpOK, WalProposerOK', NEW p \in Proposers, NEW s \in Safekeepers,
         toWp[p][s] # <<>>, Answered(p, s)
  PROVE  OwnRequests /\ NoNewVotes
PROOF
  <1> SUFFICES ASSUME NEW x \in Safekeepers, NEW m \in ToSet(Outgoing(p, x)),
                      m.type = "VoteRequest"
               PROVE  Campaigning(wp'[p]) /\ m.term = wp'[p].term
    BY AnsweredQueues DEF OwnRequests
  <1>1. \/ /\ sks'[p][x].state = "WAIT_VERDICT"
           /\ Outgoing(p, x) = <<VoteRequest(wp'[p])>>
        \/ Outgoing(p, x) = <<ProposerElected(wp'[p], sks'[p][x])>>
        \/ Outgoing(p, x) = <<>>
    BY DEF Outgoing
  <1>2. \/ /\ sks'[p][x].state = "WAIT_VERDICT"
           /\ m = VoteRequest(wp'[p])
        \/ m = ProposerElected(wp'[p], sks'[p][x])
    BY <1>1, SmallQueues
  <1>3. sks'[p][x].state = "WAIT_VERDICT" /\ m = VoteRequest(wp'[p])
    BY <1>2 DEF ProposerElected
  <1>4. SafekeeperPhase(wp'[p], sks'[p][x])
    BY DEF WalProposerOK, WalProposerPhases
  <1>5. Campaigning(wp'[p])
    BY <1>3, <1>4 DEF SafekeeperPhase, Campaigning
  <1> QED BY <1>3, <1>5 DEF VoteRequest

\* A process that exits drops its connections and what was on them.
LEMMA ExitStays ==
  ASSUME ConnOK, ToWpOK, WalProposerOK, NEW p \in Proposers, NEW state, NEW lsn, NEW last,
         Exit(p, state, lsn), GiveUp(p, Safekeepers, last)
  PROVE  (\A q \in Proposers : Stays(q)) /\ OwnRequests /\ NoNewVotes
PROOF
  <1>1. /\ NoNewMessages /\ NoNewVotes
        /\ \A x \in Safekeepers :
             ToSet(conn'["live"][p][x].queue) = {} /\ ToSet(toWp'[p][x]) = {}
    <2>1. \A x \in Safekeepers : x \in Safekeepers \cap Safekeepers
      OBVIOUS
    <2> QED BY <2>1, GiveUpQueues
  <1>2. /\ \A x \in Safekeepers : sks'[p][x].state # "WAIT_ELECTED"
        /\ \A q \in Proposers : q # p => Stays(q)
    <2>1. /\ sks'[p] = [x \in Safekeepers |-> Offline]
          /\ \A q \in Proposers : q # p => Stays(q)
      BY OthersStay, ZenonT(60) DEF Exit
    <2>2. Offline.state # "WAIT_ELECTED"
      BY OfflineType
    <2> QED BY <2>1, <2>2
  <1>3. Stays(p)
    BY <1>1, <1>2 DEF Stays
  <1> QED BY <1>1, <1>2, <1>3, OldRequests

-----------------------------------------------------------------------------
(* Safekeeper steps *)

\* A step of safekeepers or the network that gives no vote.
LEMMA QuietStep ==
  ASSUME ElectionInv, TypeOK', TermsGrow, UNCHANGED wpVars, UNCHANGED won,
         NoNewMessages, NoNewVotes
  PROVE  ElectionInv'
PROOF
  <1>1. (\A p \in Proposers : Stays(p)) /\ OwnRequests
    BY AllIdle, OldRequests
  <1>2. RequestsAreOwn' /\ VotesComeFrom("nobody")
    BY <1>1, VotesStay
  <1> QED BY <1>2, InvariantHolds

\* handle_vote_request: a vote is given by a safekeeper that enters the term with
\* it, and has persisted that.
LEMMA VoteRequestStep ==
  ASSUME ElectionInv, NEW k \in Kinds, NEW p \in Proposers, NEW s \in Safekeepers,
         ReceiveVoteRequest(k, p, s)
  PROVE  ElectionInv'
PROOF
  <1> DEFINE m == Message(k, p, s)
             v == VoteReply(s, m)
  <1>1. TypeOK /\ RequestsAreOwn /\ VotesArePersisted
    BY DEF ElectionInv
  <1>2. SafekeeperTypeOK /\ ConnOK /\ ToWpOK /\ WalProposerOK
    BY <1>1, Parts
  <1>3. ReceiveMessage(k, p, s)
    BY DEF ReceiveMessage
  <1>4. TypeOK' /\ TermsGrow
    BY <1>1, <1>3, ReceiveMessageType, MessagesKeepTerms
  <1>5. /\ m \in ToSafekeeper /\ m.type = "VoteRequest" /\ conn[k][p][s].queue # <<>>
        /\ m.term \in Terms
    BY <1>2, ReceivedType, MessageFacts DEF ReceiveVoteRequest
  <1>6. <<v>> \in Seq(ToProposer)
    BY <1>2, <1>4, PartsNext, VoteReplyType, EmptySeq, AddLast
  <1>7. /\ UNCHANGED wp /\ UNCHANGED sks /\ UNCHANGED won /\ UNCHANGED wpVars
        /\ cf' = [cf EXCEPT ![s] = RaisedTerm(s, m.term)]
        /\ Handled(k, p, s, conn[k][p][s].dirty, <<v>>)
    BY DEF ReceiveVoteRequest, HandleVoteRequest, wpVars, history
  <1>8. /\ NoNewMessages
        /\ \A q \in Proposers, x \in Safekeepers : \A a \in ToSet(toWp'[q][x]) :
             a \in ToSet(toWp[q][x]) \/ (k = "live" /\ q = p /\ x = s /\ a \in ToSet(<<v>>))
    <2> DEFINE r == <<v>>
    <2>1. conn[k][p][s].queue # <<>> /\ r \in Seq(ToProposer)
      BY <1>5, <1>6
    <2>2. Handled(k, p, s, conn[k][p][s].dirty, r)
      BY <1>7
    <2> HIDE DEF r, v, m
    <2>3. /\ NoNewMessages
          /\ \A q \in Proposers, x \in Safekeepers : \A a \in ToSet(toWp'[q][x]) :
               a \in ToSet(toWp[q][x]) \/ (k = "live" /\ q = p /\ x = s /\ a \in ToSet(r))
      BY <1>2, <2>1, <2>2, HandledQueues
    <2> QED BY <2>3 DEF r
  <1>9. RequestsAreOwn'
    BY <1>1, <1>7, <1>8 DEF RequestsAreOwn, NoNewMessages
  <1>10. Given(v) => cf[s].term < m.term /\ cf'[s].term = m.term
    <2>1. Given(v) => cf[s].term < m.term
      BY DEF Given, VoteReply
    <2>2. cf[s].term < m.term => cf'[s].term = m.term
      BY <1>2, <1>5, <1>7, FileTerms DEF SafekeeperTypeOK
    <2> QED BY <2>1, <2>2
  <1>11. k = "live" => m.term = wp[p].term /\ Campaigning(wp[p])
    <2>1. "live" \in Kinds
      BY DEF Kinds
    <2>2. k = "live" => m \in ToSet(conn["live"][p][s].queue)
      BY <1>2, <1>5, <2>1, ConnectionFacts, QueueElements DEF Message
    <2> QED BY <1>1, <1>5, <2>2 DEF RequestsAreOwn
  <1> HIDE DEF v, m
  <1>12. VotesComeFrom(p)
    <2> SUFFICES ASSUME NEW q \in Proposers, NEW x \in Safekeepers, HasVote(q, x)'
                 PROVE  /\ Campaigning(wp[q])
                        /\ \/ HasVote(q, x)
                           \/ q = p /\ cf[x].term < wp[q].term /\ wp[q].term <= cf'[x].term
      BY <1>7 DEF VotesComeFrom
    <2>1. HasVote(q, x) \/ (k = "live" /\ q = p /\ x = s /\ Given(v))
      <3>1. sks[q][x].state = "WAIT_ELECTED" \/ \E a \in ToSet(toWp'[q][x]) : Given(a)
        BY <1>7 DEF HasVote, Given
      <3> QED BY <1>8, <3>1, SmallQueues DEF HasVote
    <2>2. CASE HasVote(q, x)
      BY <1>1, <2>2 DEF VotesArePersisted
    <2>3. CASE k = "live" /\ q = p /\ x = s /\ Given(v)
      <3>1. m.term \in Int
        BY <1>5, TermsAreInts
      <3> QED BY <1>10, <1>11, <2>3, <3>1
    <2> QED BY <2>1, <2>2, <2>3
  <1> QED BY <1>4, <1>7, <1>9, <1>12, InvariantHolds

\* The other messages give no vote.
LEMMA OtherMessageStep ==
  ASSUME ElectionInv, NEW k \in Kinds, NEW p \in Proposers, NEW s \in Safekeepers,
         ReceiveElected(k, p, s) \/ ReceiveAppend(k, p, s) \/ RefuseMessage(k, p, s)
  PROVE  ElectionInv'
PROOF
  <1>1. TypeOK
    BY DEF ElectionInv
  <1>2. SafekeeperTypeOK /\ ConnOK /\ ToWpOK
    BY <1>1, Parts
  <1>3. ReceiveMessage(k, p, s)
    BY DEF ReceiveMessage
  <1>4. TypeOK' /\ TermsGrow
    BY <1>1, <1>3, ReceiveMessageType, MessagesKeepTerms
  <1>5. UNCHANGED wpVars /\ UNCHANGED won
    BY DEF ReceiveElected, ReceiveAppend, RefuseMessage, history
  <1>6. NoNewMessages /\ NoNewVotes
    <2>1. ASSUME NEW d, NEW r \in Seq(ToProposer), Handled(k, p, s, d, r),
                 conn[k][p][s].queue # <<>>, \A a \in ToSet(r) : ~Given(a)
          PROVE  NoNewMessages /\ NoNewVotes
      BY <1>2, <2>1, HandledQueues DEF NoNewVotes
    <2>2. CASE ReceiveElected(k, p, s)
      <3>1. conn[k][p][s].queue # <<>>
        BY <2>2 DEF ReceiveElected, FirstMessage
      <3>2. Handled(k, p, s, conn[k][p][s].dirty, <<>>) /\ <<>> \in Seq(ToProposer)
        BY <2>2, EmptySeq DEF ReceiveElected
      <3> QED BY <2>1, <3>1, <3>2, SmallQueues
    <2>3. CASE ReceiveAppend(k, p, s)
      <3>1. conn[k][p][s].queue # <<>>
        BY <2>3 DEF ReceiveAppend, FirstMessage
      <3>2. AppendReply(s) \in ToProposer /\ TermOnlyReply(s) \in ToProposer
        BY <1>2, <1>4, PartsNext, ReplyTypes, TermOnlyReplyType
      <3>3. ~Given(AppendReply(s)) /\ ~Given(TermOnlyReply(s))
        BY DEF Given, AppendReply, TermOnlyReply
      <3>4. \/ Handled(k, p, s, TRUE, <<>>)
            \/ Handled(k, p, s, TRUE, <<AppendReply(s)>>)
            \/ Handled(k, p, s, TRUE, <<TermOnlyReply(s)>>)
        BY <2>3 DEF ReceiveAppend
      <3>5. <<>> \in Seq(ToProposer) /\ \A a \in ToSet(<<>>) : ~Given(a)
        BY EmptySeq, SmallQueues
      <3>6. ASSUME NEW e \in ToProposer, ~Given(e)
            PROVE  <<e>> \in Seq(ToProposer) /\ \A a \in ToSet(<<e>>) : ~Given(a)
        <4>1. <<e>> \in Seq(ToProposer) /\ ToSet(<<e>>) = {e}
          BY EmptySeq, AddLast, SmallQueues
        <4> QED BY <3>6, <4>1
      <3> QED BY <2>1, <3>1, <3>2, <3>3, <3>4, <3>5, <3>6
    <2>4. CASE RefuseMessage(k, p, s)
      <3>1. conn' = [conn EXCEPT ![k][p][s] = Closed] /\ UNCHANGED toWp
        BY <2>4 DEF RefuseMessage, Refused
      <3>2. "live" \in Kinds /\ Closed.queue = <<>>
        BY DEF Kinds, Closed
      <3>3. ASSUME NEW q \in Proposers, NEW x \in Safekeepers
            PROVE  conn'["live"][q][x] = Closed \/ conn'["live"][q][x] = conn["live"][q][x]
        BY <1>2, <3>1, <3>2 DEF ConnOK
      <3>4. NoNewMessages
        BY <3>2, <3>3, SmallQueues DEF NoNewMessages
      <3> QED BY <3>1, <3>4, NothingNew
    <2> QED BY <2>2, <2>3, <2>4
  <1> QED BY <1>4, <1>5, <1>6, QuietStep

\* Flushing, what peers say, changes of configuration and crashes.
LEMMA EventStep ==
  ASSUME ElectionInv, NEW s \in Safekeepers,
         \/ Publish(s) \/ PersistState(s) \/ BumpTerm(s) \/ SwitchMembership(s) \/ Crash(s)
         \/ \E peer \in Safekeepers : ReceiveInfo(s, peer)
         \/ \E k \in Kinds, p \in Proposers : FlushWal(k, p, s)
  PROVE  ElectionInv'
PROOF
  <1>1. TypeOK
    BY DEF ElectionInv
  <1>2. SafekeeperTypeOK /\ ConnOK /\ ToWpOK
    BY <1>1, Parts
  <1>3. TypeOK' /\ TermsGrow
    BY <1>1, LocalStepType, CrashType, FlushWalType, EventsKeepTerms
  <1>4. UNCHANGED wpVars /\ UNCHANGED won
    BY DEF Publish, PersistState, BumpTerm, SwitchMembership, Crash, ReceiveInfo, FlushWal, history
  <1>5. "live" \in Kinds /\ Closed.queue = <<>>
    BY DEF Kinds, Closed
  <1>6. CASE UNCHANGED netVars
    <2>1. UNCHANGED conn /\ UNCHANGED toWp
      BY <1>6 DEF netVars
    <2> QED BY <1>3, <1>4, <2>1, NothingNew, QuietStep
  <1>7. CASE Crash(s)
    <2>1. conn' = ConnectionsOf(s) /\ UNCHANGED toWp
      BY <1>7 DEF Crash
    <2>2. ASSUME NEW q \in Proposers, NEW x \in Safekeepers
          PROVE  conn'["live"][q][x] = Closed \/ conn'["live"][q][x] = conn["live"][q][x]
      BY <1>2, <1>5, <2>1 DEF ConnOK, ConnectionsOf
    <2>3. NoNewMessages
      BY <1>5, <2>2, SmallQueues DEF NoNewMessages
    <2> QED BY <1>3, <1>4, <2>1, <2>3, NothingNew, QuietStep
  <1>8. ASSUME NEW k \in Kinds, NEW p \in Proposers, FlushWal(k, p, s)
        PROVE  ElectionInv'
    <2> DEFINE c == conn[k][p][s]
               n == IF k = "stale" /\ c.queue = <<>> THEN Closed ELSE [c EXCEPT !.dirty = FALSE]
               q == Append(toWp[p][s], AppendReply(s))
    <2>1. conn' = [conn EXCEPT ![k][p][s] = n] /\ (toWp' = toWp \/ toWp' = [toWp EXCEPT ![p][s] = q])
      BY <1>8 DEF FlushWal
    <2>2. n.queue = c.queue
      BY <1>2, <1>5, ConnectionFacts DEF Connections
    <2> HIDE DEF n
    <2>3. ASSUME NEW r \in Proposers, NEW x \in Safekeepers
          PROVE  conn'["live"][r][x].queue = conn["live"][r][x].queue
      <3>1. conn'["live"][r][x] = IF "live" = k /\ r = p /\ x = s THEN n ELSE conn["live"][r][x]
        BY <1>2, <1>5, <2>1 DEF ConnOK
      <3> QED BY <2>2, <3>1
    <2>4. NoNewMessages
      BY <2>3 DEF NoNewMessages
    <2>5. toWp[p][s] \in Seq(ToProposer) /\ AppendReply(s) \in ToProposer
      BY <1>2, <1>3, AnswerQueueFacts, PartsNext, ReplyTypes
    <2>6. ToSet(q) = ToSet(toWp[p][s]) \cup {AppendReply(s)} /\ ~Given(AppendReply(s))
      BY <2>5, QueueElements DEF Given, AppendReply
    <2> HIDE DEF q
    <2>7. NoNewVotes
      <3> SUFFICES ASSUME NEW r \in Proposers, NEW x \in Safekeepers,
                          NEW a \in ToSet(toWp'[r][x]), Given(a)
                   PROVE  a \in ToSet(toWp[r][x])
        BY DEF NoNewVotes
      <3>1. toWp'[r][x] = toWp[r][x] \/ (r = p /\ x = s /\ toWp'[r][x] = q)
        BY <1>2, <2>1 DEF ToWpOK
      <3> QED BY <2>6, <3>1
    <2> QED BY <1>3, <1>4, <2>4, <2>7, QuietStep
  <1>9. UNCHANGED netVars \/ Crash(s) \/ \E k \in Kinds, p \in Proposers : FlushWal(k, p, s)
    BY DEF Publish, PersistState, BumpTerm, SwitchMembership, ReceiveInfo
  <1> QED BY <1>6, <1>7, <1>8, <1>9

\* Messages on a stale connection are lost.
LEMMA LoseStaleStep ==
  ASSUME ElectionInv, NEW p \in Proposers, NEW s \in Safekeepers, LoseStale(p, s)
  PROVE  ElectionInv'
PROOF
  <1> DEFINE c == conn["stale"][p][s]
             n == IF c.dirty THEN [c EXCEPT !.queue = <<>>] ELSE Closed
  <1>1. TypeOK
    BY DEF ElectionInv
  <1>2. TypeOK' /\ SafekeeperTypeOK /\ ConnOK
    BY <1>1, LoseStaleType, Parts
  <1>3. /\ conn' = [conn EXCEPT !["stale"][p][s] = n]
        /\ UNCHANGED cf /\ UNCHANGED wpVars /\ UNCHANGED toWp /\ UNCHANGED won
    BY DEF LoseStale, skVars, history
  <1> HIDE DEF n
  <1>4. conn'["live"] = conn["live"]
    BY <1>2, <1>3 DEF ConnOK, Kinds
  <1>5. NoNewMessages /\ NoNewVotes
    BY <1>3, <1>4, NothingNew DEF NoNewMessages
  <1> QED BY <1>2, <1>3, <1>5, NoTermChanges, QuietStep

-----------------------------------------------------------------------------
(* Walproposer steps *)

\* A step of walproposers in which nobody wins.
LEMMA ProposerQuietStep ==
  ASSUME ElectionInv, TypeOK', TermsGrow, UNCHANGED won,
         \A p \in Proposers : Stays(p), OwnRequests, NoNewVotes
  PROVE  ElectionInv'
PROOF
  <1>1. RequestsAreOwn' /\ VotesComeFrom("nobody")
    BY VotesStay
  <1> QED BY <1>1, InvariantHolds

\* A new connection starts with a greeting, nothing else.
LEMMA ConnectStep ==
  ASSUME ElectionInv, NEW p \in Proposers, NEW s \in Safekeepers, Connect(p, s)
  PROVE  ElectionInv'
PROOF
  <1> DEFINE c == [Closed EXCEPT !.open = TRUE]
  <1>1. TypeOK
    BY DEF ElectionInv
  <1>2. TypeOK' /\ TermsGrow /\ ConnOK /\ ToWpOK /\ WalProposerOK
    BY <1>1, ConnectType, EventsKeepTerms, Parts
  <1>3. /\ conn' = [conn EXCEPT !["live"][p][s] = c]
        /\ toWp' = [toWp EXCEPT ![p][s] = <<GreetingReply(s)>>]
        /\ sks' = [sks EXCEPT ![p][s].state = "HANDSHAKE_RECV"]
        /\ UNCHANGED wp /\ UNCHANGED won
    BY DEF Connect, StartConnection, history
  <1>4. "live" \in Kinds /\ c.queue = <<>> /\ ~Given(GreetingReply(s))
    BY DEF Kinds, Closed, Given, GreetingReply
  <1> HIDE DEF c
  <1>5. NoNewMessages
    <2>1. ASSUME NEW q \in Proposers, NEW x \in Safekeepers
          PROVE  conn'["live"][q][x] = c \/ conn'["live"][q][x] = conn["live"][q][x]
      BY <1>2, <1>3, <1>4 DEF ConnOK
    <2> QED BY <1>4, <2>1, SmallQueues DEF NoNewMessages
  <1>6. NoNewVotes
    <2>1. ASSUME NEW q \in Proposers, NEW x \in Safekeepers
          PROVE  toWp'[q][x] = <<GreetingReply(s)>> \/ toWp'[q][x] = toWp[q][x]
      BY <1>2, <1>3 DEF ToWpOK
    <2>2. ToSet(<<GreetingReply(s)>>) = {GreetingReply(s)}
      BY SmallQueues
    <2> QED BY <1>4, <2>1, <2>2 DEF NoNewVotes
  <1>7. ASSUME NEW q \in Proposers PROVE Stays(q)
    <2>1. ASSUME NEW x \in Safekeepers
          PROVE  sks'[q][x].state = sks[q][x].state \/ sks'[q][x].state = "HANDSHAKE_RECV"
      BY <1>2, <1>3 DEF WalProposerOK, WalProposerTypeOK, SafekeeperRecords
    <2>2. wp'[q] = wp[q]
      BY <1>3
    <2> QED BY <2>1, <2>2, IdleStays
  <1> QED BY <1>2, <1>3, <1>5, <1>6, <1>7, OldRequests, ProposerQuietStep

\* A greeting: the term changes only before any vote is requested.
LEMMA GreetingStep ==
  ASSUME ElectionInv, NEW p \in Proposers, NEW s \in Safekeepers, ReceiveGreeting(p, s)
  PROVE  ElectionInv'
PROOF
  <1> DEFINE m == Answer(p, s)
             collecting == wp[p].state = "COLLECTING_TERMS"
  <1>1. TypeOK
    BY DEF ElectionInv
  <1>2. TypeOK' /\ SafekeeperTypeOK /\ ConnOK /\ ToWpOK /\ WalProposerOK /\ WalProposerOK'
    BY <1>1, ReceiveGreetingType, Parts, PartsNext
  <1>3. /\ RecvAcceptorGreeting(p, s, m) /\ Answered(p, s) /\ toWp[p][s] # <<>>
        /\ UNCHANGED cf /\ UNCHANGED won
    BY DEF ReceiveGreeting, FirstAnswer, skVars, history
  <1>4. OwnRequests /\ NoNewVotes
    BY <1>2, <1>3, AnsweredRequests
  <1>5. ~collecting => wp'[p].term = wp[p].term /\ wp'[p].state = wp[p].state
    BY <1>2, <1>3 DEF RecvAcceptorGreeting, WalProposerOK, WalProposerTypeOK, ProposerRecords
  <1>6. PICK k : sks' = [sks EXCEPT ![p] = k]
    BY <1>3 DEF RecvAcceptorGreeting
  <1>7. ASSUME NEW x \in Safekeepers
        PROVE  \/ sks'[p][x].state \in {"WAIT_VOTING", "WAIT_VERDICT"}
               \/ sks'[p][x].state = sks[p][x].state
    BY <1>2, <1>3 DEF RecvAcceptorGreeting, WalProposerOK, WalProposerTypeOK, SafekeeperRecords
  <1>8. Stays(p)
    <2>1. Campaigning(wp[p]) => wp'[p].term = wp[p].term /\ Campaigning(wp'[p])
      BY <1>5 DEF Campaigning
    <2>2. \A x \in Safekeepers : sks'[p][x].state = "WAIT_ELECTED" => HasVote(p, x)
      BY <1>7 DEF HasVote
    <2> QED BY <2>1, <2>2 DEF Stays
  <1>9. ASSUME NEW q \in Proposers, q # p PROVE Stays(q)
    <2>1. wp'[q] = wp[q]
      BY <1>2, <1>3, <1>9 DEF RecvAcceptorGreeting, WalProposerOK, WalProposerTypeOK
    <2>2. sks'[q] = sks[q]
      BY <1>2, <1>6, <1>9 DEF WalProposerOK, WalProposerTypeOK
    <2> QED BY <2>1, <2>2, IdleStays
  <1>10. \A q \in Proposers : Stays(q)
    BY <1>8, <1>9
  <1> QED BY <1>2, <1>3, <1>4, <1>10, NoTermChanges, ProposerQuietStep

\* A vote that is counted was on the way before.
LEMMA VoteStep ==
  ASSUME ElectionInv, NEW p \in Proposers, NEW s \in Safekeepers, ReceiveVote(p, s)
  PROVE  ElectionInv'
PROOF
  <1> DEFINE m == Answer(p, s)
  <1>1. TypeOK
    BY DEF ElectionInv
  <1>2. TypeOK' /\ SafekeeperTypeOK /\ ConnOK /\ ToWpOK /\ WalProposerOK /\ WalProposerOK'
    BY <1>1, ReceiveGreetingType, Parts, PartsNext
  <1>3. /\ CountVote(p, s, m) \/ JoinElected(p, s, m)
        /\ Answered(p, s) /\ toWp[p][s] # <<>> /\ m.type = "Vote"
        /\ UNCHANGED cf /\ UNCHANGED won /\ UNCHANGED wp
    BY DEF ReceiveVote, FirstAnswer, Answer, CountVote, JoinElected, skVars, history
  <1>4. OwnRequests /\ NoNewVotes
    BY <1>2, <1>3, AnsweredRequests
  <1>5. m \in ToSet(toWp[p][s])
    BY <1>2, <1>3, AnswerQueueFacts, QueueElements DEF Answer
  <1>6. CASE CountVote(p, s, m)
    <2>1. Given(m)
      BY <1>3, <1>6 DEF CountVote, VoteFatal, Given
    <2>2. HasVote(p, s)
      BY <1>5, <2>1 DEF HasVote
    <2> HIDE DEF m
    <2>3. ASSUME NEW q \in Proposers, NEW x \in Safekeepers
          PROVE  sks'[q][x].state = sks[q][x].state \/ (q = p /\ x = s)
      BY <1>2, <1>6 DEF CountVote, WalProposerOK, WalProposerTypeOK
    <2>4. ASSUME NEW q \in Proposers PROVE Stays(q)
      BY <1>3, <2>2, <2>3 DEF Stays, HasVote
    <2> QED BY <1>2, <1>3, <1>4, <2>4, NoTermChanges, ProposerQuietStep
  <1>7. CASE JoinElected(p, s, m)
    <2> DEFINE n == Streaming(wp[p], sks[p][s], VoteOf(m))
    <2>1. n.state = "ACTIVE"
      BY <1>2 DEF Streaming, WalProposerOK, WalProposerTypeOK, SafekeeperRecords
    <2>2. sks' = [sks EXCEPT ![p][s] = n]
      BY <1>7 DEF JoinElected
    <2> HIDE DEF n, m
    <2>3. ASSUME NEW q \in Proposers, NEW x \in Safekeepers
          PROVE  sks'[q][x].state = sks[q][x].state \/ sks'[q][x].state = "ACTIVE"
      BY <1>2, <2>1, <2>2 DEF WalProposerOK, WalProposerTypeOK
    <2>4. ASSUME NEW q \in Proposers PROVE Stays(q)
      BY <1>3, <2>3, IdleStays
    <2> QED BY <1>2, <1>3, <1>4, <2>4, NoTermChanges, ProposerQuietStep
  <1> QED BY <1>3, <1>6, <1>7

\* Acknowledgements change neither the term nor the votes.
LEMMA AppendResponseStep ==
  ASSUME ElectionInv, NEW p \in Proposers, NEW s \in Safekeepers, ReceiveAppendResponse(p, s)
  PROVE  ElectionInv'
PROOF
  <1> DEFINE m == Answer(p, s)
             w == Acknowledged(p, s, m)
             last == LastBroadcast(p, s, m)
  <1>1. TypeOK
    BY DEF ElectionInv
  <1>2. TypeOK' /\ SafekeeperTypeOK /\ ConnOK /\ ToWpOK /\ WalProposerOK /\ WalProposerOK'
    BY <1>1, ReceiveAppendResponseType, Parts, PartsNext
  <1>3. /\ RecvAppendResponse(p, s, m) /\ toWp[p][s] # <<>>
        /\ IF wp'[p].state = "ELECTED" THEN Answered(p, s) ELSE GiveUp(p, Safekeepers, last)
        /\ UNCHANGED cf /\ UNCHANGED won
    BY DEF ReceiveAppendResponse, FirstAnswer, skVars
  <1>4. CASE Exit(p, "SYNCED", wp[p].start)
    <2>1. wp'[p].state = "SYNCED"
      <3>1. wp'[p] = Exited("SYNCED", wp[p].start)
        BY <1>2, <1>4, OthersStay DEF Exit
      <3> QED BY <3>1 DEF Exited, NewProposer
    <2>2. GiveUp(p, Safekeepers, last)
      BY <1>3, <2>1
    <2> HIDE DEF last
    <2>3. (\A q \in Proposers : Stays(q)) /\ OwnRequests /\ NoNewVotes
      BY <1>2, <1>4, <2>2, ExitStays
    <2> QED BY <1>2, <1>3, <2>3, NoTermChanges, ProposerQuietStep
  <1>5. CASE /\ wp' = [wp EXCEPT ![p] = w]
             /\ sks' = [sks EXCEPT ![p][s].flush = m.flush, ![p][s].commit = m.commit]
    <2>1. sks[p][s].state = "ACTIVE"
      BY <1>3 DEF RecvAppendResponse
    <2>2. wp[p].state = "ELECTED" /\ wp[p].gen \in DOMAIN Conf
      BY <1>2, <2>1, ActiveFacts
    <2>3. m.flush \in OptLsns
      BY <1>2, AnswerType, AnswerFacts DEF ReceiveAppendResponse
    <2>4. w.state = wp[p].state /\ w.term = wp[p].term
      BY <1>2, <2>2, <2>3, AcknowledgedType
    <2> HIDE DEF w
    <2>5. wp'[p] = w /\ \A q \in Proposers : q # p => wp'[q] = wp[q]
      BY <1>2, <1>5 DEF WalProposerOK, WalProposerTypeOK
    <2>6. OwnRequests /\ NoNewVotes
      BY <1>2, <1>3, <2>2, <2>4, <2>5, AnsweredRequests
    <2>7. ASSUME NEW q \in Proposers, NEW x \in Safekeepers
          PROVE  sks'[q][x].state = sks[q][x].state
      BY <1>2, <1>5 DEF WalProposerOK, WalProposerTypeOK, SafekeeperRecords
    <2>8. ASSUME NEW q \in Proposers PROVE Stays(q)
      <3>1. Campaigning(wp[q]) => wp'[q].term = wp[q].term /\ Campaigning(wp'[q])
        BY <2>4, <2>5 DEF Campaigning
      <3> QED BY <2>7, <3>1 DEF Stays, HasVote
    <2> QED BY <1>2, <1>3, <2>6, <2>8, NoTermChanges, ProposerQuietStep
  <1> QED BY <1>3, <1>4, <1>5 DEF RecvAppendResponse

\* Sending and writing WAL.
LEMMA StreamStep ==
  ASSUME ElectionInv, NEW p \in Proposers,
         NewWal(p) \/ \E s \in Safekeepers : SendAppend(p, s)
  PROVE  ElectionInv'
PROOF
  <1>1. TypeOK
    BY DEF ElectionInv
  <1>2. TypeOK' /\ SafekeeperTypeOK /\ ConnOK /\ ToWpOK /\ WalProposerOK
    BY <1>1, NewWalType, SendAppendType, Parts
  <1>3. UNCHANGED cf /\ UNCHANGED won /\ UNCHANGED toWp
    BY DEF NewWal, SendAppend, skVars, netVars, history
  <1>4. CASE NewWal(p)
    <2>1. UNCHANGED conn /\ UNCHANGED sks
      BY <1>4 DEF NewWal, GenerateWal, netVars
    <2>2. ASSUME NEW q \in Proposers
          PROVE  wp'[q].term = wp[q].term /\ wp'[q].state = wp[q].state
      BY <1>2, <1>4 DEF NewWal, GenerateWal, WalProposerOK, WalProposerTypeOK, ProposerRecords
    <2>3. ASSUME NEW q \in Proposers PROVE Stays(q)
      BY <2>1, <2>2 DEF Stays, HasVote, Campaigning
    <2> QED BY <1>2, <1>3, <2>1, <2>3, NothingNew, OldRequests, NoTermChanges, ProposerQuietStep
  <1>5. ASSUME NEW s \in Safekeepers, SendAppend(p, s) PROVE ElectionInv'
    <2>1. PICK donor \in Safekeepers :
            /\ SendAppendRequest(p, s, donor)
            /\ conn' = [conn EXCEPT !["live"][p][s] = Sent(@, <<AppendRequest(p, s, donor)>>)]
      BY <1>5 DEF SendAppend
    <2> DEFINE a == AppendRequest(p, s, donor)
               c == conn["live"][p][s]
               n == Sent(c, <<a>>)
    <2>2. "live" \in Kinds /\ conn' = [conn EXCEPT !["live"][p][s] = n]
      BY <2>1 DEF Kinds
    <2>3. a.type = "AppendRequest"
      BY DEF AppendRequest
    <2> HIDE DEF a
    <2>4. \A e \in ToSet(n.queue) : e \in ToSet(c.queue) \/ e = a
      <3>1. c \in Connections /\ c.queue \in Seq(ToSafekeeper)
        BY <1>2, <2>2, ConnectionFacts
      <3>2. n.queue = c.queue \/ n.queue = c.queue \o <<a>>
        BY <3>1 DEF Sent, Connections
      <3>3. c.queue \in Seq(ToSafekeeper \cup {a}) /\ <<a>> \in Seq(ToSafekeeper \cup {a})
        BY <3>1, EmptySeq, AddLast
      <3>4. ToSet(c.queue \o <<a>>) = ToSet(c.queue) \cup {a}
        <4> DEFINE q == c.queue
                   r == <<a>>
        <4>1. ToSet(r) = {a} /\ q \in Seq(ToSafekeeper \cup {a}) /\ r \in Seq(ToSafekeeper \cup {a})
          BY <3>3, SmallQueues
        <4> HIDE DEF q, r
        <4>2. ToSet(q \o r) = ToSet(q) \cup ToSet(r)
          BY <4>1, QueueElements
        <4>3. ToSet(q \o r) = ToSet(q) \cup {a}
          BY <4>1, <4>2
        <4> QED BY <4>3 DEF q, r
      <3> QED BY <3>2, <3>4
    <2> HIDE DEF n
    <2>5. OwnRequests
      <3>1. ASSUME NEW q \in Proposers, NEW x \in Safekeepers
            PROVE  conn'["live"][q][x] = conn["live"][q][x]
                   \/ (q = p /\ x = s /\ conn'["live"][q][x] = n)
        BY <1>2, <2>2 DEF ConnOK
      <3> QED BY <2>3, <2>4, <3>1 DEF OwnRequests
    <2>6. UNCHANGED wp
      BY <2>1 DEF SendAppendRequest
    <2>7. ASSUME NEW q \in Proposers, NEW x \in Safekeepers
          PROVE  sks'[q][x].state = sks[q][x].state
      BY <1>2, <2>1 DEF SendAppendRequest, WalProposerOK, WalProposerTypeOK, SafekeeperRecords
    <2>8. ASSUME NEW q \in Proposers PROVE Stays(q)
      BY <2>6, <2>7, IdleStays
    <2> QED BY <1>2, <1>3, <2>5, <2>8, NothingNew, NoTermChanges, ProposerQuietStep
  <1> QED BY <1>4, <1>5

\* Giving up one connection or all of them loses votes, and no more.
LEMMA GiveUpStep ==
  ASSUME ElectionInv, NEW p \in Proposers,
         \/ Kill(p)
         \/ \E s \in Safekeepers : Fatal(p, s) \/ Disconnect(p, s)
  PROVE  ElectionInv'
PROOF
  <1>1. TypeOK
    BY DEF ElectionInv
  <1>2. TypeOK' /\ SafekeeperTypeOK /\ ConnOK /\ ToWpOK /\ WalProposerOK
    BY <1>1, GivesUpType, Parts
  <1>3. UNCHANGED cf /\ UNCHANGED won
    BY DEF Kill, Fatal, Disconnect, skVars, history
  <1>4. CASE Die(p) /\ GiveUp(p, Safekeepers, NoLast)
    <2>1. (\A q \in Proposers : Stays(q)) /\ OwnRequests /\ NoNewVotes
      BY <1>2, <1>4, ExitStays DEF Die
    <2> QED BY <1>2, <1>3, <2>1, NoTermChanges, ProposerQuietStep
  <1>5. ASSUME NEW s \in Safekeepers, Disconnect(p, s) PROVE ElectionInv'
    <2> DEFINE n == [Offline EXCEPT !.flush = sks[p][s].flush, !.commit = sks[p][s].commit]
    <2>1. UNCHANGED wp /\ sks' = [sks EXCEPT ![p][s] = n] /\ GiveUp(p, {s}, NoLast)
      BY <1>5 DEF Disconnect, ShutdownConnection
    <2>2. n.state = "OFFLINE"
      BY DEF Offline
    <2> HIDE DEF n
    <2>3. ASSUME NEW q \in Proposers, NEW x \in Safekeepers
          PROVE  sks'[q][x].state = sks[q][x].state \/ sks'[q][x].state = "OFFLINE"
      BY <1>2, <2>1, <2>2 DEF WalProposerOK, WalProposerTypeOK
    <2>4. ASSUME NEW q \in Proposers PROVE Stays(q)
      BY <2>1, <2>3, IdleStays
    <2>5. NoNewMessages /\ NoNewVotes
      BY <1>2, <2>1, GiveUpQueues
    <2> QED BY <1>2, <1>3, <2>4, <2>5, OldRequests, NoTermChanges, ProposerQuietStep
  <1> QED BY <1>4, <1>5 DEF Kill, Fatal

\* The vote that wins: the quorum it completes has no vote in this term for anybody
\* else, and meets the quorum of every other winner.
LEMMA BecomeElectedStep ==
  ASSUME QuorumsIntersect, ElectionInv, NEW p \in Proposers, NEW s \in Safekeepers,
         BecomeElected(p, s)
  PROVE  ElectionInv'
PROOF
  <1> DEFINE m == Answer(p, s)
             V == Voters(p, s)
             t == wp[p].term
             new == <<p, t>>
  <1>1. TypeOK /\ VotesArePersisted /\ VotesAreUnique /\ WonByQuorum /\ ElectionSafety
    BY DEF ElectionInv
  <1>2. /\ TypeOK' /\ SafekeeperTypeOK /\ ConnOK /\ ToWpOK /\ WalProposerOK /\ WalProposerOK'
        /\ t \in Terms
    BY <1>1, BecomeElectedType, Parts, PartsNext, OneRecord, ProposerFacts
  <1>3. PICK donor \in Safekeepers : WinElection(p, s, m, donor)
    BY DEF BecomeElected
  <1>4. /\ toWp[p][s] # <<>> /\ m.type = "Vote"
        /\ IF wp'[p].state = "ELECTED" THEN Answered(p, s) ELSE GiveUp(p, Safekeepers, NoLast)
        /\ UNCHANGED cf /\ won' = won \cup {new}
    BY DEF BecomeElected, FirstAnswer, Answer, skVars
  <1>5. /\ m.flush \in Lsns /\ m.truncate \in Lsns /\ m.hist \in Seq(TermSwitches)
    BY <1>2, AnswerType, AnswerFacts DEF BecomeElected
  <1>6. wp[p].state = "CAMPAIGN" /\ HasQuorum(wp[p].gen, V) /\ donor \in V /\ ~VoteFatal(p, m)
    BY <1>3 DEF WinElection
  <1>7. wp[p].gen \in DOMAIN Conf /\ V \in SUBSET Safekeepers
    <2>1. V \in SUBSET Safekeepers
      BY <1>2, <1>5, <1>6, VotersFacts
    <2>2. wp[p].gen \in {0} \cup DOMAIN Conf /\ wp[p].gen # 0
      BY <1>2, <1>6, OneRecord, ProposerFacts DEF ProposerPhase
    <2> QED BY <2>1, <2>2
  <1>8. \A x \in V : HasVote(p, x)
    <2>1. m \in ToSet(toWp[p][s])
      BY <1>2, <1>4, AnswerQueueFacts, QueueElements DEF Answer
    <2>2. Given(m)
      BY <1>4, <1>6 DEF VoteFatal, Given
    <2> HIDE DEF m
    <2>3. HasVote(p, s)
      BY <2>1, <2>2 DEF HasVote
    <2> QED BY <2>3 DEF Voters, HasVote
  <1>9. (\A q \in Proposers : Stays(q)) /\ OwnRequests /\ NoNewVotes
    <2> DEFINE w == ElectedProposer(p, s, m, donor)
               k == [x \in Safekeepers |->
                       IF x = s \/ sks[p][x].state = "WAIT_ELECTED"
                       THEN Streaming(w, sks[p][x], VoteWith(p, s, m, x))
                       ELSE sks[p][x]]
    <2>1. CASE Exit(p, "SYNCED", w.start)
      <3>1. wp'[p] = Exited("SYNCED", w.start)
        BY <1>2, <2>1, OthersStay DEF Exit
      <3>2. wp'[p].state = "SYNCED"
        BY <3>1 DEF Exited, NewProposer
      <3>3. GiveUp(p, Safekeepers, NoLast)
        BY <1>4, <3>2
      <3> HIDE DEF w
      <3> QED BY <1>2, <2>1, <3>3, ExitStays
    <2>2. CASE wp' = [wp EXCEPT ![p] = w] /\ sks' = [sks EXCEPT ![p] = k]
      <3>1. w.state = "ELECTED" /\ w.term = wp[p].term
        BY <1>2, <1>5, <1>6, ElectedProposerType
      <3>2. ASSUME NEW x \in Safekeepers PROVE k[x].state # "WAIT_ELECTED"
        <4>1. sks[p][x] \in SafekeeperRecords
          BY <1>2, OneRecord
        <4>2. Streaming(w, sks[p][x], VoteWith(p, s, m, x)).state = "ACTIVE"
          BY <4>1 DEF Streaming, SafekeeperRecords
        <4> HIDE DEF w
        <4> QED BY <4>2
      <3> HIDE DEF w, k
      <3>3. wp'[p] = w /\ sks'[p] = k /\ \A q \in Proposers : q # p => Stays(q)
        BY <1>2, <2>2, OthersStay, ZenonT(60)
      <3>4. OwnRequests /\ NoNewVotes
        BY <1>2, <1>4, <3>1, <3>3, AnsweredRequests
      <3>5. Stays(p)
        BY <3>1, <3>2, <3>3 DEF Stays, Campaigning
      <3> QED BY <3>3, <3>4, <3>5
    <2> QED BY <1>3, <2>1, <2>2 DEF WinElection
  <1> HIDE DEF V, m
  <1>10. RequestsAreOwn' /\ VotesComeFrom("nobody") /\ TermsGrow
    BY <1>2, <1>4, <1>9, VotesStay, NoTermChanges
  <1>11. /\ VotesArePersisted' /\ VotesAreUnique'
         /\ \A e \in Proposers \X Terms, x \in Safekeepers : Decided(e, x) => Decided(e, x)'
    BY <1>2, <1>10, PromisesHold
  <1>12. new \in Proposers \X Terms /\ new[1] = p /\ new[2] = t
    BY <1>2
  <1>13. \A x \in V : Decided(new, x)
    BY <1>1, <1>7, <1>8, <1>12 DEF Decided, VotesArePersisted, VotesAreUnique
  <1>14. WonByQuorum'
    <2>1. ASSUME NEW e \in won'
          PROVE  \E g \in DOMAIN Conf, Q \in SUBSET Safekeepers :
                   HasQuorum(g, Q) /\ \A x \in Q : Decided(e, x)'
      <3>1. CASE e = new
        <4>1. \A x \in V : Decided(e, x)
          BY <1>13, <3>1
        <4>2. e \in Proposers \X Terms
          BY <1>12, <3>1
        <4>3. \A x \in V : Decided(e, x)'
          BY <1>7, <1>11, <4>1, <4>2
        <4> QED BY <1>6, <1>7, <4>3
      <3>2. CASE e \in won
        <4>1. PICK g \in DOMAIN Conf, Q \in SUBSET Safekeepers :
                     HasQuorum(g, Q) /\ \A x \in Q : Decided(e, x)
          BY <1>1, <3>2 DEF WonByQuorum
        <4>2. e \in Proposers \X Terms
          BY <1>1, <3>2, TermTypes
        <4>3. \A x \in Q : Decided(e, x)'
          BY <1>11, <4>1, <4>2
        <4> QED BY <4>1, <4>3
      <3> QED BY <1>4, <2>1, <3>1, <3>2
    <2> QED BY <2>1 DEF WonByQuorum
  <1>15. ASSUME NEW e \in won, e[2] = t PROVE e = new
    <2>1. PICK g \in DOMAIN Conf, Q \in SUBSET Safekeepers :
                 HasQuorum(g, Q) /\ \A x \in Q : Decided(e, x)
      BY <1>1 DEF WonByQuorum
    <2>2. Q \cap V # {}
      BY <1>6, <1>7, <2>1 DEF QuorumsIntersect
    <2>3. PICK x \in Q : x \in V
      BY <2>2
    <2>4. p = e[1]
      BY <1>8, <1>15, <2>1, <2>3 DEF Decided
    <2>5. e \in Proposers \X Terms
      BY <1>1, TermTypes
    <2> QED BY <1>15, <2>4, <2>5
  <1>16. ElectionSafety'
    <2> SUFFICES ASSUME NEW d \in won', NEW e \in won', d[2] = e[2]
                 PROVE  d = e
      BY DEF ElectionSafety
    <2>1. (d \in won \/ d = new) /\ (e \in won \/ e = new)
      BY <1>4
    <2>2. CASE d \in won /\ e \in won
      BY <1>1, <2>2 DEF ElectionSafety
    <2> HIDE DEF new
    <2>3. CASE d = new \/ e = new
      BY <1>12, <1>15, <2>1, <2>3
    <2> QED BY <2>1, <2>2, <2>3
  <1> QED BY <1>2, <1>10, <1>11, <1>14, <1>16 DEF ElectionInv

-----------------------------------------------------------------------------

\* Nobody has voted, and nobody has won.
LEMMA ElectionInit == Init => ElectionInv
PROOF
  <1> SUFFICES ASSUME Init PROVE ElectionInv
    OBVIOUS
  <1>1. /\ \A p \in Proposers, s \in Safekeepers :
             conn["live"][p][s] = Closed /\ toWp[p][s] = <<>> /\ sks[p][s] = Offline
        /\ won = {}
    BY DEF Init, WalProposerInit, Kinds
  <1>2. Closed.queue = <<>> /\ Offline.state = "OFFLINE"
    BY DEF Closed, Offline
  <1>3. \A p \in Proposers, s \in Safekeepers : ~HasVote(p, s)
    BY <1>1, <1>2, SmallQueues DEF HasVote
  <1>4. RequestsAreOwn
    BY <1>1, <1>2, SmallQueues DEF RequestsAreOwn
  <1>5. VotesArePersisted /\ VotesAreUnique
    BY <1>3 DEF VotesArePersisted, VotesAreUnique
  <1>6. WonByQuorum /\ ElectionSafety
    BY <1>1 DEF WonByQuorum, ElectionSafety
  <1> QED BY <1>4, <1>5, <1>6, InitTypeOK DEF ElectionInv

\* Every step keeps the invariant.
LEMMA ElectionNext ==
  ASSUME QuorumsIntersect, ElectionInv, [Next]_vars
  PROVE  ElectionInv'
PROOF
  <1>1. ASSUME NEW s \in Safekeepers, SafekeeperStep(s) \/ PersistState(s) \/ Publish(s)
        PROVE  ElectionInv'
    BY <1>1, VoteRequestStep, OtherMessageStep, EventStep DEF SafekeeperStep, ReceiveMessage
  <1>2. ASSUME NEW p \in Proposers, ProposerStep(p)
        PROVE  ElectionInv'
    BY <1>2, ConnectStep, GreetingStep, VoteStep, BecomeElectedStep, AppendResponseStep,
       StreamStep, GiveUpStep DEF ProposerStep, ReceiveAnswer, SendWal, NoticeClosed
  <1>3. ASSUME NEW p \in Proposers, NEW s \in Safekeepers, Heartbeat(p, s)
        PROVE  ElectionInv'
    BY <1>3, StreamStep DEF Heartbeat
  <1>4. CASE Failure
    BY <1>4, EventStep, GiveUpStep, LoseStaleStep DEF Failure
  <1>5. CASE UNCHANGED vars
    <2>1. TypeOK /\ TypeOK'
      BY <1>5, NextTypeOK DEF ElectionInv
    <2>2. /\ UNCHANGED cf /\ UNCHANGED wpVars /\ UNCHANGED won /\ UNCHANGED conn
          /\ UNCHANGED toWp
      BY <1>5 DEF vars, skVars, netVars, history
    <2> QED BY <2>1, <2>2, Parts, NoTermChanges, NothingNew, QuietStep
  <1> QED BY <1>1, <1>2, <1>3, <1>4, <1>5 DEF Next

\* At most one walproposer wins a term: handle_vote_request has persisted the term
\* before the vote leaves, so that it is not given again after a crash, on another
\* connection, or to another walproposer; VotesCollected and the quorum rule of
\* safekeepers_cmp do the rest.
THEOREM OneWinnerPerTerm == QuorumsIntersect => (Spec => []ElectionSafety)
PROOF
  <1> SUFFICES ASSUME QuorumsIntersect PROVE Spec => []ElectionSafety
    OBVIOUS
  <1>1. Init => ElectionInv
    BY ElectionInit
  <1>2. ElectionInv /\ [Next]_vars => ElectionInv'
    BY ElectionNext
  <1>3. ElectionInv => ElectionSafety
    BY DEF ElectionInv
  <1> QED BY <1>1, <1>2, <1>3, PTL DEF Spec

-----------------------------------------------------------------------------
(* Which configurations have quorums that intersect *)

MemberSets(g) == {Conf[g].members, Conf[g].newMembers} \ {{}}

\* Any two generations have a member set in common: there is one generation only; or
\* a joint one follows or precedes the one it shares members with.
ShareMembers == \A g, h \in DOMAIN Conf : MemberSets(g) \cap MemberSets(h) # {}

\* Two majorities of one set.
LEMMA MajoritiesIntersect ==
  ASSUME NEW S, IsFiniteSet(S), NEW Q, NEW R, MsetHasQuorum(S, Q), MsetHasQuorum(S, R)
  PROVE  Q \cap R # {}
PROOF
  <1> SUFFICES ASSUME Q \cap R = {} PROVE FALSE
    OBVIOUS
  <1> DEFINE A == S \cap Q
             B == S \cap R
             n == Cardinality(S)
             a == Cardinality(A)
             b == Cardinality(B)
  <1>1. A \cap B = {} /\ A \in SUBSET S /\ B \in SUBSET S /\ A \cup B \in SUBSET S
    OBVIOUS
  <1>2. IsFiniteSet(A) /\ IsFiniteSet(B) /\ IsFiniteSet(A \cup B)
    BY <1>1, FS_Subset
  <1>3. n \in Nat /\ a \in Nat /\ b \in Nat
    BY <1>2, FS_CardinalityType
  <1>4. Cardinality(A \cup B) <= n
    BY <1>1, FS_Subset
  <1>5. Cardinality(A \cup B) = a + b - Cardinality(A \cap B) /\ Cardinality(A \cap B) = 0
    BY <1>1, <1>2, FS_Union, FS_EmptySet
  <1>6. a >= (n \div 2) + 1 /\ b >= (n \div 2) + 1
    BY DEF MsetHasQuorum
  <1> HIDE DEF A, B, n, a, b
  <1>7. a + b <= n
    BY <1>3, <1>4, <1>5
  <1> QED BY <1>3, <1>6, <1>7

\* The quorums of two generations that share a member set.
LEMMA QuorumsOfSharedMembers == ShareMembers => QuorumsIntersect
PROOF
  <1> SUFFICES ASSUME ShareMembers, NEW g \in DOMAIN Conf, NEW h \in DOMAIN Conf,
                      NEW Q, NEW R, HasQuorum(g, Q), HasQuorum(h, R)
               PROVE  Q \cap R # {}
    BY DEF QuorumsIntersect
  <1>1. PICK S : S \in MemberSets(g) /\ S \in MemberSets(h)
    BY DEF ShareMembers
  <1>2. S \in SUBSET Safekeepers
    BY <1>1, ConfAssumption DEF MemberSets
  <1>3. IsFiniteSet(S)
    BY <1>2, SafekeepersAssumption, FS_Subset
  <1>4. MsetHasQuorum(S, Q) /\ MsetHasQuorum(S, R)
    BY <1>1 DEF MemberSets, HasQuorum
  <1> QED BY <1>3, <1>4, MajoritiesIntersect

\* Election safety in one membership configuration, or across the switch from a
\* configuration to the joint one, or from the joint one to the next.
THEOREM OneWinnerAcrossJointSwitch == ShareMembers => (Spec => []ElectionSafety)
BY QuorumsOfSharedMembers, OneWinnerPerTerm

=============================================================================
