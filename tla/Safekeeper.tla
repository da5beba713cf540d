----------------------------- MODULE Safekeeper -----------------------------
(***************************************************************************)
(* The acceptor side of WAL consensus: the state of one timeline on each   *)
(* safekeeper and what each message, each local event and a crash do to it.*)
(*                                                                         *)
(* WAL is a sequence of terms: wal[s][i] is the term of the walproposer    *)
(* that wrote the unit at LSN StartLsn + i - 1.  Between StartLsn and      *)
(* flushLsn[s] it is on disk; what was written after flushLsn[s] may or    *)
(* may not survive a crash.  The control file cf[s] is replaced atomically *)
(* (write, fsync, rename); inmem[s] holds newer values of two of its       *)
(* fields.                                                                 *)
(*                                                                         *)
(* Message handlers run under the exclusive lock of the timeline, so each  *)
(* is one action; the places where a crash would leave a handler half done *)
(* are actions of their own.                                               *)
(***************************************************************************)
EXTENDS TermHistory

CONSTANTS Safekeepers,
          StartLsn,      \* where the timeline starts; not Lsn(0), which means "none"
          SegmentEnds,   \* LSNs at which a WAL segment ends
          Conf,          \* Conf[g]: membership configuration of generation g
          MaxTerm,       \* bound on terms
          MaxLsn         \* bound on the end of WAL

ASSUME SafekeepersAssumption == IsFiniteSet(Safekeepers)
ASSUME LsnAssumption ==
  /\ StartLsn \in Nat \ {0}
  /\ MaxLsn \in Nat /\ StartLsn <= MaxLsn
  /\ SegmentEnds \subseteq Nat
ASSUME MaxTermAssumption == MaxTerm \in Nat
ASSUME ConfAssumption ==
  /\ 1 \in DOMAIN Conf
  /\ DOMAIN Conf \subseteq Nat \ {0}
  /\ \A g \in DOMAIN Conf : /\ Conf[g].members \subseteq Safekeepers
                            /\ Conf[g].members # {}
                            /\ Conf[g].newMembers \subseteq Safekeepers

VARIABLES cf,         \* control file: term, hist, commit, horizon, gen
          inmem,      \* in-memory commit_lsn and peer_horizon_lsn
          wal,        \* WAL written so far
          flushLsn,   \* end of the WAL that is known to be on disk
          termStart   \* term_start_lsn, a cache; 0 after start

skVars == <<cf, inmem, wal, flushLsn, termStart>>

Members(g) == Conf[g].members \cup Conf[g].newMembers

WriteLsn(s) == StartLsn + Len(wal[s])

Terms == 0..MaxTerm
Lsns == StartLsn..MaxLsn
OptLsns == {0} \cup Lsns     \* 0 is Lsn::INVALID
TermSwitches == [term : Terms, lsn : Lsns]
ControlFiles ==
  [term : Terms, hist : Seq(TermSwitches), commit : Lsns, horizon : Lsns, gen : DOMAIN Conf]

SafekeeperTypeOK ==
  /\ cf \in [Safekeepers -> ControlFiles]
  /\ inmem \in [Safekeepers -> [commit : Lsns, horizon : Lsns]]
  /\ wal \in [Safekeepers -> Seq(Terms)]
  /\ flushLsn \in [Safekeepers -> Lsns]
  /\ termStart \in [Safekeepers -> OptLsns]
  /\ \A s \in Safekeepers : flushLsn[s] <= WriteLsn(s) /\ WriteLsn(s) <= MaxLsn

\* A timeline the storage controller created with a start LSN on every member.
SafekeeperInit ==
  /\ cf = [s \in Safekeepers |->
             [term |-> 0, hist |-> <<[term |-> 0, lsn |-> StartLsn]>>,
              commit |-> StartLsn, horizon |-> StartLsn, gen |-> 1]]
  /\ inmem = [s \in Safekeepers |-> [commit |-> StartLsn, horizon |-> StartLsn]]
  /\ wal = [s \in Safekeepers |-> <<>>]
  /\ flushLsn = [s \in Safekeepers |-> StartLsn]
  /\ termStart = [s \in Safekeepers |-> 0]

-----------------------------------------------------------------------------
(* Persistent state *)

\* TimelineState::start_change: the control file with in-memory values applied.
StartChange(s) ==
  [cf[s] EXCEPT !.commit = inmem[s].commit, !.horizon = inmem[s].horizon]

\* Mutant of RaisedTerm: the term is set, not raised.
RaisedTerm_Set(s, t) ==
  IF cf[s].term # t THEN [StartChange(s) EXCEPT !.term = t] ELSE cf[s]

\* The control file with the term raised to t, if it is lower.
RaisedTerm(s, t) ==
  IF cf[s].term < t THEN [StartChange(s) EXCEPT !.term = t] ELSE cf[s]

\* TimelineState::flush, run by the timeline manager from time to time.
SaveControlFile(s) ==
  /\ StartChange(s) # cf[s]
  /\ cf' = [cf EXCEPT ![s] = StartChange(s)]
  /\ UNCHANGED <<inmem, wal, flushLsn, termStart>>

\* Mutant of TermBump: one too far.
TermBump_OneMore(s, to) ==
  /\ to > cf[s].term
  /\ cf' = [cf EXCEPT ![s] = RaisedTerm(s, to + 1)]
  /\ UNCHANGED <<inmem, wal, flushLsn, termStart>>

\* TimelineState::term_bump, an HTTP request.
TermBump(s, to) ==
  /\ to > cf[s].term
  /\ cf' = [cf EXCEPT ![s] = RaisedTerm(s, to)]
  /\ UNCHANGED <<inmem, wal, flushLsn, termStart>>

\* TimelineState::membership_switch: only to a higher generation.
MembershipSwitch(s, gen) ==
  /\ cf' = IF gen <= cf[s].gen THEN cf
           ELSE [cf EXCEPT ![s] = [StartChange(s) EXCEPT !.gen = gen]]
  /\ UNCHANGED <<inmem, wal, flushLsn, termStart>>

-----------------------------------------------------------------------------
(* Greeting and voting *)

\* handle_greeting refuses to join a configuration it is not a member of.
GreetingRefused(s, gen) == gen > cf[s].gen /\ s \notin Members(gen)

HandleGreeting(s, gen) ==
  /\ ~GreetingRefused(s, gen)
  /\ MembershipSwitch(s, gen)

GreetingReply(s) == [type |-> "Greeting", gen |-> cf'[s].gen, term |-> cf'[s].term]

VoteRefused(s, m) == m.gen # cf[s].gen

\* Mutant of HandleVoteRequest: the vote is sent but not persisted.
HandleVoteRequest_NotPersisted(s, m) ==
  /\ ~VoteRefused(s, m)
  /\ flushLsn' = [flushLsn EXCEPT ![s] = WriteLsn(s)]
  /\ UNCHANGED <<cf, inmem, wal, termStart>>

\* handle_vote_request: flush, then persist the vote before it is sent.
HandleVoteRequest(s, m) ==
  /\ ~VoteRefused(s, m)
  /\ flushLsn' = [flushLsn EXCEPT ![s] = WriteLsn(s)]
  /\ cf' = [cf EXCEPT ![s] = RaisedTerm(s, m.term)]
  /\ UNCHANGED <<inmem, wal, termStart>>

\* Mutant of VoteReply: a second vote in the same term.
VoteReply_Twice(s, m) ==
  [type |-> "Vote", gen |-> cf[s].gen, term |-> cf'[s].term,
   given |-> cf[s].term <= m.term,
   flush |-> flushLsn'[s], truncate |-> inmem[s].horizon,
   hist |-> UpTo(cf[s].hist, flushLsn'[s])]

VoteReply(s, m) ==
  [type |-> "Vote", gen |-> cf[s].gen, term |-> cf'[s].term,
   given |-> cf[s].term < m.term,
   flush |-> flushLsn'[s], truncate |-> inmem[s].horizon,
   hist |-> UpTo(cf[s].hist, flushLsn'[s])]

-----------------------------------------------------------------------------
(* ProposerElected *)

\* The LSN handle_elected expects to be told to truncate at.
TruncationPoint(s, m) ==
  ExpectedTruncation(m.hist, UpTo(cf[s].hist, flushLsn[s]), flushLsn[s])

\* Ok(None) without a change: the safekeeper is in a higher term.
ElectedIgnored(s, m) == m.gen = cf[s].gen /\ cf[s].term > m.term

\* Mutant of ElectedExpected: the truncation point is not cross-checked.
ElectedExpected_Unchecked(s, m) == m.gen = cf[s].gen /\ cf[s].term <= m.term

\* Announced in time, for this safekeeper, and with the truncation point it expects.
ElectedExpected(s, m) ==
  /\ m.gen = cf[s].gen
  /\ cf[s].term <= m.term
  /\ TruncationPoint(s, m) = m.start

\* Two conditions more: the assertion that committed WAL is not cut, which panics, and
\* truncate_wal's "called on non-written WAL".
ElectedAccepted(s, m) ==
  /\ ElectedExpected(s, m)
  /\ m.start >= inmem[s].commit
  /\ m.start <= WriteLsn(s)

\* The error paths: the term has been persisted by the time the truncation
\* point is found to be unexpected.  A panic ends the task of the connection.
RefuseElected(s, m) ==
  /\ ~ElectedIgnored(s, m)
  /\ ~ElectedAccepted(s, m)
  /\ cf' = IF m.gen # cf[s].gen THEN cf
           ELSE [cf EXCEPT ![s] = RaisedTerm(s, m.term)]
  /\ UNCHANGED <<inmem, wal, flushLsn, termStart>>

\* Mutant of AdoptElected: WAL is not cut.
AdoptElected_Uncut(s, m) ==
  /\ ElectedAccepted(s, m)
  /\ cf' = [cf EXCEPT ![s] = [StartChange(s) EXCEPT !.term = m.term, !.hist = m.hist]]
  /\ termStart' = [termStart EXCEPT ![s] = Last(m.hist).lsn]
  /\ UNCHANGED <<inmem, wal, flushLsn>>

\* WAL is cut first, the history that describes the new WAL is persisted next.
AdoptElected(s, m) ==
  /\ ElectedAccepted(s, m)
  /\ wal' = [wal EXCEPT ![s] = SubSeq(wal[s], 1, m.start - StartLsn)]
  /\ flushLsn' = [flushLsn EXCEPT ![s] = m.start]
  /\ LET commit == Higher(inmem[s].commit, StartLsn)
     IN  /\ cf' = [cf EXCEPT ![s] = [StartChange(s) EXCEPT !.term = m.term,
                                                          !.commit = commit,
                                                          !.hist = m.hist]]
         /\ inmem' = [inmem EXCEPT ![s].commit = commit]
  /\ termStart' = [termStart EXCEPT ![s] = Last(m.hist).lsn]

-----------------------------------------------------------------------------
(* Appending WAL *)

\* update_commit_lsn: the new commit_lsn, given the end of flushed WAL.
NewCommitLsn(s, candidate, flush) ==
  Lower(Higher(candidate, inmem[s].commit), flush)

\* ... and the control file, written at once when commit_lsn gets to the start
\* of the term: sync-safekeepers waits for that.
FlushedCommit(s, commit) ==
  IF commit >= termStart[s] /\ cf[s].commit < termStart[s]
  THEN [StartChange(s) EXCEPT !.commit = commit]
  ELSE cf[s]

AppendRefused(s, m) ==
  \/ m.gen # cf[s].gen
  \/ cf[s].term < m.term
  \/ cf[s].term = m.term /\ WriteLsn(s) # m.begin

\* The term-only answer that tells an old walproposer to give up.
AppendIgnored(s, m) == m.gen = cf[s].gen /\ cf[s].term > m.term

TermOnlyReply(s) ==
  [type |-> "AppendResponse", gen |-> cf[s].gen, term |-> cf[s].term,
   flush |-> 0, commit |-> 0]

\* Writing past the end of a segment makes all the WAL before it durable.
FlushedBySegments(s, end) ==
  LET ends == {l \in SegmentEnds : flushLsn[s] < l /\ l <= end}
  IN  IF ends = {} THEN flushLsn[s] ELSE Max(ends)

\* handle_append_request with require_flush = false, as WalAcceptor calls it.
HandleAppendRequest(s, m) ==
  /\ ~AppendRefused(s, m)
  /\ ~AppendIgnored(s, m)
  /\ LET flush  == FlushedBySegments(s, m.begin + Len(m.wal))
         commit == IF m.commit = 0 THEN inmem[s].commit
                   ELSE NewCommitLsn(s, m.commit, flush)
     IN  /\ wal' = [wal EXCEPT ![s] = wal[s] \o m.wal]
         /\ flushLsn' = [flushLsn EXCEPT ![s] = flush]
         /\ cf' = IF m.commit = 0 THEN cf
                  ELSE [cf EXCEPT ![s] = FlushedCommit(s, commit)]
         /\ inmem' = [inmem EXCEPT ![s] =
                        [commit |-> commit,
                         horizon |-> Higher(inmem[s].horizon, m.truncate)]]
  /\ UNCHANGED termStart

\* handle_flush
HandleFlush(s) ==
  /\ flushLsn' = [flushLsn EXCEPT ![s] = WriteLsn(s)]
  /\ UNCHANGED <<cf, inmem, wal, termStart>>

AppendReply(s) ==
  [type |-> "AppendResponse", gen |-> cf'[s].gen, term |-> cf'[s].term,
   flush |-> flushLsn'[s], commit |-> cf'[s].commit]

-----------------------------------------------------------------------------
(* Peers *)

\* What a safekeeper publishes about itself through the storage broker.
SafekeeperInfo(s) ==
  [lastLogTerm |-> LastLogTerm(cf[s].hist, flushLsn[s]), commit |-> inmem[s].commit,
   horizon |-> inmem[s].horizon]

\* record_safekeeper_info: commit and file are commit_lsn and the control file once the
\* peer's commit_lsn has been looked at.  peer_horizon_lsn is taken from any peer, and
\* the control file is flushed if one of its LSNs is more than a segment behind, which
\* may be backup_lsn or remote_consistent_lsn: save.
RecordInfo(s, commit, file, horizon) ==
  LET known == [commit  |-> commit,
                horizon |-> Higher(inmem[s].horizon, horizon)]
  IN  /\ inmem' = [inmem EXCEPT ![s] = known]
      /\ \E save \in BOOLEAN :
           cf' = [cf EXCEPT ![s] = IF ~save THEN file
                                   ELSE [file EXCEPT !.commit = known.commit,
                                                     !.horizon = known.horizon]]
      /\ UNCHANGED <<wal, flushLsn, termStart>>

\* Mutant of RecordSafekeeperInfo: any peer is believed.
RecordSafekeeperInfo_AnyTerm(s, info) ==
  LET commit == NewCommitLsn(s, info.commit, flushLsn[s])
  IN  RecordInfo(s, commit, FlushedCommit(s, commit), info.horizon)

\* commit_lsn is taken only from a peer whose WAL ends in the same term.
RecordSafekeeperInfo(s, info) ==
  LET commit == NewCommitLsn(s, info.commit, flushLsn[s])
  IN  IF info.lastLogTerm = LastLogTerm(cf[s].hist, flushLsn[s])
      THEN RecordInfo(s, commit, FlushedCommit(s, commit), info.horizon)
      ELSE RecordInfo(s, inmem[s].commit, cf[s], info.horizon)

-----------------------------------------------------------------------------
(* Crashes *)

\* Start after a crash that left WAL up to lsn and the control file file.
RestartWith(s, file, lsn) ==
  /\ cf' = [cf EXCEPT ![s] = file]
  /\ inmem' = [inmem EXCEPT ![s] = [commit |-> file.commit, horizon |-> file.horizon]]
  /\ wal' = [wal EXCEPT ![s] = SubSeq(wal[s], 1, lsn - StartLsn)]
  /\ flushLsn' = [flushLsn EXCEPT ![s] = lsn]
  /\ termStart' = [termStart EXCEPT ![s] = 0]

\* Unflushed WAL survives up to some point.
CrashRestart(s) == \E lsn \in flushLsn[s]..WriteLsn(s) : RestartWith(s, cf[s], lsn)

\* A crash inside handle_elected, after the term was persisted and with the
\* truncation of WAL begun or done, before the history is persisted.
CrashInElected(s, m) ==
  /\ ElectedAccepted(s, m)
  /\ \E lsn \in m.start..WriteLsn(s) : RestartWith(s, RaisedTerm(s, m.term), lsn)

=============================================================================
