---------------------------- MODULE WalProposer ----------------------------
(***************************************************************************)
(* The proposer side of WAL consensus.  Each element of Proposers is one   *)
(* run of a walproposer process: it is elected in at most one term, and    *)
(* FATAL, PANIC or a kill ends it for good (postgres then starts another). *)
(* Members of SyncProposers run as sync-safekeepers: they write no WAL of  *)
(* their own and exit when the existing WAL is committed.                  *)
(*                                                                         *)
(* wp[p] is struct WalProposer; sks[p][s] the struct Safekeeper it keeps   *)
(* per safekeeper, of which flush and commit, the last AppendResponse,     *)
(* outlive a connection.                                                   *)
(***************************************************************************)
EXTENDS Safekeeper

CONSTANTS Proposers,
          SyncProposers,
          Links,         \* the <<p, s>> pairs that the network lets connect
          MaxSendSize    \* MAX_SEND_SIZE

ASSUME SyncProposersAssumption == SyncProposers \subseteq Proposers
ASSUME MaxSendSizeAssumption == MaxSendSize \in Nat \ {0}

NoOne == "none"

VARIABLES wp,    \* state, gen, term, start, hist, donor, avail, commit, truncate
          sks    \* state, vote, streamingAt, sent, flush, commit

wpVars == <<wp, sks>>

NoVote == [flush |-> 0, truncate |-> 0, hist |-> <<>>]

NewProposer ==
  [state |-> "COLLECTING_TERMS", gen |-> 0, term |-> 0, start |-> 0, hist |-> <<>>,
   donor |-> NoOne, avail |-> 0, commit |-> 0, truncate |-> 0]

\* A process that exited; sync-safekeepers reports the LSN it exits with.
Exited(state, lsn) == [NewProposer EXCEPT !.state = state, !.start = lsn]

\* sent: commitLsn and truncateLsn of the last AppendRequest on the connection.
NothingSent == <<>>

Offline ==
  [state |-> "OFFLINE", vote |-> NoVote, streamingAt |-> 0, sent |-> NothingSent,
   flush |-> 0, commit |-> 0]

WalProposerInit ==
  /\ wp = [p \in Proposers |-> NewProposer]
  /\ sks = [p \in Proposers |-> [s \in Safekeepers |-> Offline]]

Votes == [flush : OptLsns, truncate : OptLsns, hist : Seq(TermSwitches)]

ProposerRecords ==
  [state : {"COLLECTING_TERMS", "CAMPAIGN", "ELECTED", "SYNCED", "DEAD"},
   gen : {0} \cup DOMAIN Conf, term : Terms, start : OptLsns,
   hist : Seq(TermSwitches), donor : Safekeepers \cup {NoOne},
   avail : OptLsns, commit : OptLsns, truncate : OptLsns]

SafekeeperRecords ==
  [state : {"OFFLINE", "HANDSHAKE_RECV", "WAIT_VOTING", "WAIT_VERDICT",
            "WAIT_ELECTED", "ACTIVE"},
   vote : Votes, streamingAt : OptLsns, sent : {NothingSent} \cup (OptLsns \X OptLsns),
   flush : OptLsns, commit : OptLsns]

WalProposerTypeOK ==
  /\ wp \in [Proposers -> ProposerRecords]
  /\ sks \in [Proposers -> [Safekeepers -> SafekeeperRecords]]

\* What the phase walproposer w is in tells about its fields, ...
ProposerPhase(w) ==
  /\ w.state \in {"CAMPAIGN", "ELECTED"} => w.gen # 0
  /\ w.state = "ELECTED" =>
       /\ w.start # 0 /\ w.avail # 0
       /\ w.hist # <<>> /\ Last(w.hist).term = w.term

\* ... and about the state sk it keeps of a safekeeper.
SafekeeperPhase(w, sk) ==
  /\ sk.state # "OFFLINE" => w.state \in {"COLLECTING_TERMS", "CAMPAIGN", "ELECTED"}
  /\ sk.state \in {"WAIT_VERDICT", "WAIT_ELECTED"} => w.state \in {"CAMPAIGN", "ELECTED"}
  /\ sk.state = "WAIT_ELECTED" => sk.vote.flush # 0
  /\ sk.state = "ACTIVE" => w.state = "ELECTED" /\ sk.streamingAt # 0

WalProposerPhases ==
  \A p \in Proposers :
    /\ ProposerPhase(wp[p])
    /\ \A s \in Safekeepers : SafekeeperPhase(wp[p], sks[p][s])

Alive(p) == wp[p].state \in {"COLLECTING_TERMS", "CAMPAIGN", "ELECTED"}

\* The process ends: wp_log(FATAL), PANIC, or somebody killed it.
Exit(p, state, lsn) ==
  /\ wp' = [wp EXCEPT ![p] = Exited(state, lsn)]
  /\ sks' = [sks EXCEPT ![p] = [s \in Safekeepers |-> Offline]]

Die(p) == Exit(p, "DEAD", 0)

-----------------------------------------------------------------------------
(* Quorums *)

\* MsetHasQuorum(members, n): n >= len / 2 + 1
MsetHasQuorum(members, nodes) ==
  Cardinality(members \cap nodes) >= (Cardinality(members) \div 2) + 1

\* A majority of members and, in a joint configuration, of new_members.
HasQuorum(gen, nodes) ==
  /\ MsetHasQuorum(Conf[gen].members, nodes)
  /\ Conf[gen].newMembers # {} => MsetHasQuorum(Conf[gen].newMembers, nodes)

-----------------------------------------------------------------------------
(* Connections *)

\* ResetConnection up to the proposer's greeting.
StartConnection(p, s) ==
  /\ Alive(p)
  /\ <<p, s>> \in Links
  /\ sks[p][s].state = "OFFLINE"
  /\ sks' = [sks EXCEPT ![p][s].state = "HANDSHAKE_RECV"]
  /\ UNCHANGED wp

\* ShutdownConnection: an error or a timeout on the connection, in any state.
ShutdownConnection(p, s) ==
  /\ sks[p][s].state # "OFFLINE"
  /\ sks' = [sks EXCEPT ![p][s] = [Offline EXCEPT !.flush = sks[p][s].flush,
                                                  !.commit = sks[p][s].commit]]
  /\ UNCHANGED wp

-----------------------------------------------------------------------------
(* Election *)

\* Mutant of Greeted: the one that has just greeted is not counted.
Greeted_NotLast(p, s) == {x \in Safekeepers : sks[p][x].state = "WAIT_VOTING"}

\* Those that have greeted, s included.
Greeted(p, s) == {x \in Safekeepers : x = s \/ sks[p][x].state = "WAIT_VOTING"}

GreetingFatal(p, m) ==
  /\ wp[p].state # "COLLECTING_TERMS"
  /\ m.gen > wp[p].gen \/ m.term > wp[p].term

\* RecvAcceptorGreeting and, once terms are collected, SendVoteRequest to
\* everybody who waits for voting.
RecvAcceptorGreeting(p, s, m) ==
  /\ sks[p][s].state = "HANDSHAKE_RECV"
  /\ ~GreetingFatal(p, m)
  /\ LET collecting == wp[p].state = "COLLECTING_TERMS"
         gen        == Higher(wp[p].gen, m.gen)
         term       == IF collecting THEN Higher(wp[p].term, m.term) ELSE wp[p].term
         collected  == collecting /\ gen # 0 /\ HasQuorum(gen, Greeted(p, s))
     IN  /\ collected => term < MaxTerm
         /\ wp' = [wp EXCEPT ![p].gen = gen,
                             ![p].term = IF collected THEN term + 1 ELSE term,
                             ![p].state = IF collected THEN "CAMPAIGN" ELSE @]
         /\ sks' = [sks EXCEPT ![p] = [x \in Safekeepers |->
                      IF x \in Greeted(p, s)
                      THEN [sks[p][x] EXCEPT !.state =
                              IF collecting /\ ~collected THEN "WAIT_VOTING"
                                                          ELSE "WAIT_VERDICT"]
                      ELSE sks[p][x]]]

\* Mutant of VoteFatal: once elected, no refusal matters.
VoteFatal_Elected(p, m) == ~m.given /\ wp[p].state = "CAMPAIGN"

VoteFatal(p, m) == ~m.given /\ (m.term > wp[p].term \/ wp[p].state = "CAMPAIGN")

VoteOf(m) == [flush |-> m.flush, truncate |-> m.truncate, hist |-> m.hist]

\* The vote of x once m has come from s.
VoteWith(p, s, m, x) == IF x = s THEN VoteOf(m) ELSE sks[p][x].vote

\* Those whose votes count, s included.
Voters(p, s) == {x \in Members(wp[p].gen) : x = s \/ sks[p][x].state = "WAIT_ELECTED"}

\* The order by which VotesCollected picks the donor.
VoteAtLeast(v, w) ==
  \/ HighestTerm(v.hist) > HighestTerm(w.hist)
  \/ HighestTerm(v.hist) = HighestTerm(w.hist) /\ v.flush >= w.flush

\* SendProposerElected and StartStreaming.
Streaming(w, sk, vote) ==
  [sk EXCEPT !.state = "ACTIVE", !.vote = NoVote,
             !.streamingAt = StartStreamingAt(w.hist, w.term, vote.hist, vote.flush)]

\* RecvVoteResponse of a walproposer that has no quorum of votes even now.
CountVote(p, s, m) ==
  /\ sks[p][s].state = "WAIT_VERDICT"
  /\ ~VoteFatal(p, m)
  /\ wp[p].state = "CAMPAIGN"
  /\ ~HasQuorum(wp[p].gen, Voters(p, s))
  /\ sks' = [sks EXCEPT ![p][s].state = "WAIT_ELECTED", ![p][s].vote = VoteOf(m)]
  /\ UNCHANGED wp

\* What ProcessPropStartPos makes of the votes, with donor the highest voter.
ElectedProposer(p, s, m, donor) ==
  LET vote == VoteWith(p, s, m, donor)
  IN  [wp[p] EXCEPT
         !.state = "ELECTED", !.donor = donor,
         !.start = vote.flush, !.avail = vote.flush,
         !.hist = Append(vote.hist, [term |-> wp[p].term, lsn |-> vote.flush]),
         !.truncate = Max({VoteWith(p, s, m, x).truncate : x \in Voters(p, s)})]

\* RecvVoteResponse that completes the quorum: HandleElectedProposer tells
\* everybody who waits for it; sync-safekeepers exits at once when every
\* safekeeper is known to have all the WAL.
WinElection(p, s, m, donor) ==
  /\ sks[p][s].state = "WAIT_VERDICT"
  /\ ~VoteFatal(p, m)
  /\ wp[p].state = "CAMPAIGN"
  /\ HasQuorum(wp[p].gen, Voters(p, s))
  /\ donor \in Voters(p, s)
  /\ \A x \in Voters(p, s) : VoteAtLeast(VoteWith(p, s, m, donor), VoteWith(p, s, m, x))
  /\ LET w == ElectedProposer(p, s, m, donor)
     IN  IF p \in SyncProposers /\ w.truncate = w.start
         THEN Exit(p, "SYNCED", w.start)
         ELSE /\ wp' = [wp EXCEPT ![p] = w]
              /\ sks' = [sks EXCEPT ![p] = [x \in Safekeepers |->
                           IF x = s \/ sks[p][x].state = "WAIT_ELECTED"
                           THEN Streaming(w, sks[p][x], VoteWith(p, s, m, x))
                           ELSE sks[p][x]]]

\* RecvVoteResponse after the election: a safekeeper that came later.
JoinElected(p, s, m) ==
  /\ sks[p][s].state = "WAIT_VERDICT"
  /\ ~VoteFatal(p, m)
  /\ wp[p].state = "ELECTED"
  /\ sks' = [sks EXCEPT ![p][s] = Streaming(wp[p], sks[p][s], VoteOf(m))]
  /\ UNCHANGED wp

-----------------------------------------------------------------------------
(* Streaming *)

\* WalProposerBroadcast: postgres has written more WAL.
GenerateWal(p) ==
  /\ wp[p].state = "ELECTED"
  /\ p \notin SyncProposers
  /\ wp[p].avail < MaxLsn
  /\ wp' = [wp EXCEPT ![p].avail = @ + 1]
  /\ UNCHANGED sks

\* UpdateDonorShmem: the highest voter while it is connected, and safekeepers
\* that answered an AppendRequest.
Donors(p) ==
  {d \in Safekeepers :
     \/ d = wp[p].donor /\ sks[p][d].state \in {"WAIT_ELECTED", "ACTIVE"}
     \/ sks[p][d].state = "ACTIVE" /\ sks[p][d].flush # 0}

\* The end of the next AppendRequest; it may be empty (a heartbeat).
SendEnd(p, s) == Lower(sks[p][s].streamingAt + MaxSendSize, wp[p].avail)

\* WAL before the term start is read from a donor, which serves flushed WAL and
\* only while it is in the term of this walproposer.
CanRead(p, s, donor) ==
  \/ sks[p][s].streamingAt >= wp[p].start
  \/ SendEnd(p, s) = sks[p][s].streamingAt
  \/ /\ donor \in Donors(p)
     /\ cf[donor].term = wp[p].term
     /\ flushLsn[donor] >= Lower(SendEnd(p, s), wp[p].start)

\* AppendRequestHeader and the WAL after it.
AppendRequest(p, s, donor) ==
  LET begin == sks[p][s].streamingAt
  IN  [type |-> "AppendRequest", gen |-> wp[p].gen, term |-> wp[p].term,
       begin |-> begin,
       wal |-> [i \in 1..(SendEnd(p, s) - begin) |->
                  IF begin + i - 1 >= wp[p].start THEN wp[p].term
                  ELSE wal[donor][begin + i - StartLsn]],
       commit |-> wp[p].commit, truncate |-> wp[p].truncate]

\* Is there WAL that s has not been sent?
HasUnsentWal(p, s) == sks[p][s].streamingAt # wp[p].avail

\* Has s been told the latest commitLsn and truncateLsn?
HasNews(p, s) == sks[p][s].sent # <<wp[p].commit, wp[p].truncate>>

\* One iteration of SendAppendRequests.
SendAppendRequest(p, s, donor) ==
  /\ sks[p][s].state = "ACTIVE"
  /\ CanRead(p, s, donor)
  /\ sks' = [sks EXCEPT ![p][s].streamingAt = SendEnd(p, s),
                        ![p][s].sent = <<wp[p].commit, wp[p].truncate>>]
  /\ UNCHANGED wp

-----------------------------------------------------------------------------
(* Acknowledgements *)

ResponseFatal(p, m) == m.gen # wp[p].gen \/ m.term > wp[p].term

\* Mutant of CommittedMset: the index of the sorted responses is off by one.
CommittedMset_OneMore(p, members, flush) ==
  LET acked(x) == IF flush[x] >= wp[p].start THEN flush[x] ELSE 0
      lsns     == {0} \cup {acked(x) : x \in members}
  IN  Max({l \in lsns : 2 * Cardinality({x \in members : acked(x) >= l})
                           >= Cardinality(members) - 1})

\* GetCommittedMset: the highest LSN a quorum of the set has flushed; what is
\* below the start of the term does not count.
CommittedMset(p, members, flush) ==
  LET acked(x) == IF flush[x] >= wp[p].start THEN flush[x] ELSE 0
      lsns     == {0} \cup {acked(x) : x \in members}
  IN  Max({l \in lsns : MsetHasQuorum(members, {x \in members : acked(x) >= l})})

\* Mutant of AcknowledgedByQuorum: the new members of a joint configuration are
\* forgotten.
AcknowledgedByQuorum_OldMembers(p, flush) ==
  CommittedMset(p, Conf[wp[p].gen].members, flush)

\* GetAcknowledgedByQuorumWALPosition
AcknowledgedByQuorum(p, flush) ==
  LET conf == Conf[wp[p].gen]
      committed == CommittedMset(p, conf.members, flush)
  IN  IF conf.newMembers = {} THEN committed
      ELSE Lower(committed, CommittedMset(p, conf.newMembers, flush))

\* Mutant of MinFlushLsn: safekeepers that never answered are skipped.
MinFlushLsn_Answered(flush) == Min({flush[x] : x \in {y \in Safekeepers : flush[y] # 0}} \cup {MaxLsn})

\* CalculateMinFlushLsn, over all the safekeepers in the connection string.
MinFlushLsn(flush) == Min({flush[x] : x \in Safekeepers})

\* struct WalProposer after the response m of s.
Acknowledged(p, s, m) ==
  LET flush     == [x \in Safekeepers |-> IF x = s THEN m.flush ELSE sks[p][x].flush]
      commit    == Higher(wp[p].commit, AcknowledgedByQuorum(p, flush))
      candidate == Lower(MinFlushLsn(flush), commit)
  IN  [wp[p] EXCEPT !.commit = commit, !.truncate = Higher(@, candidate)]

\* Mutant of SyncFinished: one safekeeper is enough.
SyncFinished_One(p, s, m) == p \in SyncProposers /\ m.flush >= wp[p].start

\* Every safekeeper that seems alive has persisted commit_lsn up to the term
\* start, and a quorum has the WAL.
SyncFinished(p, s, m) ==
  LET flush == [x \in Safekeepers |-> IF x = s THEN m.flush ELSE sks[p][x].flush]
  IN  /\ p \in SyncProposers
      /\ \A x \in Safekeepers :
           sks[p][x].state # "OFFLINE" =>
             (IF x = s THEN m.commit ELSE sks[p][x].commit) >= wp[p].start
      /\ AcknowledgedByQuorum(p, flush) >= wp[p].start

\* RecvAppendResponses, HandleSafekeeperResponse.
RecvAppendResponse(p, s, m) ==
  /\ sks[p][s].state = "ACTIVE"
  /\ ~ResponseFatal(p, m)
  /\ IF SyncFinished(p, s, m)
     THEN Exit(p, "SYNCED", wp[p].start)
     ELSE /\ wp' = [wp EXCEPT ![p] = Acknowledged(p, s, m)]
          /\ sks' = [sks EXCEPT ![p][s].flush = m.flush, ![p][s].commit = m.commit]

=============================================================================
