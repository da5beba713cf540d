---------------------------- MODULE WalConsensus ----------------------------
(***************************************************************************)
(* Walproposers and safekeepers, composed over connections that break.     *)
(*                                                                         *)
(* conn["live"][p][s] is the safekeeper's side of the connection that      *)
(* walproposer p believes it has; conn["stale"][p][s] is an earlier one    *)
(* that p has given up (or p exited), whose received messages the          *)
(* safekeeper still works through.  toWp[p][s] are answers on the live     *)
(* connection.  Connections are TCP: in order, no duplicates, and what was *)
(* sent may be lost when the connection breaks.  Only one stale connection *)
(* per pair is kept: when another one would appear, its messages are lost. *)
(***************************************************************************)
EXTENDS WalProposer

CONSTANT MaxInFlight   \* bound on AppendRequests in one direction of a connection

VARIABLES conn,        \* open, queue (of messages to process), dirty
          toWp,
          broker       \* broker[s]: the last SafekeeperInfo s has published

VARIABLES won,         \* history: the <<walproposer, term>> pairs that won election
          committed    \* history: the longest WAL ever declared committed

netVars == <<conn, toWp>>
history == <<won, committed>>
vars == <<skVars, wpVars, netVars, broker, history>>

Kinds == {"live", "stale"}
Closed == [open |-> FALSE, queue |-> <<>>, dirty |-> FALSE]

Init ==
  /\ SafekeeperInit
  /\ WalProposerInit
  /\ conn = [k \in Kinds |-> [p \in Proposers |-> [s \in Safekeepers |-> Closed]]]
  /\ toWp = [p \in Proposers |-> [s \in Safekeepers |-> <<>>]]
  /\ broker = [s \in Safekeepers |-> SafekeeperInfo(s)]
  /\ won = {}
  /\ committed = <<>>

-----------------------------------------------------------------------------
(* Network *)

\* The safekeeper is done with the first message of a connection; d: whether
\* there are appends to flush.  A stale connection ends with its last message.
Consumed(k, c, d) ==
  IF k = "stale" /\ Len(c.queue) = 1 /\ ~d THEN Closed
  ELSE [c EXCEPT !.queue = Tail(@), !.dirty = d]

\* The safekeeper handled the first message and answers with replies.
Handled(k, p, s, dirty, replies) ==
  /\ conn' = [conn EXCEPT ![k][p][s] = Consumed(k, @, dirty)]
  /\ toWp' = IF k = "live" THEN [toWp EXCEPT ![p][s] = @ \o replies] ELSE toWp

\* The safekeeper closes the connection with an error.
Refused(k, p, s) ==
  /\ conn' = [conn EXCEPT ![k][p][s] = Closed]
  /\ UNCHANGED toWp

\* Connection c when messages are written to it.
Sent(c, messages) == IF c.open THEN [c EXCEPT !.queue = @ \o messages] ELSE c

\* What becomes of the stale connection when the live one c is given up.
Abandoned(c, stale) ==
  IF stale # Closed \/ (c.queue = <<>> /\ ~c.dirty) THEN stale ELSE c

\* Walproposer p gives up its connections to the safekeepers in gone; last[s]
\* are messages it still sends to s.
GiveUp(p, gone, last) ==
  /\ conn' = [conn EXCEPT
       !["live"][p]  = [s \in Safekeepers |-> IF s \in gone THEN Closed ELSE @[s]],
       !["stale"][p] = [s \in Safekeepers |->
          IF s \in gone
          THEN Abandoned(Sent(conn["live"][p][s], last[s]), @[s])
          ELSE @[s]]]
  /\ toWp' = [toWp EXCEPT ![p] = [s \in Safekeepers |-> IF s \in gone THEN <<>> ELSE @[s]]]

NoLast == [s \in Safekeepers |-> <<>>]

VoteRequest(w) == [type |-> "VoteRequest", gen |-> w.gen, term |-> w.term]

ProposerElected(w, sk) ==
  [type |-> "ProposerElected", gen |-> w.gen, term |-> w.term,
   start |-> sk.streamingAt, hist |-> w.hist]

\* The messages that the step of walproposer p sends to s: what it sends follows
\* from the state it enters.
Outgoing(p, s) ==
  LET entered(state) == sks'[p][s].state = state /\ sks[p][s].state # state
  IN  IF entered("WAIT_VERDICT") THEN <<VoteRequest(wp'[p])>>
      ELSE IF entered("ACTIVE") THEN <<ProposerElected(wp'[p], sks'[p][s])>>
      ELSE <<>>

\* Walproposer p took the first answer of s and sends what it has to.
Answered(p, s) ==
  /\ toWp' = [toWp EXCEPT ![p][s] = Tail(@)]
  /\ conn' = [conn EXCEPT !["live"][p] = [x \in Safekeepers |-> Sent(@[x], Outgoing(p, x))]]

-----------------------------------------------------------------------------
(* Safekeeper steps *)

FirstMessage(k, p, s, type) ==
  conn[k][p][s].queue # <<>> /\ Head(conn[k][p][s].queue).type = type

Message(k, p, s) == Head(conn[k][p][s].queue)

ReceiveVoteRequest(k, p, s) ==
  /\ FirstMessage(k, p, s, "VoteRequest")
  /\ HandleVoteRequest(s, Message(k, p, s))
  /\ Handled(k, p, s, conn[k][p][s].dirty, <<VoteReply(s, Message(k, p, s))>>)
  /\ UNCHANGED <<wpVars, broker, history>>

ReceiveElected(k, p, s) ==
  /\ FirstMessage(k, p, s, "ProposerElected")
  /\ \/ AdoptElected(s, Message(k, p, s))
     \/ ElectedIgnored(s, Message(k, p, s)) /\ UNCHANGED skVars
  /\ Handled(k, p, s, conn[k][p][s].dirty, <<>>)
  /\ UNCHANGED <<wpVars, broker, history>>

ReceiveAppend(k, p, s) ==
  /\ FirstMessage(k, p, s, "AppendRequest")
  /\ \/ /\ HandleAppendRequest(s, Message(k, p, s))
        /\ Handled(k, p, s, TRUE,
                   IF flushLsn'[s] = flushLsn[s] THEN <<>> ELSE <<AppendReply(s)>>)
     \/ /\ AppendIgnored(s, Message(k, p, s))
        /\ Handled(k, p, s, TRUE, <<TermOnlyReply(s)>>)
        /\ UNCHANGED skVars
  /\ UNCHANGED <<wpVars, broker, history>>

\* process_msg fails and takes the connection with it.
RefuseMessage(k, p, s) ==
  /\ \/ /\ FirstMessage(k, p, s, "ProposerElected")
        /\ RefuseElected(s, Message(k, p, s))
     \/ /\ \/ FirstMessage(k, p, s, "AppendRequest") /\ AppendRefused(s, Message(k, p, s))
           \/ FirstMessage(k, p, s, "VoteRequest") /\ VoteRefused(s, Message(k, p, s))
        /\ UNCHANGED skVars
  /\ Refused(k, p, s)
  /\ UNCHANGED <<wpVars, broker, history>>

\* Mutant of FlushWal: an answer only when there was something to flush.
FlushWal_IfNew(k, p, s) ==
  /\ conn[k][p][s].dirty
  /\ HandleFlush(s)
  /\ conn' = [conn EXCEPT ![k][p][s] =
                IF k = "stale" /\ @.queue = <<>> THEN Closed ELSE [@ EXCEPT !.dirty = FALSE]]
  /\ toWp' = IF k = "live" /\ flushLsn'[s] # flushLsn[s]
             THEN [toWp EXCEPT ![p][s] = Append(@, AppendReply(s))] ELSE toWp
  /\ UNCHANGED <<wpVars, broker, history>>

\* WalAcceptor: the flush ticker, an empty queue, or the end of the connection.
FlushWal(k, p, s) ==
  /\ conn[k][p][s].dirty
  /\ HandleFlush(s)
  /\ conn' = [conn EXCEPT ![k][p][s] =
                IF k = "stale" /\ @.queue = <<>> THEN Closed ELSE [@ EXCEPT !.dirty = FALSE]]
  /\ toWp' = IF k = "live" THEN [toWp EXCEPT ![p][s] = Append(@, AppendReply(s))] ELSE toWp
  /\ UNCHANGED <<wpVars, broker, history>>

\* push_to_broker: publish state for peers.
Publish(s) ==
  /\ broker[s] # SafekeeperInfo(s)
  /\ broker' = [broker EXCEPT ![s] = SafekeeperInfo(s)]
  /\ UNCHANGED <<skVars, wpVars, netVars, history>>

ReceiveInfo(s, peer) ==
  /\ RecordSafekeeperInfo(s, broker[peer])
  /\ inmem'[s] # inmem[s]     \* nothing else changes than in PersistState otherwise
  /\ UNCHANGED <<wpVars, netVars, broker, history>>

PersistState(s) ==
  /\ SaveControlFile(s)
  /\ UNCHANGED <<wpVars, netVars, broker, history>>

BumpTerm(s) ==
  /\ cf[s].term < MaxTerm
  /\ TermBump(s, cf[s].term + 1)
  /\ UNCHANGED <<wpVars, netVars, broker, history>>

\* The storage controller moves the safekeeper into the next configuration.
SwitchMembership(s) ==
  /\ cf[s].gen + 1 \in DOMAIN Conf
  /\ s \in Members(cf[s].gen + 1)
  /\ MembershipSwitch(s, cf[s].gen + 1)
  /\ UNCHANGED <<wpVars, netVars, broker, history>>

-----------------------------------------------------------------------------
(* Walproposer steps *)

FirstAnswer(p, s, type) == toWp[p][s] # <<>> /\ Head(toWp[p][s]).type = type

Answer(p, s) == Head(toWp[p][s])

\* Connection establishment and the greeting, which leaves the answer in toWp.
Connect(p, s) ==
  /\ StartConnection(p, s)
  /\ HandleGreeting(s, wp[p].gen)
  /\ conn' = [conn EXCEPT !["live"][p][s] = [Closed EXCEPT !.open = TRUE]]
  /\ toWp' = [toWp EXCEPT ![p][s] = <<GreetingReply(s)>>]
  /\ UNCHANGED <<broker, history>>

ReceiveGreeting(p, s) ==
  /\ FirstAnswer(p, s, "Greeting")
  /\ RecvAcceptorGreeting(p, s, Answer(p, s))
  /\ Answered(p, s)
  /\ UNCHANGED <<skVars, broker, history>>

ReceiveVote(p, s) ==
  /\ FirstAnswer(p, s, "Vote")
  /\ CountVote(p, s, Answer(p, s)) \/ JoinElected(p, s, Answer(p, s))
  /\ Answered(p, s)
  /\ UNCHANGED <<skVars, broker, history>>

BecomeElected(p, s) ==
  /\ FirstAnswer(p, s, "Vote")
  /\ \E donor \in Safekeepers : WinElection(p, s, Answer(p, s), donor)
  /\ IF wp'[p].state = "ELECTED" THEN Answered(p, s) ELSE GiveUp(p, Safekeepers, NoLast)
  /\ won' = won \cup {<<p, wp[p].term>>}
  /\ UNCHANGED <<skVars, broker, committed>>

\* The WAL that walproposer p declares committed with the answer m of s.
NowCommitted(p, s, m) == WalOf(wp[p].hist, StartLsn, Acknowledged(p, s, m).commit)

\* The last, empty, AppendRequest of a finished sync-safekeepers.
LastBroadcast(p, s, m) ==
  [x \in Safekeepers |->
     IF sks[p][x].state # "ACTIVE" THEN <<>>
     ELSE <<[type |-> "AppendRequest", gen |-> wp[p].gen, term |-> wp[p].term,
             begin |-> sks[p][x].streamingAt, wal |-> <<>>,
             commit |-> Acknowledged(p, s, m).commit,
             truncate |-> Acknowledged(p, s, m).truncate]>>]

ReceiveAppendResponse(p, s) ==
  /\ FirstAnswer(p, s, "AppendResponse")
  /\ RecvAppendResponse(p, s, Answer(p, s))
  /\ IF wp'[p].state = "ELECTED" THEN Answered(p, s)
     ELSE GiveUp(p, Safekeepers, LastBroadcast(p, s, Answer(p, s)))
  /\ committed' = LET log == NowCommitted(p, s, Answer(p, s))
                  IN  IF Len(log) > Len(committed) THEN log ELSE committed
  /\ UNCHANGED <<skVars, broker, won>>

\* An answer that ends the process.
Fatal(p, s) ==
  /\ \/ FirstAnswer(p, s, "Greeting") /\ GreetingFatal(p, Answer(p, s))
     \/ FirstAnswer(p, s, "Vote") /\ VoteFatal(p, Answer(p, s))
     \/ FirstAnswer(p, s, "AppendResponse") /\ ResponseFatal(p, Answer(p, s))
  /\ Die(p)
  /\ GiveUp(p, Safekeepers, NoLast)
  /\ UNCHANGED <<skVars, broker, history>>

SendAppend(p, s) ==
  /\ Len(conn["live"][p][s].queue) < MaxInFlight
  /\ \E donor \in Safekeepers :
       /\ SendAppendRequest(p, s, donor)
       /\ conn' = [conn EXCEPT !["live"][p][s] = Sent(@, <<AppendRequest(p, s, donor)>>)]
  /\ UNCHANGED <<skVars, toWp, broker, history>>

SendWal(p, s) == HasUnsentWal(p, s) /\ SendAppend(p, s)

\* An empty AppendRequest: a new commitLsn or truncateLsn is broadcast, or the
\* keepalive timer has fired.  Keepalives on a connection that is busy, or to a
\* safekeeper that has acknowledged everything, change nothing and are left out.
Heartbeat(p, s) ==
  /\ ~HasUnsentWal(p, s)
  /\ \/ HasNews(p, s)
     \/ /\ sks[p][s].flush # sks[p][s].streamingAt
        /\ conn["live"][p][s] = [Closed EXCEPT !.open = TRUE]
        /\ toWp[p][s] = <<>>
  /\ SendAppend(p, s)

NewWal(p) ==
  /\ GenerateWal(p)
  /\ UNCHANGED <<skVars, netVars, broker, history>>

-----------------------------------------------------------------------------
(* Failures *)

\* Walproposer p notices that a connection broke, or times out on it.
Disconnect(p, s) ==
  /\ ShutdownConnection(p, s)
  /\ GiveUp(p, {s}, NoLast)
  /\ UNCHANGED <<skVars, broker, history>>

\* The connection was closed by the safekeeper, and all it sent has been read.
NoticeClosed(p, s) ==
  /\ ~conn["live"][p][s].open
  /\ toWp[p][s] = <<>>
  /\ Disconnect(p, s)

\* The compute dies, or PANICs because its basebackup does not match.
Kill(p) ==
  /\ Alive(p)
  /\ Die(p)
  /\ GiveUp(p, Safekeepers, NoLast)
  /\ UNCHANGED <<skVars, broker, history>>

\* What p sent on a connection it gave up does not arrive any more.
LoseStale(p, s) ==
  /\ conn["stale"][p][s].queue # <<>>
  /\ conn' = [conn EXCEPT !["stale"][p][s] =
                IF @.dirty THEN [@ EXCEPT !.queue = <<>>] ELSE Closed]
  /\ UNCHANGED <<skVars, wpVars, toWp, broker, history>>

\* The safekeeper's side of every connection is gone after a crash.
ConnectionsOf(s) ==
  [k \in Kinds |-> [p \in Proposers |-> [conn[k][p] EXCEPT ![s] = Closed]]]

Crash(s) ==
  /\ \/ CrashRestart(s)
     \/ \E k \in Kinds, p \in Proposers :
          /\ FirstMessage(k, p, s, "ProposerElected")
          /\ CrashInElected(s, Message(k, p, s))
  /\ conn' = ConnectionsOf(s)
  /\ UNCHANGED <<wpVars, toWp, broker, history>>

-----------------------------------------------------------------------------

ReceiveMessage(k, p, s) ==
  \/ ReceiveVoteRequest(k, p, s)
  \/ ReceiveElected(k, p, s)
  \/ ReceiveAppend(k, p, s)
  \/ RefuseMessage(k, p, s)

ReceiveAnswer(p, s) ==
  \/ ReceiveGreeting(p, s)
  \/ ReceiveVote(p, s)
  \/ BecomeElected(p, s)
  \/ ReceiveAppendResponse(p, s)
  \/ Fatal(p, s)

SafekeeperStep(s) ==
  \/ \E k \in Kinds, p \in Proposers : ReceiveMessage(k, p, s) \/ FlushWal(k, p, s)
  \/ \E peer \in Safekeepers : ReceiveInfo(s, peer)

ProposerStep(p) ==
  \/ \E s \in Safekeepers :
       \/ Connect(p, s)
       \/ ReceiveAnswer(p, s)
       \/ SendWal(p, s)
       \/ NoticeClosed(p, s)
  \/ NewWal(p)

Failure ==
  \/ \E s \in Safekeepers : Crash(s) \/ BumpTerm(s) \/ SwitchMembership(s)
  \/ \E p \in Proposers : Kill(p)
  \/ \E p \in Proposers, s \in Safekeepers : Disconnect(p, s) \/ LoseStale(p, s)

Next ==
  \/ \E s \in Safekeepers : SafekeeperStep(s) \/ PersistState(s) \/ Publish(s)
  \/ \E p \in Proposers : ProposerStep(p)
  \/ \E p \in Proposers, s \in Safekeepers : Heartbeat(p, s)
  \/ Failure

Spec == Init /\ [][Next]_vars

-----------------------------------------------------------------------------
(* Properties *)

ToSafekeeper ==
  [type : {"VoteRequest"}, gen : Nat, term : Terms]
    \cup [type : {"ProposerElected"}, gen : Nat, term : Terms, start : Lsns,
          hist : Seq(TermSwitches) \ {<<>>}]
    \cup {m \in [type : {"AppendRequest"}, gen : Nat, term : Terms, begin : Lsns,
                 wal : Seq(Terms), commit : OptLsns, truncate : OptLsns] :
            m.begin + Len(m.wal) <= MaxLsn}

ToProposer ==
  [type : {"Greeting"}, gen : DOMAIN Conf, term : Terms]
    \cup [type : {"Vote"}, gen : Nat, term : Terms, given : BOOLEAN, flush : Lsns,
          truncate : Lsns, hist : Seq(TermSwitches)]
    \cup [type : {"AppendResponse"}, gen : Nat, term : Terms, flush : OptLsns,
          commit : OptLsns]

\* The state the variables are documented to hold: LSNs and terms in their ranges
\* (also those that come out of histories, votes and acknowledgements), WAL flushed
\* only as far as it is written, and well-formed messages.
TypeOK ==
  /\ SafekeeperTypeOK
  /\ WalProposerTypeOK
  /\ WalProposerPhases
  /\ conn \in [Kinds -> [Proposers -> [Safekeepers ->
       [open : BOOLEAN, queue : Seq(ToSafekeeper), dirty : BOOLEAN]]]]
  /\ toWp \in [Proposers -> [Safekeepers -> Seq(ToProposer)]]
  /\ broker \in [Safekeepers -> [lastLogTerm : Terms, commit : Lsns, horizon : Lsns]]
  /\ won \subseteq Proposers \X Terms
  /\ committed \in Seq(Terms)

WalUpTo(s, lsn) == SubSeq(wal[s], 1, lsn - StartLsn)

\* One walproposer at most wins a term, whatever crashes and however many run:
\* handle_vote_request persists the term before the vote is sent.
ElectionSafety ==
  \A w1, w2 \in won : w1[2] = w2[2] => w1 = w2

\* Two safekeepers, or one before and after a crash, never disagree on
\* committed WAL: everything below a commit_lsn, in memory, in the control file
\* or published to peers, is what a walproposer has declared committed.
CommitLsnIsCommitted ==
  \A s \in Safekeepers :
    /\ IsPrefix(WalUpTo(s, inmem[s].commit), committed)
    /\ cf[s].commit <= inmem[s].commit
    /\ inmem[s].commit <= flushLsn[s]

\* Committed WAL is on the disks of a quorum at every moment: neither a crash nor
\* the truncation in handle_elected of a later term takes it away.
CommittedIsDurable ==
  HasQuorum(1, {s \in Safekeepers : IsPrefix(committed, WalUpTo(s, flushLsn[s]))})

\* A walproposer that wins has all the committed WAL in its history, also what
\* others commit while it is being elected (they cannot, once it has its votes),
\* and what it declares committed itself agrees with it.
ElectedHasCommitted ==
  \A p \in Proposers :
    wp[p].state = "ELECTED" /\ (\A w \in won : w[2] <= wp[p].term) =>
      IsPrefix(committed, WalOf(wp[p].hist, StartLsn, wp[p].avail))

\* The assertion in handle_elected, "attempt to truncate committed data": a message
\* with the expected truncation point never asks to cut below commit_lsn.
NeverTruncatesCommitted ==
  \A k \in Kinds, p \in Proposers, s \in Safekeepers :
    FirstMessage(k, p, s, "ProposerElected") /\ ElectedExpected(s, Message(k, p, s)) =>
      Message(k, p, s).start >= inmem[s].commit

\* Term history and WAL of a safekeeper always describe the same thing, also
\* when it crashed between truncating WAL and persisting the history, and when
\* WAL was read from a donor.
HistoryDescribesWal ==
  \A s \in Safekeepers : wal[s] = WalOf(cf[s].hist, StartLsn, WriteLsn(s))

\* peer_horizon_lsn, which lets safekeepers delete WAL, is never above the flushed WAL
\* of any safekeeper, nor above what is committed, also when it came from a vote of
\* a safekeeper that was told it by an earlier walproposer, or from a peer of any term
\* through the broker, and after crashes and truncations.
HorizonIsFlushedEverywhere ==
  \A s, x \in Safekeepers :
    /\ inmem[s].horizon <= flushLsn[x]
    /\ inmem[s].horizon <= StartLsn + Len(committed)

\* sync-safekeepers exits only with an LSN that is committed: a basebackup taken
\* at that LSN is not invalidated later.
SyncedIsCommitted ==
  \A p \in Proposers : wp[p].state = "SYNCED" => wp[p].start <= StartLsn + Len(committed)

\* The C assertions: a vote that was not fatal is of our term, and streaming starts
\* and goes on in WAL that we have.
ProposerAssertions ==
  \A p \in Proposers, s \in Safekeepers :
    /\ FirstAnswer(p, s, "Vote") /\ ~VoteFatal(p, Answer(p, s)) =>
         Answer(p, s).term = wp[p].term
    /\ sks[p][s].state = "ACTIVE" => sks[p][s].streamingAt <= wp[p].avail

\* The flush LSNs a walproposer keeps of its safekeepers, which it goes on counting
\* for commit while they are disconnected, never overstate what is on disk: no
\* late message of an earlier connection cuts WAL that was acknowledged since.
AcknowledgedIsFlushed ==
  \A p \in Proposers, s \in Safekeepers :
    wp[p].state = "ELECTED" /\ cf[s].term = wp[p].term => sks[p][s].flush <= flushLsn[s]

\* What a walproposer has committed stays on the disks of a majority of the members
\* and, in a joint configuration, of a majority of the new members too.
CommitHasItsQuorum ==
  \A p \in Proposers :
    wp[p].state = "ELECTED" /\ wp[p].commit # 0 =>
      HasQuorum(wp[p].gen,
                {s \in Safekeepers : IsPrefix(WalOf(wp[p].hist, StartLsn, wp[p].commit),
                                              WalUpTo(s, flushLsn[s]))})

\* RecvAppendResponses says that a response of another generation "should never
\* happen: sk is expected to send ERROR instead".
ResponsesMatchGeneration ==
  \A p \in Proposers, s \in Safekeepers :
    FirstAnswer(p, s, "AppendResponse") => Answer(p, s).gen = wp[p].gen

\* The safekeepers together are the log service that WalService describes:
\* nothing a reader has been given is ever taken back or replaced, whichever
\* safekeeper it reads from next.
Service ==
  INSTANCE WalService WITH
    log    <- committed,
    served <- [s \in Safekeepers |-> WalUpTo(s, inmem[s].commit)],
    saved  <- [s \in Safekeepers |-> WalUpTo(s, cf[s].commit)]

ImplementsWalService == Service!Spec

\* What a vote, a promise or an acknowledgement rests on is never undone, crashes
\* included: the term and the peer horizon of the control file never go back, and
\* no flushed WAL is cut as long as the safekeeper is in the term whose history it
\* has adopted, however late the announcement of that term comes again.
PromisesAreKept ==
  [][\A s \in Safekeepers :
       /\ cf'[s].term >= cf[s].term
       /\ cf'[s].horizon >= cf[s].horizon
       /\ cf'[s].term = HighestTerm(cf[s].hist) => flushLsn'[s] >= flushLsn[s]]_vars

-----------------------------------------------------------------------------
(* Liveness *)

\* One WalAcceptor task per connection, scheduled by tokio: messages are taken
\* and dirty WAL is flushed.
FairSafekeeper(s) ==
  \A k \in Kinds, p \in Proposers :
    /\ WF_vars(ReceiveMessage(k, p, s))
    /\ WF_vars(FlushWal(k, p, s))

\* One event loop that serves every socket and retries connections for ever.
FairProposer(p) ==
  /\ WF_vars(NewWal(p))
  /\ \A s \in Safekeepers :
       /\ WF_vars(Connect(p, s))
       /\ WF_vars(ReceiveAnswer(p, s))
       /\ WF_vars(SendWal(p, s) \/ Heartbeat(p, s))
       /\ WF_vars(NoticeClosed(p, s))

Fairness ==
  /\ \A s \in Safekeepers : FairSafekeeper(s)
  /\ \A p \in Proposers : FairProposer(p)

FairSpec == Spec /\ Fairness

\* A walproposer that can reach a quorum is never stuck: it commits all the WAL
\* it will ever have, or it exits, and postgres starts another one.  Votes,
\* answers and refusals lost with a connection do not leave it waiting.
NeverStuck ==
  \A p \in Proposers :
    HasQuorum(1, {s \in Safekeepers : <<p, s>> \in Links}) =>
      <>(~Alive(p) \/ wp[p].commit = MaxLsn)

=============================================================================
