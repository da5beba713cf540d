--------------------------- MODULE InterpretedWal ---------------------------
(***************************************************************************)
(* Interpreted WAL from a safekeeper to the shards of a tenant: one task   *)
(* (InterpretedWalReader) reads and decodes the WAL of a timeline and fans *)
(* its records out to the walsenders of several shards, each of which may  *)
(* have started elsewhere.  A shard that attaches below the position of    *)
(* the reader takes the reader back, and the others must not notice.       *)
(*                                                                         *)
(* LSNs are small numbers.  Record i of the WAL ends at end and the next   *)
(* one starts at next: what lies between is padding, which for XLOG_SWITCH *)
(* reaches to the end of the segment.  All the WAL is committed; that a    *)
(* part of it is not yet, is a reader that does not read on.               *)
(***************************************************************************)
EXTENDS Integers, Sequences, FiniteSets, FiniteSetsExt, SequencesExt

CONSTANTS Conns,      \* connections of pageservers
          Readers,    \* reader tasks
          Shards,     \* shard numbers; 0 is shard zero
          NRecords,   \* records in the WAL
          MaxDelta,   \* max_delta_for_fanout, an upper bound of the LSNs for None
          Errors      \* may reading the WAL fail

\* What the constants must be.
IWAssumption ==
  /\ 0 \in Shards /\ Shards \subseteq Nat
  /\ NRecords \in Nat \ {0} /\ MaxDelta \in Nat /\ Errors \in BOOLEAN

None == -1
ChannelSize == 2

VARIABLES wal,    \* the records: [end, next, of], of: shards it concerns
          reader, \* reader[r], see ReaderState
          conn    \* conn[c], the walsender and the walreceiver at its other end

vars == <<wal, reader, conn>>

Index == 1..NRecords
NextLsn(i) == 2 * i
EndOfWal == NextLsn(NRecords)
Lsns == 0..EndOfWal

\* Where a record starts; walreceivers start nowhere else.
Boundaries == {0} \cup {wal[i].next : i \in Index}

\* st: the task; notes: attach notifications; senders: shard_senders, flattened;
\* position and batchStart: InterpretedWalReaderState; stream: where StreamingWalReader reads;
\* decoder: LSN up to which the decoder was fed; out: batches of this iteration left to send;
\* failed: sends of this iteration that failed.
NoReader == [st |-> "done", notes |-> <<>>, senders |-> <<>>, position |-> 0,
             batchStart |-> None, stream |-> 0, decoder |-> 0, out |-> <<>>, failed |-> {}]

\* st: "open" while the walsender runs; chan: the channel to it, at most ChannelSize batches;
\* reader: whose handle the slot of the walsender holds; alive: the walreceiver still reads;
\* expected, last: expected_wal_start and last_rec_lsn there; got: records ingested;
\* alarm: a critical_timeline! message was logged.
NoConn == [st |-> "idle", shard |-> 0, start |-> 0, reader |-> None, chan |-> <<>>,
           alive |-> FALSE, expected |-> 0, last |-> 0, got |-> {}, alarm |-> FALSE]

Init ==
  /\ wal \in [Index -> [end : Lsns, next : Lsns, of : SUBSET Shards]]
  /\ \A i \in Index : /\ wal[i].next = NextLsn(i) /\ wal[i].end \in {NextLsn(i) - 1, NextLsn(i)}
                      /\ 0 \in wal[i].of
  /\ reader = [r \in Readers |-> NoReader]
  /\ conn = [c \in Conns |-> NoConn]

\* The walreceiver is gone, and what it knew of the connection with it.
Gone(c) == [c EXCEPT !.alive = FALSE, !.start = 0, !.expected = 0, !.last = 0, !.got = {}]

Handles(r) == {c \in Conns : conn[c].st = "open" /\ conn[c].reader = r}
Closed(c) == conn[c].st # "open"

\* A connection that was closed may stand for a new one once no reader knows it.
Unused(c) ==
  /\ conn[c].st # "open"
  /\ \A r \in Readers :
       /\ \A j \in DOMAIN reader[r].senders : reader[r].senders[j].conn # c
       /\ \A j \in DOMAIN reader[r].notes : reader[r].notes[j].conn # c

(***************************************************************************)
(* Walsenders: attach to a reader or spawn one, and go away.               *)
(***************************************************************************)
Open(c, s, start, r) ==
  conn' = [conn EXCEPT ![c] = [NoConn EXCEPT !.st = "open", !.shard = s, !.start = start,
                                 !.reader = r, !.alive = TRUE, !.expected = start, !.last = start]]

\* A reader that create_or_update_interpreted_reader may select.
Selectable(start) ==
  {r \in Readers : /\ Handles(r) # {} /\ reader[r].st = "running"
                   /\ start - reader[r].position \in -MaxDelta..MaxDelta}

Attach(c, s, start) ==
  /\ Unused(c)
  /\ \E r \in Selectable(start) :
       /\ reader' = [reader EXCEPT ![r].notes = Append(@, [conn |-> c, start |-> start])]
       /\ Open(c, s, start, r)
  /\ UNCHANGED wal

Sender(c, start) == [conn |-> c, next |-> start]

Spawn(c, s, start) ==
  /\ Unused(c) /\ Selectable(start) = {}
  /\ \E r \in Readers :
       /\ Handles(r) = {}
       /\ reader' = [reader EXCEPT ![r] =
            [NoReader EXCEPT !.st = "running", !.senders = <<Sender(c, start)>>,
                             !.position = start, !.stream = start, !.decoder = start]]
       /\ Open(c, s, start, r)
  /\ UNCHANGED wal

\* The walreceiver is cancelled or its pageserver dies; the safekeeper does not know yet.
Disconnect(c) ==
  /\ conn[c].st = "open" /\ conn[c].alive
  /\ conn' = [conn EXCEPT ![c] = Gone(@)]
  /\ UNCHANGED <<wal, reader>>

\* The walsender ends: its peer is gone, or the reader has gone and nothing is left to send.
\* The slot is given up, and the last handle of a reader aborts it.
Close(c) ==
  /\ conn[c].st = "open"
  /\ \/ ~conn[c].alive
     \/ conn[c].chan = <<>> /\ reader[conn[c].reader].st # "running"
  /\ conn' = [conn EXCEPT ![c] = [NoConn EXCEPT !.st = "closed", !.shard = conn[c].shard]]
  /\ reader' = IF Handles(conn[c].reader) = {c}
                 THEN [reader EXCEPT ![conn[c].reader] = NoReader] ELSE reader
  /\ UNCHANGED wal

(***************************************************************************)
(* The reader: one iteration of run_impl for WAL reads and decodes a chunk *)
(* and then sends the batches, each of which may wait for room.            *)
(***************************************************************************)
\* The records of a chunk that concern the shard and that the sender has not had.
Filtered(s, k) == {i \in Index : /\ wal[i].end > k.from /\ wal[i].end <= k.to
                                 /\ conn[s.conn].shard \in wal[i].of
                                 /\ wal[i].next > s.next}

\* The batch for a sender out of chunk k, whose last complete record is lastIn: with records,
\* an empty one that only moves the end of the WAL seen, or none.
BatchFor(s, k, lastIn, start) ==
  LET maxNext == wal[lastIn].next IN
  IF maxNext > s.next
    THEN <<[conn |-> s.conn, walEnd |-> k.to, records |-> Filtered(s, k), next |-> maxNext, start |-> start]>>
  ELSE IF k.to > s.next
    THEN <<[conn |-> s.conn, walEnd |-> k.to, records |-> {}, next |-> s.next, start |-> start]>>
  ELSE <<>>

\* A chunk arrives from StreamingWalReader.  Without a complete record in it nothing is sent.
Read(r) ==
  LET me == reader[r] IN
  /\ me.st = "running" /\ me.out = <<>> /\ me.failed = {}
  /\ \E to \in (me.stream + 1)..EndOfWal :
       LET k == [from |-> me.stream, to |-> to]
           complete == {i \in Index : wal[i].end > k.from /\ wal[i].end <= k.to}
           start == IF me.batchStart = None THEN me.stream ELSE me.batchStart
           lastIn == Max(complete)
       IN reader' = [reader EXCEPT ![r] =
            IF me.decoder # me.stream
              THEN [NoReader EXCEPT !.st = "decode error"]
            ELSE IF complete = {}
              THEN [me EXCEPT !.stream = to, !.decoder = to, !.batchStart = start]
              ELSE [me EXCEPT !.stream = to, !.decoder = to, !.batchStart = wal[lastIn].end,
                              !.position = wal[lastIn].next,
                              !.out = FlattenSeq([j \in DOMAIN me.senders |->
                                        BatchFor(me.senders[j], k, lastIn, start)])]]
  /\ UNCHANGED <<wal, conn>>

SetNext(senders, c, lsn) ==
  [j \in DOMAIN senders |->
     IF senders[j].conn = c THEN [senders[j] EXCEPT !.next = Max({@, lsn})] ELSE senders[j]]

\* Slip: a channel whose receiver is gone is waited for.
Send_Slip(r) ==
  LET me == reader[r]  b == Head(me.out) IN
  /\ me.out # <<>> /\ ~Closed(b.conn) /\ Len(conn[b.conn].chan) < ChannelSize
  /\ conn' = [conn EXCEPT ![b.conn].chan = Append(@, b)]
  /\ reader' = [reader EXCEPT ![r].out = Tail(@),
                  ![r].senders = SetNext(@, b.conn, me.position)]
  /\ UNCHANGED wal

\* state.tx.send: waits for room; a closed channel gets the sender removed.
Send(r) ==
  LET me == reader[r]  b == Head(me.out) IN
  /\ me.out # <<>>
  /\ \/ /\ Closed(b.conn)
        /\ reader' = [reader EXCEPT ![r].out = Tail(@), ![r].failed = @ \cup {b.conn}]
        /\ UNCHANGED conn
     \/ /\ ~Closed(b.conn) /\ Len(conn[b.conn].chan) < ChannelSize
        /\ conn' = [conn EXCEPT ![b.conn].chan = Append(@, b)]
        /\ reader' = [reader EXCEPT ![r].out = Tail(@),
                        ![r].senders = SetNext(@, b.conn, me.position)]
  /\ UNCHANGED wal

\* Senders that have dropped out are cleaned up after the last send.
CleanUp(r) ==
  LET me == reader[r] IN
  /\ me.out = <<>> /\ me.failed # {}
  /\ reader' = [reader EXCEPT ![r].failed = {},
                  ![r].senders = SelectSeq(@, LAMBDA s : s.conn \notin me.failed)]
  /\ UNCHANGED <<wal, conn>>

\* Slip: the position told to others is left alone when the stream is taken back.
Attached_Position(me, start) ==
  IF start < me.position
    THEN [me EXCEPT !.batchStart = None, !.stream = start, !.decoder = start]
    ELSE me

\* maybe_reset, and the reset of the stream and of the decoder that follows from it.
Attached(me, start) ==
  IF start < me.position
    THEN [me EXCEPT !.position = start, !.batchStart = None, !.stream = start, !.decoder = start]
    ELSE [me EXCEPT !.batchStart = IF @ = None THEN None ELSE Min({@, start})]

\* An attach notification: drop dead senders of the shard, add the new one, maybe go back.
Notified(r) ==
  LET me == reader[r]  n == Head(me.notes)
      left == SelectSeq(me.senders, LAMBDA s : ~(conn[s.conn].shard = conn[n.conn].shard
                                                 /\ Closed(s.conn)))
  IN
  /\ me.st = "running" /\ me.notes # <<>> /\ me.out = <<>> /\ me.failed = {}
  /\ reader' = [reader EXCEPT ![r] =
       Attached([me EXCEPT !.notes = Tail(@), !.senders = Append(left, Sender(n.conn, n.start))],
                n.start)]
  /\ UNCHANGED <<wal, conn>>

\* Reading the WAL fails: the task ends, its state is Done and its channels are closed.
ReadError(r) ==
  /\ Errors /\ reader[r].st = "running" /\ reader[r].out = <<>>
  /\ reader' = [reader EXCEPT ![r] = NoReader]
  /\ UNCHANGED <<wal, conn>>

(***************************************************************************)
(* The walreceiver at the other end.                                       *)
(***************************************************************************)
\* A message: the contiguity check, then its records are ingested and the last record LSN
\* moves to next_record_lsn.  An alarm ends the connection.
Receive(c) ==
  LET me == conn[c]  b == Head(me.chan)
      gap == b.start > me.expected
      again == /\ b.start < me.expected /\ b.records # {}
               /\ wal[Min(b.records)].next < me.last
  IN
  /\ me.st = "open" /\ me.alive /\ me.chan # <<>>
  /\ conn' = [conn EXCEPT ![c] =
       IF gap \/ again
         THEN [Gone(me) EXCEPT !.chan = Tail(@), !.alarm = TRUE]
         ELSE [me EXCEPT !.chan = Tail(@), !.got = @ \cup b.records, !.last = b.next,
                         !.expected = b.walEnd]]
  /\ UNCHANGED <<wal, reader>>

\* The walsender of a dead peer still takes batches, until writing them fails.
Discard(c) ==
  /\ conn[c].st = "open" /\ ~conn[c].alive /\ conn[c].chan # <<>>
  /\ conn' = [conn EXCEPT ![c].chan = Tail(@)]
  /\ UNCHANGED <<wal, reader>>

ReaderStep(r) == Read(r) \/ Send(r) \/ CleanUp(r) \/ Notified(r) \/ ReadError(r)

Next ==
  \/ \E c \in Conns :
       \/ \E s \in Shards, start \in Boundaries : Attach(c, s, start) \/ Spawn(c, s, start)
       \/ Disconnect(c) \/ Close(c) \/ Receive(c) \/ Discard(c)
  \/ \E r \in Readers : ReaderStep(r)

Spec == Init /\ [][Next]_vars

(***************************************************************************)
(* Properties.                                                             *)
(***************************************************************************)
TypeOK ==
  /\ \A r \in Readers :
       /\ reader[r].st \in {"running", "done", "decode error"}
       /\ reader[r].position \in Lsns /\ reader[r].stream \in Lsns
       /\ reader[r].batchStart \in Lsns \cup {None} /\ reader[r].failed \subseteq Conns
  /\ \A c \in Conns :
       /\ conn[c].st \in {"idle", "open", "closed"} /\ conn[c].shard \in Shards
       /\ conn[c].reader \in Readers \cup {None} /\ conn[c].got \subseteq Index
       /\ Len(conn[c].chan) <= ChannelSize

\* The alarms of walreceiver_connection.rs ("Gap in streamed WAL", "Received record ... multiple
\* times") and the decode error of the reader never fire, whatever shards attach to a reader,
\* take it back and leave it.
NoAlarm ==
  /\ \A c \in Conns : ~conn[c].alarm
  /\ \A r \in Readers : reader[r].st # "decode error"

\* The records of shard s that end after from and not after to.
Owned(s, from, to) == {i \in Index : s \in wal[i].of /\ wal[i].next > from /\ wal[i].next <= to}

\* A shard has ingested every record of its own up to its last record LSN, and the messages on
\* their way to it hold each further record once and in order, although the reader may have gone
\* back and read it several times.
EachRecordOnce ==
  \A c \in Conns : conn[c].alive =>
    LET me == conn[c]
        lsn(j) == IF j = 0 THEN me.last ELSE me.chan[j].next
    IN /\ me.got = Owned(me.shard, me.start, me.last)
       /\ \A j \in DOMAIN me.chan :
            /\ lsn(j - 1) <= lsn(j)
            /\ me.chan[j].records = Owned(me.shard, lsn(j - 1), lsn(j))

\* What has a running reader still to send a connection it serves: nothing it has passed is lost.
\* The records between what the sender has been sent and the end of the WAL are all ahead of the
\* stream, or of a batch that waits for room in the channel.
NothingSkipped ==
  \A r \in Readers : reader[r].st = "running" =>
    \A j \in DOMAIN reader[r].senders :
      LET s == reader[r].senders[j]
          waiting == UNION {reader[r].out[k].records :
                              k \in {k \in DOMAIN reader[r].out : reader[r].out[k].conn = s.conn}}
      IN s.conn \notin reader[r].failed =>
           \A i \in Owned(conn[s.conn].shard, s.next, EndOfWal) :
             wal[i].end > reader[r].stream \/ i \in waiting

\* The task runs, walsenders write to their sockets and find out about dead peers, walreceivers
\* read.
Fairness ==
  /\ \A r \in Readers : WF_vars(Read(r) \/ Send(r) \/ CleanUp(r)) /\ SF_vars(Notified(r))
  /\ \A c \in Conns : WF_vars(Receive(c) \/ Discard(c)) /\ WF_vars(Close(c))

FairSpec == Spec /\ Fairness

Connects == \E c \in Conns, s \in Shards, start \in Boundaries : Attach(c, s, start) \/ Spawn(c, s, start)

\* Once no more shards connect, one that stays connected gets all the WAL, although it shares its
\* reader with shards that started earlier, stall and go away.
AllIsDelivered ==
  <>[][~Connects]_vars =>
    \A c \in Conns : []<>(conn[c].last = EndOfWal \/ conn[c].st # "open")

=============================================================================
