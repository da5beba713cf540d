# The OpenNeon storage system in TLA+

A Neon compute is a postgres without durable storage. A transaction is committed
when a majority of *safekeepers* has its WAL on disk; *pageservers* read that WAL, keep
versions of pages in layer files, upload these to object storage and serve pages at
LSNs; the *storage controller* decides which pageserver a tenant shard is attached to
and in which generation. This project models the parts of that system whose correctness
depends on orders of events: consensus first, then the safekeeper's storage and backups,
the pageserver's layers and remote state, and the controller's reconciliation.

Everything is translated from the code. The repository has older specifications of the
consensus protocol (`safekeeper/spec`); the ones here are independent of them: they have
connections, unflushed writes, control files, in-memory values, crashes inside a handler,
keepalives, sync-safekeepers and the recovery of WAL from a donor, which those leave out.

## Inventory

| component | state | operations | interacts with |
|---|---|---|---|
| safekeeper, one timeline (`safekeeper.rs`, `state.rs`) | control file (term, term history, commit_lsn, peer_horizon_lsn, configuration), newer in-memory values, WAL, flush_lsn, cached term_start_lsn | greeting, vote, elected, append, flush, peer info, control file save, term bump, membership switch, restart | walproposer by messages, peers through the broker, storage controller by HTTP |
| WAL storage (`wal_storage.rs`) | segments, write/flush positions, `pending_wal_truncation` | write, flush, truncate, remove | called by the safekeeper under the timeline lock |
| walproposer (`walproposer.c`) | phase, term, term start, term history, donor, available/commit/truncate LSN; per safekeeper: connection state, vote, streaming position, last answer | connect, collect terms, campaign, be elected, recover from a donor, stream, count acknowledgements, finish a sync | safekeepers by messages; postgres (new WAL); exits on FATAL and is started again |
| connections (`receive_wal.rs`) | queue of messages, the `dirty` flag | read, process, flush, answer, end | a walproposer may open a new one while the safekeeper still works through the old one |
| broker exchange (`broker.rs`) | the last published state of each safekeeper | push, pull | safekeepers of one timeline |
| membership (`membership.rs`, storage controller) | generation, members, new members | switch into a higher generation | greetings carry configurations both ways |
| WAL backup and removal (`wal_backup.rs`, `remove_wal.rs`, `wal_backup_partial.rs`, `timeline_eviction.rs`) | horizons, the offloader's task, partial segments and their list in the control file | elect an offloader, upload, publish backup_lsn, delete, evict, bring back | commit_lsn and peers from consensus; object storage |
| interpreted WAL sender (`send_interpreted_wal.rs`) | a reader shared by all shards of a tenant, its position, a sender per shard | attach, reset, fan out, detach | walreceivers of pageservers |
| pageserver timeline (`tenant/timeline.rs`) | open and frozen layers, last_record_lsn, disk_consistent_lsn, layer map, GC cutoff, leases, partitioning | commit, freeze, flush, read, compact, create images, collect garbage, branch | flush loop, compaction and GC tasks, page service |
| remote timeline client (`remote_timeline_client.rs`, `upload_queue.rs`) | index as it is and as uploaded, queue of operations, tasks | schedule, coalesce, upload, retry, barrier, stop | deletion queue, object storage |
| deletion queue (`deletion_queue/`) | lists in memory and on disk, header, validated LSNs | push, flush, validate, execute, recover | storage controller, object storage |
| storage controller (`reconciler.rs`, `tenant_shard.rs`, `service.rs`) | intent, observed state, generations in the database, tasks, nodes | schedule, reconcile, live migrate, notify the compute, re-attach, handle availability | pageservers, control plane, database |
| synchronisation primitives (`libs/utils`) | waiters, permits, a slot | wait for LSN, initialise once, fold into a channel | everywhere in the pageserver and the safekeeper |
| proxy, compute control, broker service, scrubber, libraries | | | outside the storage promises |

What is hard here: two walproposers at once (an old compute that does not know it has
been replaced); late messages of old connections; WAL written but not flushed when a host
crashes; commit_lsn known in three places at three different ages; configurations switched
while messages are under way; two pageservers that both think a shard is theirs; deletions
of objects that somebody still refers to; answers that arrive after the asker has been
cancelled; values read under a lock and used after it; waits for something that nobody will
do. `PROJECT.json` lists these hazards at their lines.

What makes the components correct: one winner per term; committed WAL is on a
majority's disks for ever and in the history of whoever is elected later; what readers
have been given never changes; WAL is removed only when it is in object storage; a read
sees every change of a page once, whatever happens to the layers in the meantime; an index
in object storage refers only to objects that exist; a pageserver deletes only what its
own, latest generation owns; one pageserver at a time writes in a generation; whoever waits
is woken.

## Modules

| module | what it models |
|---|---|
| `TermHistory` | term histories: `up_to`, `get_last_log_term`, the divergence point as Rust computes it (`FindHighestCommonPoint`, `ExpectedTruncation`) and as C does (`StartStreamingAt`); `WalOf`, the WAL a history describes, is the reference definition |
| `TermHistoryCheck` | every sequence of elections as a tree of histories, to check those algorithms on all histories that can exist |
| `Safekeeper` | the acceptor: state of a timeline, one operator per handler, restarts |
| `WalProposer` | the proposer: phases, election, streaming, acknowledgements |
| `WalConsensus` | both, composed over connections and the broker; `Next`, the properties, fairness |
| `WalService` | what readers are promised: one append-only log, each safekeeper serves a prefix |
| `MCWalConsensus` | constants, budgets of failures and initial states for TLC |
| `WalStorage` | segments and control file on a disk behind a page cache |
| `WalBackup` | whole-segment upload, removal of WAL, control file saves of a safekeeper timeline |
| `PartialBackup` | backup of the last, partial segment; eviction and its reversal |
| `InterpretedWal` | the shared WAL reader and its senders |
| `LayerFlush` | commit, freeze and flush of a timeline: the write path and the flush loop |
| `LayerReads` | reads against flush, compaction, image creation, GC and gc-compaction |
| `Gc` | GC cutoffs, leases, branches and the page service's checks |
| `UploadQueue` | the remote timeline client's queue |
| `DeletionQueue` | deletion lists, their validation and execution |
| `Reconciler` | one shard under the storage controller |
| `SeqWait`, `OnceCell`, `SpscFold` | primitives of `libs/utils` |
| `SeqWaitProofs` | theorems about `SeqWait` |
| `DeletionQueueProofs` | theorems about `DeletionQueue`: one queue with its files, shards and indexes, then a lemma per action |
| `MCSafekeeper`, `MCTimeline`, `MCRemote`, `MCProgress`, `MCDelivery` | suites for TLC of the modules from `WalStorage` on: each behaviour runs one component with the constants of one scenario |
| `TermHistoryProofs`, `TermHistoryCheckProofs` | theorems about the operators on histories, and about every sequence of elections |
| `WalConsensusProofs` | types of the consensus modules: a lemma per handler of the safekeeper, per step of walproposer, per action; then elections |
| `HistoryProofs`, `WalProofs`, `CommitProofs` | safety of consensus, each resting on the one before: what a step can do, and histories; acknowledgements, WAL and what is streamed; what is committed |

## How the models correspond to the code

### Consensus: `Safekeeper`, `WalProposer`, `WalConsensus`

WAL is abstracted to the term that wrote it: `wal[s][i]` is the term of the walproposer
that wrote the unit at LSN `StartLsn + i - 1`. Two units at one LSN are equal exactly
when one walproposer wrote them, and one walproposer wins a term (`ElectionSafety`), so
nothing is lost by that. LSN 0 is `Lsn::INVALID`. A vote, an acknowledgement and a
request keep the fields that decide something; encoding, identifiers, logging, metrics
and feedback of pageservers and standbys are left out.

* `cf[s]` is `TimelinePersistentState`, replaced atomically; `inmem[s]` is
  `TimelineMemState`. `StartChange` applies the second to the first, as every
  `finish_change` in the code does, so every action that persists anything persists
  `commit_lsn` and `peer_horizon_lsn` too.
* Handlers run under the exclusive lock of the timeline, each is one action. A crash
  inside `handle_elected`, between its two persistent effects, is `CrashInElected`.
  `handle_vote_request` also has two (flush, then the control file); a crash between them
  is `CrashRestart` with all the WAL surviving.
* `HandleAppendRequest` is the call with `require_flush = false`: `WalAcceptor` turns
  every AppendRequest into a NoFlushAppendRequest and flushes on a timer, on an empty queue
  and at the end of a connection (`FlushWal`). A write across a segment end makes the WAL before it
  durable (`FlushedBySegments`) and is answered at once.
* `wp[p]` is one *run* of a walproposer. FATAL, PANIC, a kill and the exit of
  sync-safekeepers end it; postgres starts another, which is another element of
  `Proposers`. `SyncProposers` are runs of sync-safekeepers.
* What a walproposer step sends follows from the states it enters (`Outgoing`): a vote
  request on entering WAIT_VERDICT, ProposerElected on entering ACTIVE.
* The greeting is part of `Connect`: nothing can happen between the two that the code
  could tell apart, since the safekeeper's answer waits in `toWp`.
* `conn["live"]` and `conn["stale"]` are two connections of one pair as the safekeeper
  sees them. Giving up a connection moves it to stale, where it is processed, or lost
  (`LoseStale`), at any later time. A third one at the same time is not modelled.
* `won` and `committed` are history variables: who won which term, and the longest WAL
  any walproposer has counted as committed. No action reads them.

The runs have three safekeepers (`late_elected` five), two walproposers, or one that nobody
competes with (scenarios `sole_compute` and `sole_crash` of `never_stuck`), and WAL of one or
two units (three where histories have to diverge); messages carry one unit, or all there is.
`MCInit` starts a timeline fresh, or with p1 elected by s1 and s2 (`streaming`), or with WAL
left by two dead computes (`diverged`: two units of term 1 on s1, one of term 2 on s3,
s2 voted in both and has none). The later starting points are states that earlier actions lead
to; they save the depth for what comes after. Failures have budgets.
With three safekeepers a quorum is two, and any two quorums meet in one safekeeper, which is
where a mistake shows; two competing walproposers are the smallest competition, and `Links`
lets each reach exactly a quorum (`TwoQuorums`) so that the common safekeeper, s2, matters in
every behaviour. One crash at any point of any handler covers the loss of unflushed WAL and of
in-memory values; two disconnects make a late message meet a connection that has already
written.

`generation_mismatch` is a disagreement between a comment and the code:
`RecvAppendResponses` says that a response of another generation "should never happen: sk
is expected to send ERROR instead" (walproposer.c:1871). An append of another generation
is indeed refused, but the answer is made by `handle_flush` after the append, from
whatever configuration the safekeeper has by then. A membership switch in between gives
walproposer the response it calls impossible, and it exits with FATAL. Only availability
suffers: the restarted walproposer takes up the new configuration.

`late_elected` is a fault, found when the invariant behind commit_lsn could not be proved.
`handle_elected` asserts that nobody ever asks it to truncate below commit_lsn
(safekeeper.rs:1178). commit_lsn may come from a peer, though: `record_safekeeper_info`
believes a peer whose last WAL is of the same term, and that peer may have the WAL from a
walproposer of a *later* term, which this safekeeper does not follow yet. With five
safekeepers: term 1 left WAL on s1 and s5; the walproposer of term 2 was elected by s2, s3 and
s4, which have none, and died when its ProposerElected was queued on s5; the walproposer of
term 3, elected with s1, recovers the WAL of term 1 and commits it; s2, half-way through that
WAL, publishes (term 1, commit_lsn); s5 takes commit_lsn over. Now s5 gets to the queued
message: its truncation point is the one s5 computes too, it is below commit_lsn, and the
assertion panics. Nothing committed is lost, the assertion sees to that; but it is
reachable. Three safekeepers cannot get there: with WAL of term 1 on two of them, every quorum
has it. In the model the assertion is a guard of `ElectedAccepted`, and failing it is
one of the refusals (the panic ends the connection's task; the raised term is already
persisted).

What else modelling brought to light, none of it a violation: a late ProposerElected
whose truncation point still equals flush_lsn cuts WAL that a newer connection has
written but not flushed. Nothing was acknowledged, so it is safe, but the newer
connection now has a gap that it learns about only with the next AppendRequest, at the
latest with a keepalive of `WalProposerPoll`. And two successive sync-safekeepers may
return different LSNs without any write between them: the first exits by its shortcut
with what its quorum knows, the second may find the longer uncommitted tail of a
safekeeper that was away. Both LSNs are committed when they are returned.

### WAL on disk: `WalStorage`

Variables are the directory and file contents as the file system shows them (`dir`, `data`,
`cfFile`), what of that is on the disk (`durable`), and the fields of `PhysicalStorage` (`st`).
`handle_elected` is several steps (`op`), so that a kill, a host crash or an I/O error can come
between the truncation of segments and the save of the control file. Linux semantics are
assumed: a host crash keeps any subset of the pages and names that were not fsynced; after a
failed fsync the page cache may call lost pages clean. Records of all terms end at the same
LSNs, the worst case, since WAL of two terms may then be put together into valid records.
The scenarios `storage` (crashes, kills, failing truncations and control file saves) and
`storage_errors` of `MCSafekeeper` run it. Errors of writes and of fsyncs that the process survives are only in
the second, with weaker properties, since two of them break `NoBogusWal` and `FlushedIsDurable`:

* `MaxWriteErrors = 1`: a `write_wal` that fails half way leaves WAL above `write_lsn` without
  `pending_wal_truncation`; a truncation in the next term takes its quick exit ("we know that
  the state is clean"), and a restart takes the old term's records for WAL of the new term.
* `MaxSyncErrors = 1`: after a failed `fdatasync` the segment is opened again by the next append
  of another connection, the next `fdatasync` succeeds, and `flush_lsn` moves over lost pages.

### Backup, removal and eviction of WAL: `WalBackup`, `PartialBackup`

`WalBackup` has the managers of several safekeepers (peers heard of through the broker, the
choice of the offloader with its lag limits, the upload task with parallel jobs and retries,
`backup_lsn`, control file saves, the removal task) and checks that WAL is removed only when it
is in remote storage and nobody needs it, and that objects are whole. WAL of one safekeeper
never disagrees with another's below a commit_lsn: that is `WalConsensus`. Liveness
(`OffloadedInTheEnd`) is stated without restarts. With a restart it fails: `commit_lsn_watch` has not
changed yet in the new process, so a safekeeper elected then waits for new WAL although a whole
segment is not offloaded. Nothing in the repository promises otherwise.

`PartialBackup` is one safekeeper and its last segment: the upload reads the file without a
lock while proposers append to it and truncate it. `lines[t]` is the WAL and history of the
proposer of term t, a possible history of consensus. The reset of an evicted timeline whose
local segment is gone is excluded (`DeleteWal`), as the code's comment says that deletion is not
enabled. An object may be "Uploaded" with WAL that is not the file's although the terms are the
same: a truncation and a proposer that restores the records of the older term are enough, in spite of the comment "If the
term is the same, we know the data is not corrupted". Eviction compares object and file
before it relies on the object, and the scenario `partial` shows that nothing is lost.

### Interpreted WAL: `InterpretedWal`

One action per iteration of the reader's loop and per batch it sends, one for each way a
walsender attaches, and the walreceiver with the contiguity check that raises an alarm. All WAL
is committed (WAL that is not is WAL that the reader does not read on to); chunk boundaries are
arbitrary; a record is two LSN units with optional padding, which stands for alignment and for
XLOG_SWITCH; walreceivers start at record boundaries. Which of several readers is found first
is left open. `AllIsDelivered` assumes that shards stop connecting: a shard that keeps coming
back at an old position takes the reader back every time and starves the others (TLC finds
that; nothing in the code bounds it).

### The pageserver's write path: `LayerFlush`

`hold` is the holder of `write_lock` and where it is in `commit`, `freeze_and_flush` or the
background freeze; `loop` is the flush loop with the request it has read. `should_roll` is left
open where it depends on time and size. Request counters are renumbered when every request has
been answered. Not modelled: I/O errors of `put_batch` (they happen at cancellation only) and
the initdb image optimisation. The scenarios of `MCTimeline` leave out what breaks
an assertion or stalls the loop for good; with these constants TLC finds:

* `Deletions = TRUE`: `delete_batch` may roll the layer `put_batch` has just filled, at an LSN
  that is not finished; a later freeze or flush fails an assertion.
* `SlowRequest = TRUE`, a thread that stops between a freeze and its request for the time of a
  whole flush: a layer is flushed before its request is sent, and
  `disk_consistent_lsn` is then asked to go backwards.
* `Sharded = FALSE` and `MaxErrors = 1`: the assertion that an unsharded tenant has no gap does not look at
  whether the flush failed.
* `Sharded = FALSE` and `Empties = 1`: an unsharded tenant does meet a gap, when its last record has no data,
  and `disk_consistent_lsn` stays behind for as long as there is none.
* `CompactionBreaks = TRUE`: compaction that fails once the loop is stalled leaves it stalled.

### Reads and the layer map: `LayerReads`

Records have even LSNs and layers end at odd ones. A layer holds its values as sets of key and
LSN; `Latest` is what the persistent coverage structure answers, `SelectLayer` is the decision
between image, delta and in-memory layer. A read is one key at one LSN that looks into the map
again before every layer (`Visit`); `ReadsAreExact` says that the values collected so far and
those of the next layer are exactly the changes of the key down to that layer's floor, in every
reachable map. Compactions read the map in one step and change it in a later one. The image
layer creation is itself a read, at an LSN that may be below the cutoff by then. No ancestor,
branches or leases (those are in `Gc`), no sharding, no layer downloads.
With `LateReads = TRUE` reads start while GC waits: the guard of such a read is on the new
cutoff, GC does not wait for it, and when an image layer is added below where the read started
and above where it is, GC removes what the read needs. The comment in the read path says that
the guard is there to prevent just this.

### GC cutoffs, leases and branches: `Gc`

An iteration plans under `gc_cs`, works on copies of leases and branch points, stores the
cutoff in the RCU cell and waits for holders of the older one. Layers are images of one key
range or deltas of all keys; what is above `diskLsn` is in memory. Two things are outside
the scenarios, and TLC finds GC removing what is in use when they are let in: `HoldGuard = FALSE`
(unless a feature flag is on, the page service drops its guard once the LSN is checked, before
the batch is executed) and `ReconfigDuringGc = TRUE` (a lease renewed in the grace period after a
location change while an iteration is past its copy of the leases).

### Remote state: `UploadQueue`, `DeletionQueue`

`UploadQueue` keeps the queue, the tasks and both indices, and has one action per scheduling
function and per step of `perform_upload_task`; a task may fail and retry at any step. Layers
are remote paths. Two orders of events are outside the properties of these scenarios: a path that is
deleted, and written again while deletions are blocked (`Recreate` with `MaxToggles > 0`; the code's
TODO at remote_timeline_client.rs:2176 describes a related case, which shows up with two layers
and seven operations), and a deletion pushed onto the blocked list just after the list was
drained, which stays there until deletions are blocked and unblocked again.

`DeletionQueue` has two pageservers, generations issued by the controller, lists and headers on
their disks, failing saves, restarts between any two steps and index files in remote storage.
It checks that an index of the latest generation never names a deleted layer, that
`remote_consistent_lsn` is not shown before it is validated, and that lists are
executed before they go.

### The storage controller: `Reconciler`

One shard under the policy Attached. `m` is the in-memory `TenantShard`, `db` its row,
`reconcilers` the tasks (at most one runs, the next waits for its predecessor), `loc` and `slot`
the locations on the pageservers and their tenant slots, `hook` and `told` what the compute is
being told and has been. A call to a pageserver or the database is one step with the
outcomes done, refused, done but the answer lost, and still in progress; a call to a node that
is down fails. Sequence numbers are renumbered when nothing is in flight; `heatmap` stands for
the configuration that `ha_aware_config` changes. Not modelled: limits on concurrent
reconciles, creation hints, splits, the policies Secondary and Detached, optimisation with
prewarming, leadership. `OneWriterPerGeneration` holds throughout. What TLC finds beyond the scenarios needs calls
whose answers are lost while a node goes offline or crashes: an origin left attached in an older
generation, an observed state that is not the pageserver's, a compute told early; the hazards at
those lines say so. After a
lost database answer and a migration back the shard may settle in an older generation than the
row's; the scenario `migrate` allows it, and a hazard at persistence.rs:729 says so.

### Primitives: `SeqWait`, `OnceCell`, `SpscFold`

`SeqWait` (wait for an LSN), `heavier_once_cell` (initialise once, with permits that are handed
on, used for layer residency) and `spsc_fold` (a channel that folds what it cannot send yet).
They are small enough to have every lock acquisition as a step, and cancellation of a future at
every await point.

## Runs

| run | module | shows | distinct states |
|---|---|---|---|
| `term_histories` | `TermHistoryCheck` | Every term history that four elections can produce: find_highest_common_point is compared with the longest common prefix of the WAL itself, and the C computation with the Rust one. | 2961 |
| `two_computes` | `MCWalConsensus` | A compute that streams and a second one that gets elected over it, their quorums sharing one safekeeper, with a crash of any safekeeper, and commit_lsn published late through the storage broker: committed WAL survives, no safekeeper takes uncommitted WAL for committed, and the safekeepers implement WalService. | 474 k |
| `one_compute` | `MCWalConsensus` | A compute that reconnects while a safekeeper still works through messages of the earlier connection; two computes in election on a new timeline, with a kill, a term bump and refused greetings; a switch into a joint configuration during an election: one winner per term, nothing acknowledged is taken back, commit needs both majorities. | 678 k |
| `recovery` | `MCWalConsensus` | Two sync-safekeepers runs over safekeepers whose WAL has diverged in two terms, with a crash: what sync-safekeepers returns is committed, and the horizon for WAL removal is flushed everywhere. | 764 k |
| `never_stuck` | `MCWalConsensus` | Two sync-safekeepers runs compete for diverged safekeepers: each commits or exits, none waits for ever. One elected compute without competition, and a broken connection or a safekeeper crash: all its WAL is committed in the end. | 34 k |
| `late_elected` | `MCWalConsensus` | Five safekeepers. A compute of term 2 died with its announcement still queued on a safekeeper that has WAL of term 1; the compute of term 3 commits that WAL, and the safekeeper learns its commit_lsn from a peer that is still behind the start of term 3: the queued announcement then asks for a truncation below commit_lsn, and the assertion panics. | (violation) |
| `generation_mismatch` | `MCWalConsensus` | A membership switch between an append and its flush: the safekeeper answers with a generation that walproposer.c says it never sees. | (violation) |
| `safekeeper` | `MCSafekeeper` | WAL files and the control file through I/O errors, process and host crashes; offloading by several safekeepers, removal, and a safekeeper that joined late; partial backup, eviction and reset; one reader of WAL shared by two shards: acknowledged WAL is never lost and every shard gets its records once. | 1.7 M |
| `timeline` | `MCTimeline` | Ingestion with rolling, stalls, failed flushes and restarts; reads in the middle of flush, L0 compaction, image creation, gc-compaction and GC; GC against requests, leases, branches and restarts: disk_consistent_lsn is true, reads are exact, and nothing in use is removed. | 2.1 M |
| `remote` | `MCRemote` | The upload queue with reordering, coalescing, retries, blocked deletions and stop(); deletion lists over pageserver restarts and generations; the reconciler with failed and late calls, pageservers that go offline or crash and a controller that restarts: the index that is loaded names objects that exist, and one pageserver writes. | 1.8 M |
| `progress` | `MCProgress` | SeqWait, heavier_once_cell and spsc_fold with cancelled tasks, the flush loop with a failing flush and L0 stalls, a migration with failing calls: no assertion fails, nobody waits for ever, flushes end and the shard ends up attached with the compute told. | 55 k |
| `delivery` | `MCDelivery` | Two safekeepers that hear of each other late and elect who offloads, an idle timeline with a restart, and two shards on one reader: committed segments are offloaded, the idle timeline is evicted, a shard that stays connected gets all the WAL. | 28 k |

The mutants of `PROJECT.json`, one per property of a passing run, show that each property can
be broken by a plausible slip within its run's bounds. Bounds are budgets of failures
(crashes, restarts, lost answers, I/O errors) and of work (records, layers, operations, LSNs);
they are chosen so that every kind of failure can meet every step once, and where two of them
together matter, twice. `generation_mismatch` expects a violation; it differs from the joint
switch of `one_compute` in its property, so that nothing else explains what it finds.
`late_elected` expects one too, of a property that holds with three safekeepers
(`one_compute`).

In the suites a behaviour chooses a `scenario` at its start: an instance of one component with
the constants of that scenario. In `MCSafekeeper`, `MCTimeline` and `MCRemote` the variables of all
other components are `Off`; in `MCProgress` and `MCDelivery`, where fairness is stated, the
others stay in one initial state, and the fairness of a component is asked only in behaviours
that run it. Properties are stated per scenario, of the component that runs.

`CHECK_DEADLOCK FALSE` is set where the system may really stop: terms, LSNs and failures
are bounded, so after the last one nothing is enabled.

## Fairness

* `WalConsensus`: weak fairness of every connection's WalAcceptor task (process the
  next message, flush when dirty), walproposer's event loop for each safekeeper (connect,
  read the next answer, send WAL or a keepalive, notice that a connection is closed) and
  the production of WAL. Tokio schedules tasks whose futures are ready, the event loop
  serves every socket, reconnects at an interval for ever (`ReconnectSafekeepers`) and
  sends keepalives on a timer. Nothing is asked of failures, of the broker, of the
  control file save, nor that a message on a stale connection arrives. `NeverStuck` is about
  walproposers that can reach a quorum: each commits all the WAL it will have, or exits.
  `SoleComputeCommits` is stronger, for one compute without a competitor.
* `WalBackup`, `PartialBackup`: broker, manager, tasks and uploads go on; no restarts after the
  last one in the budget.
* `InterpretedWal`: the reader task, the walsenders (which notice dead peers) and the
  walreceivers; strong fairness of taking an attach notification, since `select!` picks among
  its ready branches at random.
* `LayerFlush`: the flush loop, compaction and whoever holds a lock go on; strong fairness
  of `BeginCommit`, because tokio's mutex is first come, first served.
* `Reconciler`: reconcilers, `process_results`, the background loop, heartbeats and restarting
  pageservers go on. `Settles` allows for generations running out (`MaxGen`).
* `SeqWait`, `OnceCell`, `SpscFold`: a future that is ready is polled.

## Proofs

TLAPS checks these theorems, for every number of safekeepers, walproposers, pageservers and waiters, every
bound on terms, LSNs, generations and layers, every configuration and every order of steps:

| theorem | says |
|---|---|
| `TermHistoryProofs!StreamingMatchesTruncation` | for any two histories, if the last term of walproposer's history is nowhere else in it, the LSN where `SendProposerElected` (C) starts streaming is the one to which `handle_elected` (Rust) wants to truncate |
| `TermHistoryCheckProofs!HistoriesAreWellFormed` | every sequence of elections leaves well-formed histories: terms and LSNs increase |
| `TermHistoryCheckProofs!HistoryWithinWalHolds` | the history a safekeeper reports is not empty and ends within its WAL |
| `TermHistoryCheckProofs!BothSidesAgreeHolds` | the two divergence points agree on every history that elections produce |
| `WalConsensusProofs!TypeOKHolds` | `TypeOK` is invariant: no handler takes state or a message out of its range, no record lacks a field its handler reads |
| `WalConsensusProofs!OneWinnerPerTerm` | `ElectionSafety` is invariant when quorums intersect |
| `WalConsensusProofs!OneWinnerAcrossJointSwitch` | the same when any two generations have a member set in common |
| `HistoryProofs!HistoriesAgree` | the histories of two control files have the same entries up to any term both have |
| `WalProofs!PromisesHoldAlways` | `PromisesAreKept`: terms and peer horizons do not go back, and no flushed WAL is cut in the term a safekeeper follows |
| `WalProofs!AcknowledgementsAreTrue` | `AcknowledgedIsFlushed` is invariant: what walproposer counts for commit is on disk |
| `WalProofs!HistoriesDescribeWal` | `HistoryDescribesWal` is invariant: the history in the control file says who wrote each unit of WAL |
| `WalProofs!AssertionsHold` | `ProposerAssertions` is invariant: the assertions of walproposer.c do not fail |
| `CommitProofs!CommittedWalIsDurable` | `CommittedIsDurable` is invariant: a quorum has all the committed WAL on its disks |
| `CommitProofs!CommitsHaveTheirQuorum` | `CommitHasItsQuorum` is invariant: what an elected walproposer has committed is on the disks of a quorum of its own configuration |
| `CommitProofs!ElectedHaveCommitted` | `ElectedHasCommitted` is invariant: the walproposer of the highest won term has all the committed WAL |
| `CommitProofs!CommitLsnsAreCommitted` | `CommitLsnIsCommitted` is invariant: what a safekeeper reports as committed is flushed and is a prefix of the committed log |
| `CommitProofs!SafekeepersAreTheLog` | `ImplementsWalService`: the system refines `WalService`, one log that only grows and that each safekeeper serves a part of |
| `CommitProofs!HorizonsAreFlushedEverywhere` | `HorizonIsFlushedEverywhere` is invariant: what safekeepers may delete, all have flushed, and it is committed |
| `CommitProofs!SyncedAreCommitted` | `SyncedIsCommitted` is invariant: sync-safekeepers ends only with an LSN that is committed |
| `DeletionQueueProofs!LiveLayersAreKept` | `IndexedLayersExist` is invariant: what an attachment loads, and the shard of the latest generation, refers to layers that exist |
| `DeletionQueueProofs!AdvertisedLsnsAreLoadable` | `VisibleLsnIsLoadable` is invariant: no advertised `remote_consistent_lsn` is beyond what an attachment loads |
| `DeletionQueueProofs!HeadersCoverValidLists` | `HeaderCoversValidLists` is invariant: what recovery executes without asking is no longer referred to |
| `DeletionQueueProofs!SequencesAreFresh` | `SequenceIsFresh` is invariant: a new list overwrites none and is not covered by the header |
| `DeletionQueueProofs!DeletionsAreNotLost` | `ListsGoWhenExecuted`: the file of a list goes only when its objects are gone, or after a stale list could not be rewritten |
| `SeqWaitProofs!OkIsNeverEarly` | a wait that ends with Ok ends when the number has been reached |
| `SeqWaitProofs!NoWakeUpIsLost` | whoever still sleeps is in the heap, with a number not reached yet |

Assumptions. The named `ASSUME`s of `Safekeeper`, `WalProposer`, `TermHistoryCheck` and `SeqWait`:
finitely many safekeepers, a start LSN that is not 0, natural bounds, configurations with
members among the safekeepers, messages of at least one unit. TLC evaluates them in every
run of the module. `QueueAssumption`, a hypothesis of the theorems about `DeletionQueue` that `MCRemote` asserts of its
instances, says that the shard is first attached to one of the pageservers and that the bounds are positive. `QuorumsIntersect` and `ShareMembers` are hypotheses of the theorems from elections on, not
assumptions: they fail for configurations that have nothing in common.
`ShareMembers` holds for one configuration, and for a configuration and the joint one
that follows or precedes it, because a quorum of a joint configuration is a majority of
both its sets. For a chain of migrations it does not hold, and cannot be expected to:
that depends on what the storage controller does before it leaves a joint configuration (plan, 1).
`FirstMembersStay`, a hypothesis of `CommittedWalIsDurable`, says that a quorum of any generation is also
one of the first, in which `CommittedIsDurable` counts: true of one configuration and of the switch
into a joint one.

The arguments:

* *Term histories.* `BothSidesAgree` is not inductive and does not need to be: it follows
  from well-formedness, which is (the walproposer's own term is larger than all before
  it). `TermHistoryProofs` characterises the number of common entries by what it is, not by
  how it is found, and compares the two functions case by case: nothing in common, the
  whole of walproposer's history in common, and a divergence in between.
* *Types.* Ranges of values are not inductive: whether `handle_elected` gets a history
  that is not empty, or an append gets LSNs in order, depends on the phase the walproposer
  is in. `WalProposerPhases`, the part of `TypeOK` that makes it inductive, relates the phase
  to the fields that are set in it. `WalConsensusProofs` has a lemma per handler and per step of
  walproposer, and applies them to messages, which are typed when sent.
* *Elections.* `ElectionSafety` is about walproposers that have won, but is decided by votes
  that are still on the way. The invariant, `ElectionInv`, adds: requests on a
  live connection are in the term of the walproposer (`RequestsAreOwn`); a vote that is on the way or
  counted has its term persisted in the control file of the voter (`VotesArePersisted`);
  a safekeeper has such votes for one walproposer in a term (`VotesAreUnique`); and each
  won term has a quorum that has entered it and has no vote in it for anybody else
  (`WonByQuorum`). Votes on stale connections need not be mentioned: walproposer
  does not read them, which is what `VotesComeFrom` makes precise. One
  lemma per action shows that terms of control files only grow (`TermsGrow`) and that a step makes at
  most one new vote, from a safekeeper that enters the term with it; `PromisesHold` gets
  the rest from these two facts.
* *Steps.* The later invariants are about the same few things that a step can do, so
  `HistoryProofs` says it once: to a safekeeper (`Keeps`, `Appends`, `Adopts` a history, `Restarts`,
  restarts in the middle of adopting one), to a connection, to the answers on their way, to a
  walproposer, and that winning is the one step that makes a new history (`Wins`). Each action is shown to be such a
  step; what follows argues about these cases and not about handlers.
* *Histories.* `HistoryInv`: every history that is anywhere (control file, announcement, vote,
  elected walproposer; `IsKnown`) is well formed and has only terms that were won, any two of them agree up to a
  term they share, a safekeeper's term is not below its history, and a vote that is given comes
  from WAL of lower terms. It is inductive because a winner takes the history of a vote and adds a
  term that, by `ElectionSafety`, is in no history yet.
* *Acknowledgements.* `AckInv`: on every connection WAL comes after the announcement of its term,
  unless the safekeeper follows that term already or has gone on to a higher one (`QueuesInOrder`,
  `ActiveFollow`), and live connections carry only what their walproposer sends in its
  term (`LiveIsOwn`). So WAL is acknowledged by a safekeeper that follows the term, and there a late
  announcement of the term finds its own history and cuts nothing flushed (`SameTermNotCut`); that is also all that
  `PromisesAreKept` needs.
* *WAL.* `WalInv` adds that WAL on its way is what any history with its term says about it, and
  that the history behind a vote, and behind the donor of an elected walproposer, is still the one in the
  control file, until the safekeeper follows the walproposer it voted for. What is read from
  a donor is therefore what walproposer's history says, and cutting at the divergence
  point leaves WAL that both histories describe alike (`TruncationKeepsTerms`).
* *Assertions.* `WithinInv`: whatever safekeepers have, is announced, streamed or voted for in the term of
  an elected walproposer ends within the WAL that it has. At the moment of winning there is
  nothing of the term yet, and streaming starts at or below the start of the term.
* *Commit.* An LSN is committed when a quorum has acknowledged it, but the acknowledgements come one by one and
  another walproposer may be elected between the first and the last. `Durable(g, c, gen)` is
  therefore about what *may* still be committed: some quorum of which each member either has
  acknowledged WAL of history g up to c, and then has it on disk in whatever history it follows, or
  has not yet entered a higher term. A later winner has a vote from a member of that
  quorum; the vote is given after that member entered the later term, so the member had the WAL by then, and the
  winner takes the highest history there is among the votes, which has it too (`Covers`, `Protects`). `CommitInv` adds
  that whatever a leader may count up to is durable in this sense (`LeadersCommit`) and that the log of the ghost
  variable is (`LogIsSafe`). `CommitNext` shows as well that `committed` only ever gets longer.
* *commit_lsn.* A safekeeper learns commit_lsn from its walproposer, from a walproposer that is not the
  latest any more, or from a peer. `ReplicaInv`: an `AppendRequest` has a commit LSN that some history of its term makes
  durable (`Backed`), what a peer has published matches the log in every history that has the term in which the
  peer's WAL ends (`Settled`), and the history of a safekeeper describes the log below its commit_lsn (`FilesInLog`,
  `Matches`). A safekeeper takes an LSN from a message only in the term it follows, and from a peer only when both end
  in the same term, which is exactly what the two cases need.
* *WalService.* The log of the abstract specification is `committed`, what a safekeeper serves
  and has saved are the parts of its WAL below the two commit LSNs. Every step is a step of `WalService` or a stutter: a
  commit extends the log (`CommitNext`), everything else moves one safekeeper within it.
* *Horizons.* A truncateLsn is the least LSN that all have acknowledged, cut at commitLsn, and travels from there in
  messages, control files, votes and the memory of later winners (`IsHorizon`). `Kept(l)`: all safekeepers have the WAL of
  a durable history up to l. It is stable, for the same reason that durable WAL is, so it
  is enough to show it when a horizon is raised; there an acknowledgement that is old is still true (`LeadersHold`). A
  sync that finds nothing to recover ends at such a horizon (`WinnersHorizon`).
* *Deletion queue.* "This layer is in no index of the latest generation" is not stable: an attachment may load an old
  index and write it again in its own generation. A layer is `Retired` when neither the index that attachments
  load nor any shard whose generation is at least that of the index refers to it, and an LSN is `Loadable` when all of these reach it. Both
  sets only grow, under every step of every node (`WorldLoads`, `WorldWorks`, `WorldUploads`, `WorldIssues`; a generation belongs to one
  node, and an older node writes an older index). A list that waits names retired layers *if* its generation is the
  latest (`Claim`), which is why a valid answer may be used however late it comes (`AnswerHolds`), and why `recover` may lift a list by
  one generation when the shard stayed on the node. So the proof is in two halves that meet only in these two sets: `World` for shards,
  indexes and objects, and `NodeInv` for one queue with its disk. For the disk, `NodeInv` says that lists of one number
  have one content in memory and on disk (`Matches`), that all other lists on disk name retired layers
  unless a write has failed (`DiskIsSound`), after which the header is not written any more, and that numbers grow from the
  validated lists to the one being filled (`InSequence`).
* *SeqWait.* The heap and the sleepers are two views of the same waits that cancellation and a
  time-out change at different moments; the invariant relates them, entry by entry.

TLC checked the invariants on the scenarios of `one_compute`, `two_computes` and `recovery`, that of the deletion queue
on those of `remote`, before they were proved.

Only model-checked: `NeverTruncatesCommitted`, which a late `ProposerElected` violates in general
(finding `late_elected`) and which holds in the scenarios without one; `CommonPointIsDivergence`; of the other
modules everything except the theorems about `SeqWait` and `DeletionQueue` (where `remote` checks the conjuncts of
`DeletionsAreValid` and `NoStepTooEarly` that they state). Out of this prover's reach, and left to TLC for good: liveness
(`NeverStuck`, `SoleComputeCommits`, `WaitsReturn`, `FlushesEnd`, `ReconciliationSettles`,
`WalIsOffloaded`, `AllIsDelivered`), `ENABLED`, and induction over the length of data.

## Not modelled

* Consensus: timelines that a first greeting creates without a start LSN (`Lsn(0)`
  initialisation in `handle_elected`); walproposer with generations disabled; `term_bump` to a
  chosen term (only to the next one); more than one stale connection per pair; leaving a joint
  configuration, and the storage controller's migration procedure.
* Data algorithms with no state of their own: decoding WAL, page reconstruction and WAL redo,
  wire formats, key encodings, size calculations.
* I/O layers: virtual files, io_uring, clients of object storage, HTTP routes, metrics.
* What `PROJECT.json` lists as `not_modelled`, with the reason for each part, and what the notes
  of the parts that are modelled `partly` name.

## Plan

1. Membership migration: the storage controller's procedure composed with
   `MembershipSwitch`, through the joint configuration and out of it; peer recovery and
   `pull_timeline` as its means.
2. Pageserver: tenant slots, timeline creation and deletion, detach from an ancestor, shard
   splits; the layer file life cycle.
3. Storage controller: leadership, splits and the policies that `Reconciler` leaves out.
4. Proofs: `ElectionSafety` through a whole migration once its procedure is modelled;
   the order of uploads in `UploadQueue`.
