# A TLA+ verification of fluent31

fluent31 is an embedded key-value engine: an LSM tree whose large values live in
a separate value log, with MVCC snapshots, optimistic transactions, group commit,
crash recovery, and, on top of that, a stream of committed writes (read by edge
replicas, a mutation journal and GraphQL feeds), triggers and forks. The modules
here are translated from the Rust source under `crates/`; `PROJECT.json` maps
every definition to the lines it stands for.

Contents: the system; the modules and how they correspond to the code; the
runs; the hazards and findings; the proofs; what is left out; the plan.

## 1. The system

| part | source | state | operations |
|---|---|---|---|
| LSM tree and reads | `memtable.rs` `version.rs` `iter.rs` | memtable, frozen memtables, levels of runs, a run's key-disjoint fragments | point lookup (first source with a hit, newest first), merged scan, `latest` for validation |
| Tables and blocks | `table/` `block.rs` | blocks of sorted entries, an index per table | binary searches, seeks in both directions |
| Compaction | `compaction.rs` | scheduler: active job, suspended jobs, their merge cursor and partial output | pick (tier merge, deepen, bottom splice), preempt, slice, install |
| Snapshots | `db.rs` `SnapshotList` | seqno -> number of holders | register, register at a past seqno, deregister, watermark |
| Flush and stall | `db.rs` | the frozen queue, `bg_error` | rotate, `flush_one`, wait for space |
| Group commit, transactions | `db.rs` `txn.rs` `batch.rs` | commit queue, waiters, committer's drain and chunk, `visible_seqno` | begin, commit, write, drain, validate, apply, deliver, bail out |
| WAL, manifest, recovery | `wal.rs` `manifest.rs` `db.rs` | files on disk, active WAL, floor, id counter | append, sync, rotate, manifest commit, open, replay, truncate, sweep |
| Value log and GC | `vlog.rs` `compaction.rs` | head, live map, retired files | place, rotate, relocate, retire, release, unlink |
| Pins | `db.rs` | durable snapshots in the manifest | pin, unpin, reload at open |
| Forks | `fork.rs` | archives | cut, link, publish by rename, restore |
| Stream and slices | `db.rs` | per-subscriber buffers, their pins | subscribe, offer, receive, resolve, cut a laggard, describe a slice |
| GraphQL feed | `fluent-graphql/src/subscriptions.rs` | the pump's hold, the commit it has pinned, items under way | attach, pin a commit, roll the hold, end |
| Edge replica | `edge.rs`, `fluent-replication` | fragments, overlay, frontier; the driver's connection | attach, subscribe, pull, install, apply, re-sync, re-attach |
| Journal | `journal.rs` | log files: header, base, deltas | attach, append deltas, heal a lag, compact, prune, rebuild |
| Triggers | `trigger.rs` | definitions, durable event queues, backoff | capture, create, delete, drain, retry, clear orphans |
| WASM host, server, GraphQL schema, CLI | `wasm/`, other crates | scan handles, sessions, instances | scans in batches, request mapping, guest execution |

How they meet. Writers reach the tree only under `write_mu`, either the
committer thread on behalf of a group (sync mode Always) or the caller itself
(the relaxed modes), or the GC pass. A full memtable is frozen inside that
critical section; the flush thread turns frozen memtables into L0 runs and
moves the WAL floor in the same manifest write; the compaction thread merges
runs, and all three wake one another through signals polled with a timeout.
Readers take a `ReadView` (pinned memtables and version) and may register a
sequence number, which holds down the watermark that compaction and value-log
GC respect. `bg_error` is a one-way flag any of these threads can set: the store
degrades and refuses writes until it is reopened. Subscribers are fed inside
the write critical section; the journal, the edge replicas and the GraphQL
feeds hang off that stream, each with a snapshot that moves as it reads.
Triggers add their events to the batch that causes them and drain them by
ordinary transactions.

What is hard. Jobs suspended over a changing tree; a watermark loaded before the
snapshots it must respect have gone or come; transactions that meet inside one
fsync group; a batch that fails after it has a number; callers that time out
while the committer holds their batch; a crash between any two file operations,
also during recovery; a value moved by GC while its key is overwritten and its
old file is still being read, queued for a subscriber or linked into a fork; a
replica that subscribes, pulls and applies in an order only the master's flushes
decide; a journal whose base and deltas overlap; an event that arrives while its
queue is drained, cleared or abandoned; a cursor under which the memtable grows.

What makes each part correct, in one line each:

* tree: every state somebody may still ask for reads as it was written;
* compaction: invisible to readers, terminates, and never needs to look at
  anything but its pinned inputs;
* cursors: a scan shows its snapshot exactly, in either direction, and a point
  read finds what a scan would;
* commit: first committer wins, numbers without gaps, true answers, everybody is
  answered;
* durability: what was promised survives, what is recovered is a prefix, no
  pointer dangles, and a crash never makes the store unopenable;
* forks: an archive is the state at its cut, complete, or absent;
* stream, feed, edge, journal: gap-free or told of the gap; one state of the
  source and not a mixture; never behind a frontier already announced;
* triggers: every touch is eventually processed, each effect once.

## 2. The modules

`Versions` has the two pure decisions about multi-version records: what a reader
at a sequence number sees (`NewestAt`) and what a compaction keeps (`Kept`, the
keep decision of `run_slice`).

`SnapshotStore` is the abstract specification: a history of commits, the current
state, and snapshots that show one point of the history until closed. It has no
tree, no flush and no compaction in it.

`LsmTree` (with `Versions`) is the tree of one open database. A write is two
steps, `WaitForSpace` (the stall) and `ApplyLocked`; `ForceRotate` and `FlushOne`
are the rotation and the flush thread; `RegisterSnapshot`,
`TryRegisterSnapshotAt` and `DeregisterSnapshot` are the registry. A compaction
pass is `StartPass`, then `Preempt` / `ScheduleFresh` / `ScheduleSuspended` (one
`Scheduler::step` each), `StartRewrite` (where the watermark is loaded),
`RunSlice` (one user key at a time, may stop after any) and the install at its
end; `StartDeepen` adds a level. The tree refines `SnapshotStore`: `current` is
what point lookups return now and `views` what each holder's lookups return
(`ImplementsStore`). Sizes are counted in versions. A bloom filter may say yes
about a key that is not there, so the tombstone decision has both outcomes
then. The store's options are a variable, `opts`, chosen at the start from
`OptionSets`, so that one run checks several stores.

`GroupCommit` is the commit path. Each client makes one request, a batch or a
transaction with a write set and a lock set, and goes idle → open → admitted →
parked → returned. The committer drains the queue, cuts a chunk (`FormChunk`,
after any waiter: the byte cap is abstracted), validates and applies it in one
critical section (`CommitGroup`), and delivers one result at a time
(`Deliver`). `DirectCommit` is the relaxed modes' path and `Relocate` GC's.
Failures of validation reads, of the append of any batch, of the sync and of the
rotation after publishing are all outcomes of one `ApplyGroup`. `wal` records
what was appended, `commits` what was published; the two differ after a failed
sync. Sequence numbers count batches.

`Durability` is the files. A WAL and a value-log file are sequences of records
with the number of fsynced ones. Crashes are of two kinds. A power loss (`Crash`) keeps what is on the
disk, perhaps more, and perhaps part of one more record of a WAL; the death of the
process alone (`Kill`) keeps everything written but for part of the record under way,
and recovery takes what it then finds in the page cache for durable. `cached` says how
much of such a file really is, and `exposed` that a later power loss took the rest. The
write critical
section is two steps, `Write`/`Relocate` (payload, then WAL record) and `Publish`
(fsync, insert, acknowledge, rotations), so that a crash can fall between them. Either
rotation can fail after the write is published: that of the WAL (`PublishRotateFails`),
or that of the value log once its head has been swapped (`PublishHeadFails`), which
leaves a head that `Version::vlogs` lacks (`unlisted`) for a late writer and a running
GC pass to go on using.
`Flush`, `PinBarrier`/`PinCommit`/`Unpin`, `StartGc` … `Unlink`, `OpenReplay`,
`OpenComplete` and `StartupGc` follow the code's order of file operations; a
manifest commit is atomic because it is a write to a temporary file and a
rename. Values are named by the write that brought them, so a relocation is seen
to carry the right one. A replay is a set of places in the log (`Replay`): the
records of the WALs from the floor up, in order, and a mark where a file ends in
bytes that are no record; it takes the places before the first it cannot take
(`ReplayEnd`, `Taken`). The history is `acked` (what readers were shown),
`promised` (what no crash may take) and `gray`: batches in a log that no caller
was told of, which a recovery may bring back. `Truth` is what a reader may
therefore find for a key: the last acknowledged value, or that of a failed write
after it which was brought back. As in `LsmTree`, `opts` is one of `OptionSets`.

`Forks` extends `Durability` with `fork.rs`: flush and wait (`ForkBegin`,
`ForkDrained`), the cut under the manifest lock (`ForkCut`, at the flushed head
or at a point GC has not passed), the links and the one rename that publishes
them (`ForkPublish`). A point cut writes one new table with the newest version
of each key; a head cut links the tables of the view. Both link the value-log files that
the view lists, so an `unlisted` file is missing from the archive.

`Stream` is the committed-write stream and one subscription to it: `Commit` and
`Publish` (the two halves of a group commit that a subscriber can tell apart),
`Offer` with its overflow rule, `Drain` and `Resolve` (the two halves of
`recv_timeout`), and beside them value-log GC on single records (`Retire`,
`Reclaim`) held back only by the watermark. A history is a sequence of ops and an
epoch one life of it: a replaced master, or a crash that lost an unsynced tail,
continues a prefix under the same numbers. Three consumers extend it:

* `Feed`, the GraphQL subscription pump: one registered snapshot per commit that
  has an item, a rolling hold between batches, a bounded channel, and a client
  that reads through the item it holds.
* `EdgeReplica`: the edge store (version, overlay, frontier), the driver thread as
  a program counter (`open`, `pull`, `snap`, `fetch`, `announce`, `run`,
  `advance`), the server's forwarder with its bounded channel, and the master's
  flushes and compactions that change what a pull finds. `CompactTree` keeps what lies
  above the watermark and the newest of each key's rest, and may drop any tombstone at or
  below the watermark; the watermark follows what the subscription has resolved, not what
  the replica has received. `Remint` replaces the master by a fork or a restored prefix of
  itself, with a new instance id; `MasterCrash` loses an unflushed tail, streamed or not,
  and keeps the id. An instance is therefore named by the latest of its lives.
  `FetchTorn` is a local write that fails half way.
* `Journal`: the drainer as a program counter, log files as records with an fsynced
  length, the rotation that a base snapshot may not be split by, pruning oldest
  first, lag healing, `Detach`, failures, crashes with torn tails, and `Rebuild`
  as a function of a directory. The properties quantify over every directory a
  crash could leave now (`Images`), not only over those of the crashes that
  happen.

`Trigger` keeps the store as the sequence of its states by commit, so that a
transaction's snapshot is an index, a crash keeps a prefix, and a conflict is a
queue key written by a later state. `Write` captures; `CreatePersist` …
`DeleteClear` are the admin calls one store write at a time; `Discover`, `Pack`,
`Attempt`, `GuestFails`, `DrainCommits`, `DrainConflicts` and `BackoffOver` are the
runner; `OrphanScan` and `OrphanClear` the collection of abandoned queues. What a
module does with an event is which ops it has taken into account.

`Cursors` reads one view: blocks, tables, runs and the live memtable with their
cursors, `MergeIterator`, `MvccForward` and `MvccReverse` (`ForwardTurn`,
`ReverseTurn`: one turn of their loops), the prefetch window of `DbIterator`, the
transaction's own writes over it (`TxnIter`) and the scan handle from which a
WASM guest pulls batches, while a writer inserts. Point reads take the
same blocks apart by the code's binary searches.

The modules ending in `Proofs` hold the theorems; section 5 says which rests on
which.

`MCLsmTree`, `MCGroupCommit`, `MCDurability`, `MCTrigger` and `MCCursors` give the
instances their constants. `MCConsumers` composes the stream with its consumers,
one attached at a time (`mode`): several subscriptions of a store share nothing
but the watermark, which each consumer's own holds already exercise. Definitions
that no `Next` uses and whose comment says what is wrong with them
(`BailAnyway`, `PinAfterLeaping`, `RepairedNot`, …) are the deliberate faults each
property is tried against.

## 3. The runs

Bounds are chosen so that the cases named in the table occur; every disjunct of
each next-state relation fires in a passing run. Deadlock checking is off in all
of them, since a behaviour ends when its bounds are used up.

| run | instance | what it shows |
|---|---|---|
| `lsm` | four stores. *Splicing*: 2 keys with puts and a delete, one reader, 3 numbers, one-version memtables and fragments, 2 levels. *Sharing*: two holders that may share a number. *Deepening*: batches of two, levels grow 1 → 3. *Stalling*: two writers, 4 numbers, 3 levels of tier width 1, one I/O failure; `FairSpec` | `RegistrableStatesIntact`, `SnapshotsMatchHandles`, `RecencyOrder`, `FragmentsOrdered`, `ConflictsStayVisible`, `JobsInPlace`, the refinement `ImplementsStore`, and `StallEnds`, `PassEnds`. Three writes are what a splice past an intermediate run needs to go wrong; with four, two merge into a level-2 job and two more fill L0 while it is in its first slice |
| `commit` | 2 clients, both halves of a write skew, a locks-only footprint and an oversize one, 3 numbers, both commit paths, GC, failures, panics and a close at any time; `FairSpec` | `FirstCommitterWins`, `SeqnosContiguous`, `AppliedOnce`, `AnswersAreTrue`, `RequestNumbersUnique` (two different requests never share a number in the WAL), `CallsAnswered` (without a panic every call returns), `CloseCompletes`. Two clients give a chunk of two and a chunk with a waiter behind it |
| `commit_panic` | 2 clients, one key, panics, `FairSpec` | finding: `CallsReturn` |
| `commit_seqno` | 2 clients, one key, GC and failures | finding: `WalSeqnosUnique` |
| `durability` | eleven stores, both sync modes: power losses (1 key, 2 batches, 2 crashes, 1 failure: the second crash may fall into the recovery from the first); kills and power losses in turn; a value-log rotation that fails beside a late writer or a fork, in one-record files; GC with a pin and a crash, one-record value-log files; GC of one key while another is written; 3 batches of inline and separated values under GC without a crash; a fork at the head or at a pin during GC | `PromisesKept`, `RecoversPrefix`, `ReadsResolve`, `DamageNeedsFailure`, `ArchivesAreCuts` |
| `durability_seal` | the two crashing stores of `durability` | finding: `ReopenSucceeds` |
| `consumers` | 3 keys, 2 in scope, a queue of 2; a plain subscriber with 4 numbers, a feed, an edge replica and a journal with 3. Edge: a channel of one frame, key 1 put and deleted in turn, one fault (a broken connection, a crashed or replaced master, a compaction that may drop tombstones, or a failed local write). Journal: one crash, failure, detach or compaction; files of 4 records. `FairSpec` | `SubscriptionGapFree`, `StreamResolves`, `FeedSnapshotsHold`, `FeedIsGapFree`, `EdgeViewIsACut`, `EdgeNeverGoesBack`, `JournalAlwaysRebuilds`, `JournalKeepsReported`, and convergence: `ReplicaConverges`, `JournalConverges`. A queue of 2 overflows with one two-op commit behind another |
| `edge_get` | an edge replica, 2 numbers | finding: `EdgeGetCoversFrontier` |
| `journal_overlap` | a journal, 2 numbers | finding: `JournalRebuildsACut` |
| `trigger` | 2 keys, commits of one op and of two, drains and clears of one event, 2 attempts, 3 ops, 3 admin calls (created, deleted, created again; or a module replaced), a guest failure and a crash; `FairSpec` | `TouchesKept`, `ChangesExactlyOnce`, `QueueDrains` |
| `trigger_recreate` | the same without failure and crash | finding: `TouchesKeptAfterRecreate` |
| `cursors` | every history of 4 ops on 2 keys, cut into two runs of which the older has up to three entries, under a memtable of one entry or none; blocks of 2, tables one or two keys wide; batches capped at 1 and 3; an insert, a read error, a prefetch window of 1, every range and both directions, with and without writes of the transaction's own | `ScansAreExact`, `GetsAgree`. A run of three entries is a table of two blocks or two tables: three versions of a key, or two of one and one of the other, straddle a block edge, and a batch packs two entries |

Why the bounds are enough: at these bounds every action and disjunct fires, and
each property finds the deliberate fault it is paired with in `PROJECT.json`. Keys
matter to the code only by their order and equality, clients only by the conflicts
between their footprints, and capacities only by being reached, so two or three of
each produce the cases; the parameters whose size does matter (levels, tier width,
queue and file capacities, retries) are varied over the stores of a run or set so
low that the limit is met.

Fairness.

* `LsmTree!FairSpec`: weak fairness of `FlushOne` and of the compaction thread's own
  steps. Both threads loop and poll their signal with a timeout, and neither step
  waits for a writer. A pass forced by `compact_all` starts only if somebody
  calls it, so `StartPass(TRUE)` is not fair.
* `GroupCommit!FairSpec`: weak fairness of the committer's loop (same timeout) and of
  a client in the middle of a call (a parked client polls every 100 ms).
* `MCConsumers!FairSpec`: weak fairness of `Publish` (the end of a critical section),
  of the server's forwarder, of the edge driver, of the flush that the master
  performs before it describes a slice, and of the journal's drainer. All are
  threads that loop; the driver's retries have an endless budget in `run_loop`.
* `Trigger!FairSpec`: weak fairness of the runner (it polls with a timeout, backoff
  is a deadline that passes) and of an admin call once begun.

No fairness is assumed of clients making requests, of failures, panics, crashes,
closing, compaction requests or GC.

## 4. Hazards and findings

`PROJECT.json` lists the hazards with the properties aimed at each. Six
disagreements between the code and what its documentation or comments say were
met while modelling and have a run each, whose counterexample shows it; five more
follow.

* `commit_panic`. The committer takes the whole queue and works through it chunk
  by chunk; the unwind guard knows the current chunk only. After a panic, clients
  whose waiter is in a later chunk are in no queue, so polling `bg_error` does not
  help them: they never return. (`CallsAnswered` shows that a panic is the only
  way to this.)
* `commit_seqno`. `gc_vlog` checks for degradation once. If a group's WAL sync
  fails afterwards, its unacknowledged records stay in the WAL and the running GC
  pass writes its relocations under the same numbers.
  (`RequestNumbersUnique` shows that user requests never do.)
* `durability_seal`. `force_rotate` does not check for degradation and so seals a
  WAL with a torn remnant; and a rotation that fails after the new file exists
  leaves an empty WAL newer than the active one. In both cases a torn tail ends
  up in a WAL that recovery takes for sealed, and the store refuses to open.
* `edge_get`. A replica's point read asks the overlay first and the fragments only
  on a miss. A batch older than the installed slice, applied late, answers until
  its successor arrives, although the frontier has passed it. Scans merge by
  number and go wrong only in the two cases below (`EdgeViewIsACut`).
* `journal_overlap`. The base is cut after the subscription, so the first deltas
  repeat what it contains. A journal that ends inside the overlap rebuilds to a
  base with older deltas over it, a state the source never had. Once the deltas
  reach past the base the rebuild is exact (`JournalKeepsReported`).
* `trigger_recreate`. Clearing an orphaned queue is a scan followed by a blind delete,
  without the admin lock; a trigger created again in between loses the event of a
  touch captured then. Without a predecessor of the same name no touch is lost
  (`TouchesKept`).

Five more bound what the passing runs can claim, and the properties there say so. Each
has a configuration of its own beside the runs, whose one invariant quotes the claim it
refutes (`tlc -config MCDurability_kill.cfg MCDurability`, and so on), and takes TLC
seconds to a minute.

* *A head no version lists* (`MCDurability_degraded.cfg`, `DegradedStoreServes`).
  `rotate_vlog_locked` swaps the head before `sync_dir` (`db.rs:1122`) and lists the new
  file in `Version::vlogs` after it. If the sync fails, a writer past its check, or a GC
  pass under way (`compaction.rs:849` checks once), publishes pointers into a file that a
  lookup refuses as unknown (`db.rs:350`), until the store is reopened.
  `docs/p/durability.md:29` says that reads of a degraded store "keep serving what is
  there". The values are on disk, which is what `ReadsResolve` and `ArchivesAreCuts`
  still require of the files in `unlisted`.
* *Payloads in the page cache* (`MCDurability_payload.cfg`, `PayloadsBehindTables`). After
  the process alone has died, recovery replays records whose payloads were never fsynced,
  and `flush_one` fsyncs only its own new head (`db.rs:1173`): the manifest then names a
  table whose values a power loss can take, against `DESIGN.md:246`, "no durable SST
  pointer without a durable payload, in every sync mode".
* *A WAL in the page cache* (`MCDurability_kill.cfg`, `CrashesDoNoDamage`). Recovery
  fsyncs a replayed WAL only if it cut a torn tail off, and then creates a newer one. A
  power loss now can tear the older, and every later open is refused (`db.rs:2399`)
  although no call ever failed; `docs/p/durability.md:23` says "In every mode the store
  reopens consistent". `PromisesKept`, `RecoversPrefix`, `ReadsResolve`,
  `DamageNeedsFailure` and `ArchivesAreCuts` hold while not `exposed`, that is until a
  power loss takes something a killed process had left in the page cache. Kills alone,
  power losses alone, and a power loss that takes nothing of that kind are all covered.
* *A revived key* (`MCConsumers_edgescan.cfg`, `EdgeScanCoversFrontier`). A put and the
  deletion of its key are resolved and under way to the replica; compaction drops the
  tombstone (`compaction.rs:437-441`; the pin moved at `db.rs:2964`); the replica pulls a
  slice that covers both and shows neither, and then applies the put
  (`edge.rs:374` does not filter by the watermark). Until the deletion arrives a scan
  shows the key, against `docs/p/replication.md:20`, "Overlap is harmless because entries
  carry seqnos". `EdgeViewIsACut` excepts exactly these keys (`Revived`).
* *Lost history* (`MCConsumers_phantom.cfg`, `EdgeShowsNoLostHistory`). In a relaxed mode a
  tail is streamed before it is durable. A crash that loses it keeps the instance id
  (`identity.rs:12`), so the replica re-subscribes as to the same history, and
  `install_slice` (`edge.rs:331-341`) keeps the lost records of its overlay, although
  `docs/p/replication.md:19` says "Stale history is never served". The edge properties
  except a store this has happened to (`phantom`).

Two more conditions in the properties mark what the code does not promise. A torn local
copy of a fragment stays under its name and blocks every later pull of it, so
`ReplicaConverges` excepts that case (`Poisoned`); and a trigger whose module is
missing or of the other kind, or that was created over the residue of an earlier
one (`clean`), is not required to drain its queue.

## 5. The proofs

Each theorem holds for every value of the constants that satisfies the named
assumptions of its module, with every failure, crash and interleaving of the
model allowed. Safety follows one scheme: an inductive invariant, one lemma per
action that it is kept, and the properties of the runs as consequences.

| module | extends | theorems |
|---|---|---|
| `GroupCommitProofs` | `GroupCommit` | `TypeCorrect`, `ConflictsDetected`, `NumbersContiguous`, `RequestsAppliedOnce`, `CallersAreToldTheTruth`, `RequestNumbersNotReused` |
| `SortedProofs` | | lemmas on finite sets listed in order and on concatenation |
| `LsmTreeProofs` | `LsmTree`, `SortedProofs` | `TreeAlways`, `TreeTypes`, `AcceptedStatesReadRight`, `RegistryCountsHandles`, `ReadOrderIsRecency`, `FragmentsStayOrdered`, `ConflictsAreFound`, `JobsFindTheirInputs`, `TreeImplementsStore` |
| `ConsumerProofs` | `MCConsumers`, `SortedProofs` | `StreamAlways`, `ConsumersUseTheStream`, `StreamLosesNothing`, `StreamAlwaysResolves`, `FeedAlways`, `FeedNeverLosesASnapshot`, `FeedLosesNothing`, `EdgeAlways`, `EdgeView`, `EdgeStaysForward` |
| `TriggerProofs` | `Trigger`, `SortedProofs` | `TriggerAlways`, `TriggerTypes`, `TouchesAreNeverLost`, `FeedTakesEffectOnce` |
| `DurabilityProofs` | `Forks`, `SortedProofs` | `FilesAlways`, `FilesAreTyped` |
| `LogProofs` | `DurabilityProofs` | `LogAlways`, `PromisesHold`, `RecoveryIsPrefix`, `DamageIsFailure` |
| `ReadProofs` | `LogProofs` | `ReadsAlways`, `ReadersResolve`, `ForksAlways`, `ArchivesAreWhole` |

### Group commit

Assumed: `CommitAssumption` (finitely many clients, footprints are pairs of key
sets, the switches are Boolean).

`FirstCommitterWins` and `SeqnosContiguous` are not inductive alone. The
invariant is `TypeOK /\ Shape /\ History`: `Shape` ties the committer's variables
together (while a group is in flight, `results` is as long as `group`), and
`History` is the two properties. Contiguity is needed for the conflict rule: a
new batch gets a number above every committed one, so the rule can only break
with the new transaction as the later of the pair, which validation rules out,
against the store for batches committed before (`StoreConflict`) and inside the
chunk for those committed with it (`Passes`). The arithmetic of a group is in the
lemmas on `Rank`; `GroupHistory`, `DirectHistory` and `RelocateHistory` are the
three ways to publish.

For the callers, `Waiters` is added: a waiter is in at most one of queue, drain and
chunk, once, and its client is parked without a result (`Places`); a request
nobody has tried to apply has left nothing in the WAL (`Untouched`); results in
delivery, in a slot and returned are what happened (`Answers`); and a request has
one record, and once a group has left records it did not publish, the degraded
store applies no request any more (`Records`). The last part is why a number in
the WAL can be used again by a relocation only, never by a request.

### The tree

Assumed: `OptionsAssumption` (finite non-empty `Keys`, finite `Readers`, options
with positive capacities).

*Reads as sets.* `FirstHitIsNewest` shows that a lookup that asks sources newest
first and stops at the first hit finds the newest visible version of their
union, if every source is newer than those behind it. `LookupIsScan` therefore
turns `GetVersioned` into `NewestAt` of one set of versions, `Children`, and
everything else is about that set. `FragmentHolds` is the same for the binary
search in a run.

*Merging.* `MergeKeepsReads` is the heart: replacing the inputs of a merge by
what `Kept` retains at a watermark changes no read at or above it, whatever
newer and older versions surround the inputs and whichever way a bloom filter
errs about the older ones. `SliceProgress` carries it through slices that stop
after any key.

*The invariant.* `TreeInv` is the conjunction of

* `Whole`, `Memory`: fragments and runs in order, ids distinct, memtable over
  frozen memtables over runs, each newer than the next;
* `Handles`: the registry counts the handles, none of them beyond `visible`;
* `History`, `Unharmed`: what is gone from the tree lies at or below `Floor`, the
  smallest registered number or `visible`, and no state from `Floor` on misses it;
* `Slots`, `Nested`: which job slots each phase fills; suspended jobs belong to
  ever higher levels, and a job of the bottom is picked only with none suspended;
* `InPlace`: the inputs of every job picked, active or suspended are at the back
  of its level, with what it was to find behind them;
* `UnderWay`: per job, its output is `Kept` of the keys it has finished (`Progress`)
  and what its watermark lets it drop lies at or below `Floor` (`Covered`).

`Floor` only rises (`FloorRises`), because `TryRegisterSnapshotAt` refuses what is
below the watermark; hence a watermark loaded at the start of a job stays valid
however long the job is suspended. `Nested` is needed because a suspended job is
resumed over a tree that upper-level jobs have changed: they push runs on the
front of its level and leave its inputs at the back (`PlacedStays`).
`TierInstalls` and `SpliceInstalls` are the two installs.

*Consequences.* The six invariants of the run, the types, and the refinement
`TreeImplementsStore`: with `ShowsHistory` (what lookups return now and for each
holder is the state of `log` at that number), a write is `Commit`, a registration
`Open`, a deregistration `Close`, and every other action a stutter.

### Files, the log and recovery

Assumed: `DurabilityAssumption` (the options are of their types and no run writes
more than `MaxSeq` batches, which is any number). The theorems are about
`ForkSpec`, the store with forks being made beside it.

*Files.* `FilesInv` says which files there are: their types, what each phase has
nothing of (`Phases`), that ids are handed out once and in order (`Ids`), that only
the active WAL and the head have an unsynced tail (`Sealed`), and that every
value-log file a manifest, a version or a GC pass names is on disk, and none of
those is released (`ValueFiles`). The last part is what makes `Unlink`, the start-up
sweep and a recovery that crashes halfway safe with one another: a young file, one
above the manifest's head, survives until a manifest adopts it. `FilesInv` holds through
every crash. What follows about the log, readers and forks holds while not `exposed`
(section 4), and the theorems say so: `LogHolds`, `ReadHolds` and `ForksHold` are
`LogInv`, `ReadInv` and `ForkInv` under that condition. It is not a condition on the
crashes: kills and power losses alternate freely, and only a power loss that takes
records a kill had left ends it, because recovery treats those as fsynced.

*The log.* `LogInv` speaks of `Place`, the records a replay would meet if the store
crashed now:

* `LogOrder`, `LogAbove`, `LogBelow`: numbers never fall along the log, and in the
  relaxed modes they rise, because only there a failed write keeps its number;
  everything lies above the flushed point, and what is in flight is the last record;
* `LogKnown`: a replay takes only what was acknowledged or is `gray`;
* `Pointers`: a record's pointer leads into a file that is adopted and not released,
  above its retirement, and in Always mode at a payload that is fsynced;
* `Contained`, `FrozenLogged`, `MemLogged`, `OpenedLogged`: what readers see is in the
  tables or is the latest record of its internal key in a WAL that outlives its
  memtable;
* `Durable`: what was promised and is not flushed has a latest record that is `Safe`,
  which is that everything up to it is fsynced, payloads included;
* `Lost`, `PinsCovered`, `Torn`: what a relaxed crash took lies above all that is left; a
  durable pin lies below something promised; and without a failed call a torn WAL
  is the newest, or lies behind a lost payload.

*The argument.* A crash may cut any unsynced tail and any unsynced payload, so the
first place replay stops at (`LeastBad`) can be anywhere in the log but not in front
of a `Safe` place: that one is taken, and being the latest of its internal key it is
kept. This gives `PromisesHold`. `RecoveryIsPrefix` needs the opposite direction, that
whatever lies behind the stop is above everything before it: in Always mode
nothing acknowledged is lost at all, and in the relaxed modes it is `LogOrder`.
`DamageIsFailure` goes through the reasons to refuse an open one by one: a torn WAL
that is not the newest (`Torn`), a pointer into a file nobody knows (`Pointers`), a pin
above the recovered state (`PinsCovered`).

*What the proofs corrected.* Definitions of the model were wrong beyond the bounds of
its run, and steps that could not be proved showed it; TLC confirmed each on a larger
instance. `gray` forgot a failed record when another append failed, or when a recovery
had brought it back behind a later record of its key, although it was still there:
with three failed calls it came back as if never written, and after a second crash a
relocation that had rightly passed it over seemed to carry a stale value. And
`ReadsResolve` compared a read with the last acknowledged write alone, although a
recovery may show a later write that failed at its fsync and that GC has since moved.

### The value log, readers and forks

Over `FilesInv` and `LogInv`, for the same `ForkSpec`. `Facts` collects what those two say
about records, so that the proofs here open neither.

*Readers.* `ReadInv` follows a value from the file it was appended to until that file
is deleted:

* `Bytes`: a pointer, of a reader or of a record in a WAL, leads to its own key and
  value as long as its file is there, and to fsynced bytes once it is in a table;
  `Fresh`: no later file takes the id of one that a table still points into;
* `Unique`, `Truthful`: readers see one record per internal key; a relocation carries the
  value the users wrote last, except for a write that failed and that a recovery
  brought back behind the relocation's back;
* `Confessed`: only a degraded store has records in its log that nobody
  acknowledged. A pass that runs beside one could miss a live value;
* `GcPass`, `Retirements`, `Reachable`: what a pass has gone through is superseded by an
  acknowledged record, after the barrier by a promised one, and once the file is gone
  by one in the tables at or below every registered snapshot, pin and hold.

All of it is said of `vmap`, the files of this life that are not released, and not of
`InVersion`, the ones a reader can look up: with a value-log rotation half done the
newest pointer may lead into an `unlisted` file, which is on disk and holds the value
(`ReadersResolve` tells the two apart, and a pass never takes such a file for its victim).

The last three are one condition that gets stronger as the victim gets closer to its
deletion, and each stage is what makes the next step safe: `Retire` may write the
manifest because of the barrier, and `ProcessRetired` may release the file because of
its two gates. Recovery is the step that is hard: it drops what was acknowledged and
never promised, and could drop the record that made a file's contents obsolete.
`Retirements` holds of promised records, and a promised record comes back
(`PromisesHold`), which is why a file retired before a crash may be deleted after it.

*Forks.* A fork reads the tables while everything goes on. `Awaited`: what its caller had
seen is frozen or in the tables, and in the tables once the frozen memtables are
gone, so the flushed head covers it. `Pinned`: what it took at its cut is a `Cut`, that is
for each key the newest version, with the users' value, fsynced, in a file of the life the
view belongs to; the archive has it if the view lists that file.
`TablesAreCut` gets the cut from `Reachable` and `Truthful`; that it stays one while the
archive is built is `Ongoing`, what every step of a store that stays up leaves as it is:
files grow and are fsynced, and none of the pinned view is unlinked. `CutIsWhole` is the
publication: a head cut takes the tables as they are, a point cut the newest version of
each key.

### The stream and the feed

Assumed: `StreamAssumption`, `ConsumersAssumption` and `FeedAssumption`.

`StreamSpec` is the stream under an arbitrary consumer: one that subscribes,
works through its batch, registers and drops any snapshots, and may see the
history replaced by a prefix of whole commits. `ConsumersUseTheStream` shows that
every behaviour of the composed consumers is one of these, so what is proved of
`StreamSpec` holds under the feed, the replica and the journal alike. Its
invariant joins the two properties with `WholeCommits` (a commit is one run of
numbers), `Pinned` (what is queued or being resolved lies above the pin) and
`Condemned` (a record that was deleted lies at or below the pin).
`StreamAlwaysResolves` needs all three: the pin moves only to the end of a commit,
so it never passes an entry that is still to be handed over.

`FeedInv` adds, for the pump: `Registered` (the snapshots in the registry are
those of the pump, the channel and the client), `Delivered` (up to some entry all
was sent, the rest up to the pin is in the batch), `Ahead` (the rolling hold lies
at or below every commit still to come, which is why `Registrable` never says no)
and `Superseded`: GC deletes a record only when a later write of its key is at or
below every snapshot held and below the subscription's pin. Without the last,
"the value is still there" is not inductive over retire, register and reclaim.

### The edge replica

Assumed: the assumptions of the stream and `EdgeAssumption`.

*What a store shows.* Fragments `Covers` a history up to `f` if of every key they have
the newest entry, or nothing at all where that is a deletion: a compaction may have
dropped the tombstone, but then also all it shadowed. A store `Mirrors` a history up to
`d` if its fragments cover the state at the watermark of the installed slice, its
overlay holds everything from there to `d`, and, unless a crash undid some of it
(`phantom`), neither its overlay nor its frontier is past the later of the two.
`ScanShows`: a scan of such a store is the state at that point, although the overlay may
still hold entries the fragments have overtaken, but for the `Revived` keys, of which
those entries are all there is.
`ApplyMirrors`, `InstallMirrors` and `AdvanceMirrors` say what the driver's three
changes do to it.

*What is on its way.* `Flows(d)`: from `d` on, the frames in the channel, the
server's batch, the entries it is resolving and the queue follow each other without
a gap up to what is published. The end points are commit points, because a frame
that ended inside a commit would make a scan show half of it.

*The invariant.* Outside a re-sync the stream continues exactly where the store
ends (`InStep`). During one it does not: the new subscription begins at some `p`,
after the `d` the store has reached, and the gap between them is closed only by
the slice. `Resync` is the argument for subscribing first and pulling second:
`slice_manifest` flushes before it takes its snapshot, so its watermark is at or
past `p`, and installing it takes the store from `d` to `p` or beyond in one step. `Pull`
carries a slice through flushes, compactions and torn copies while it is being
fetched: as long as each of its fragments is copied or live, together they show
the state at its watermark. `Copies` (a whole copy has the bytes of the live fragment
of that name) needs `AttachFiles` to wipe the directory, because a re-minted
master uses the old ids again.

*Consequences.* `EdgeView`, from `Served`; and `EdgeStaysForward`: only four actions touch
the attached store (`ApplyBatch`, `Advance`, `Install`, `Announce`), and each takes it
to a point no earlier than the one it was at. An installed slice may take a record away
without leaving a newer one, but only of a key it has as deleted. A crash of the master
renames the instance (`Rebound`) and, if it undid something the store had, sets
`phantom`, after which nothing is claimed until the store is replaced.

### Triggers

Assumed: the assumptions of `Trigger` on its constants.

A crash goes back to an earlier state, so `TriggerInv` speaks of every state in
`log` (`Sound`), not only of the last: each touch of an active trigger has its
event in the queue or was seen, and applied and queued changes together are
what was captured. Concurrency enters as `Witnessed`: a touch later than a state
was captured later than it, so a drain whose snapshot missed the touch finds the
event's key written since and conflicts instead of deleting it. `Foremost` says
that the runner holds the front of the feed's queue, so a drain takes effect in
commit order. The definitions that count are `Alive`: made over a clean slate, and
nobody has begun to delete them.

### Only model-checked

* Liveness: the prover has no support for fairness or `ENABLED`.
* What a recursive definition computes for every input, where that takes an
  induction principle: its library theorems have an operator as a parameter, which
  the installed provers cannot instantiate. The few inductions the proofs do need
  (`FlattenSeq`, `BuildRunFromMem`) go by a least counterexample (`LeastNatural`).
* `JournalAlwaysRebuilds` and `JournalKeepsReported`, `ScansAreExact` and `GetsAgree`:
  nobody has written their inductive invariants down yet.
* `EdgeGetCoversFrontier`, the other five expected violations and the five further
  counterexamples (section 4).

## 6. Abstractions and what is left out

Abstracted:

* Bytes: values, keys, checksums, block and record formats, compression. A record
  is whole or torn; a value is named by the write that brought it.
* Sizes: memtable, fragment, value-log and journal file capacities count records;
  the group byte cap becomes "a chunk may end after any waiter"; an oversize batch
  is one that touches a key of `TooBig`; a subscriber's byte budget counts entries.
* `LsmTree` has no value log and `Durability` no compaction: `LsmTree` shows that
  compaction changes no read, and `Durability` keeps all flushed versions, which
  leaves the most pointers to dangle. `Durability` has no deletes. A relocation
  batch holds one key (the code puts up to 256 records in one). A GC victim is any
  sealed file; in `Stream` it is any single record.
* `EdgeReplica` has no run order within the master's tree (a key's value is its
  newest record; the order is `LsmTree`'s subject), so which tombstones a compaction can
  drop is left open; its request/response half is a synchronous call, and a pull's retry
  budget is spent in one step.
* `Durability` has no step for a value-log rotation that fails before the head is swapped:
  it degrades the store as a failed WAL rotation does and leaves at most an empty file
  that the next open removes. A directory sync that fails is taken to have left the new
  file in place. After a kill at most the WAL record being written is cut short.
* `Stream`: a receiver whose store degrades while it waits gets an error from
  `recv_timeout`; the model's receiver drains or goes on waiting.
* `Journal`: one source, and the threshold that starts a compaction is "at any time".
* `Trigger`: one trigger name, whose range is every key; a backoff ends at any time; the
  runner's scan for queues and its lookup of the trigger are one step, `Discover`.
* A committer panic is modelled before or after the critical section's effects,
  not in the middle of them.

Not modelled, and why:

* the edge store's value cache (a read-through copy of immutable records) and the
  block cache: they hold nothing that can become stale;
* `fork.rs` list, delete and `restore_to`, which copy or remove a finished
  directory; the hashing of store identities (its result enters as an epoch);
* shutdown in the middle of a compaction pass; `StallGauge` (statistics); a
  manifest write that fails inside `process_retired` (the files stay on disk
  until the store is reopened);
* wire and byte formats, the io_uring backend, GraphQL schema building and routing,
  configuration, server and CLI code: translation or I/O without state of their
  own;
* guest execution: a black box that may fail.

## 7. Plan

The parts of the system with a protocol of their own are modelled and checked, and
the commit path, the tree, the files, recovery, the value log, forks, the stream, the
feed, the replica and the triggers are proved. What is left to prove:

1. `Journal`: `JournalKeepsReported`, with the images a crash can leave as part of
   the invariant;
2. `Cursors`: the merge turn, one `ForwardTurn` at a time.
