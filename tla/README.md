# ClickHouse Keeper in TLA+

This directory holds TLA+ models of ClickHouse Keeper, the coordination service
under `src/src/Coordination`, with TLC configurations that check them on small
instances and TLAPS proofs of the main invariants for all instances. Source
lines below are relative to `src/src/Coordination` unless they name another
directory.

Keeper was chosen as the core because everything replicated in ClickHouse rests
on it, and because its correctness is a matter of state: a tree of nodes whose
bookkeeping is spread over half a dozen tables, transactions with hand-written
undo closures, and sessions that die at inconvenient moments.

## 1. The system

### Parts of Keeper

| Part | State | Operations |
|---|---|---|
| `SessionExpiryQueue` | expiry time per session, sessions per expiry time | add or refresh, remove, report the expired, clear |
| `ACLMap` | list <-> number, usage counter | convert, count, uncount, add a mapping from a snapshot |
| `KeeperStorage` | tree, ephemeral nodes by session, watches, sessions, identities, zxid | one processor per request type, Close, session ids, finalize |
| `SnapshotableHashTable` | map into a list of versioned values | insert, replace, erase, update; snapshot mode, clearing of outdated values |
| `KeeperSnapshotManager` | snapshot files on disk | serialize, restore, keep the newest N |
| `KeeperStateMachine` | storage, latest snapshot, response queue | commit, local read, create/apply/send/receive a snapshot |
| `Changelog`, `KeeperLogStore` | log files, the log in memory | append, overwrite, rotate, compact, read after a restart |
| `KeeperServer`, `KeeperStateManager` | Raft server (NuRaft, external), cluster configuration | start, stop, put a batch of requests, change the configuration |
| `KeeperDispatcher` | request, response and snapshot queues, callbacks by session | five threads, put a request, sessions, shutdown |

A client's request enters the dispatcher's queue, is appended to the Raft log in
a batch (reads are answered locally unless `quorum_reads` is set), and is
applied by `KeeperStateMachine::commit` on every server, which calls
`KeeperStorage::processRequest` under a lock. The leader's session cleaner asks
the storage for expired sessions and puts a Close for each of them into the same
queue. Snapshots are taken by a background thread while requests are applied.

### The rest of the repository

Query processing (parsers, interpreters, processors, functions, columns, data
types), storage engines, I/O, access control and the server programs are listed
in `PROJECT.json` with the reason why they are not modelled. Several contain
protocols that suit a model; section 8 says which come next.

### What makes it hard, and what should hold

- A multi may fail after any number of its sub-requests. The undo closures must
  give back the exact tree, although later sub-requests changed the same nodes
  and parents: `FailedMultiRestores`, `VersionsAdvance`.
- The same fact is stored twice or three times: a child in its own path, in its
  parent's set and in a counter; an ephemeral node in its `ephemeralOwner` and
  in the index; a watch by path and by session. Several places dereference one
  copy because the other says so: `TreeConsistent`, `EphemeralsConsistent`,
  `WatchesTracked`, `BucketsMirror`, `ACLUsageCounted`, `TableConsistent`.
- A request may be applied after the Close of its session (it was in the log
  behind it) and brings the session back: `NothingOutlivesItsSession`.
- A watch must not miss a change, nor fire without one: `WatchedChangesNotify`,
  `WatchesFireOnChange`.
- Rounding of expiry times must neither kill a session early nor keep it for
  long, also when the clock is set: `NeverExpiredEarly`,
  `ExpiredWithinInterval`.
- A thread writes a snapshot to disk and reads the table without a lock, while
  requests go on changing it: `FrozenElementsKept`, `IteratorValid`,
  `RefinesAtomicSnapshot`. Versions of a node share the characters of their key,
  which must be freed once: `KeysLive`.
- A replica may stop at any instruction, with a snapshot half-written, a
  snapshot of the leader half-received, a log file half-flushed, files half
  removed: `StorageIsLogPrefix`, `Recoverable`, `AckedSurviveUnharmed`,
  `TermsMonotone`, `CleanRestart`.
- Five threads and the connections pass requests and responses through bounded
  queues and one mutex; Raft may refuse, lose or delay a batch:
  `MutexExclusive`, `AnswersInOrder`, `ReadsSeeOwnWrites`, `RequestsAnswered`,
  `ExpiredSessionsClosed`, `ShutdownFinishesUnlessStuck`.

## 2. The modules

| Module | Models |
|---|---|
| `Maps` | insertion into and erasure from a map, as updates of partial functions |
| `SessionExpiryQueue` | `SessionExpiryQueue.h`, `.cpp` |
| `ACLMap` | `ACLMap.cpp`, as operators on the table |
| `KeeperStorage` | `KeeperStorage.h`, `.cpp`, `pathUtils.cpp`; extends `ACLMap` |
| `SnapshotableHashTable` | `SnapshotableHashTable.h`, as operators on the table |
| `KeeperSnapshotManager` | `KeeperSnapshotManager.cpp`: taking, writing, reading and removing a snapshot, as operators; extends `SnapshotableHashTable` |
| `AtomicSnapshot` | what a container with snapshots promises: a map, and a copy of it made in one step |
| `KeeperStorageSnapshot` | requests and the snapshot thread on one container; implements `AtomicSnapshot` |
| `KeeperStateMachine` | `KeeperStateMachine.cpp`: commits, snapshots of its own and of the leader, crashes; composes the table, the snapshot files and the log |
| `Changelog` | `Changelog.cpp`, as operators on the log and its files |
| `KeeperLogStore` | `KeeperLogStore.cpp` as NuRaft uses it, with crashes |
| `ConcurrentBoundedQueue` | `src/src/Common/ConcurrentBoundedQueue.h`, as operators |
| `KeeperDispatcher` | `KeeperDispatcher.cpp` with the connections, Raft and the storage reduced to what it sees |
| `MCSessionExpiryQueue`, `MCKeeperStorage`, `MCKeeperStorageSnapshot`, `MCKeeperStateMachine` | instances for TLC |
| `SessionExpiryQueueProofs` | theorems about the queue |
| `KeeperTreeProofs`, `KeeperStorageProofs` | lemmas about the tree operators, theorems about `KeeperStorage` |
| `SnapshotableHashTableProofs` | every call of the table keeps its invariant; what a file reads back as |
| `KeeperStorageSnapshotProofs` | theorems about the snapshot thread, the refinement included |
| `KeeperStateMachineProofs` | lemmas about what the log makes; types of the state machine |
| `KeeperStateMachinePrefixProofs` | theorems: storage and files are prefixes of the log, without a gap |
| `KeeperDispatcherProofs` | theorems about the mutex, the shutdown, the types, the order of answers and what reads see |

The state machine, the log store and the dispatcher are three models of one
replica that meet at their borders. The state machine's log is an input that
only grows, because it sees committed entries; the log store knows which entries
were acknowledged and which a snapshot covers, because that is what it must
keep; the dispatcher's Raft is the list of entries accepted and not committed,
because it only sees results. Their product is out of TLC's reach and would add
nothing at these borders.

### SessionExpiryQueue

The variables are the two maps and the clock. `deadline` is a history variable:
the last touch plus the timeout, before rounding. The clock is `system_clock`,
so `Tick` may set it to any value, backwards too.

### KeeperStorage

The variables carry the names of the fields. A map from a key to a set (or a
vector) is a relation: `ephemerals` is a set of pairs of session and path. An
entry with an empty set and a missing entry are thus the same, and so are one
and several registrations of a session at one watched path.
`session_expiry_queue` is only the set of registered sessions here; its timing
is the other module.

Paths are sequences of components and "/" is the empty sequence, its own parent
as in `parentPath`. A sequential name is the pair of base name and counter.
`WellFormed` excludes the two request shapes this cannot express: a sequential
create whose path is "/" or whose name is already a generated one, and the path
consisting of one empty name. Lists of ACLs are sets. Left out are node data
(it changes together with `mzxid`), byte counts, response bodies, the fields
that only the converter of ZooKeeper logs sets, and a multi holding a request
that is not Create, Remove, Set or Check.

Applying one request is one action, because the state machine holds a lock:

| Action | Code |
|---|---|
| `getSessionID` | `KeeperStorage.h:140` |
| `Write` | a Create, Remove or Set that succeeds |
| `SetACL`, `Auth`, `Heartbeat` (and Sync), `Close` | the requests of these names |
| `ReadFound`, `ExistsNot` | reads, through the log or local, with their watches |
| `Refused` | a request answered with an error |
| `Throws` | `convertNumber` throws in `checkAuth`: a local read is logged and forgotten, in `commit` nothing is applied afterwards |
| `MultiBegin`, `MultiRefused`, `MultiStep`, `MultiUndo`, `MultiEnd` | the loop of a multi, one turn at a time |
| `finalize` | `KeeperStorage.cpp:990`; requests may still be applied after it |

The effect of a request on the tree is a function of the tree (`Created`,
`Removed`, `Changed`, `Closed`, and `UndoCreate`, `UndoRemove`, `UndoSet` for the
closures), so that single requests, multis and the proofs use one definition.
What a closure captures is `UndoRecord`. Two fields of `multi` are history:
`before`, the tree the multi found, and `was`, the tree a sub-request found. The
zxid grows by one per request; in the code it is the log index and may skip
numbers.

### SnapshotableHashTable and the snapshot thread

The table is a record with the fields of the class. The list is a function from
positions to elements: an iterator is a position, and positions only grow, as
iterators of a list stay valid. `chars` identifies the characters of a key in
the arena, so that two versions of an element can share them and a double free
or a leak shows. The size counter counts as the code does, which adds the size of
a key that is replaced where it should subtract it; `SizeNeverWraps` says that
the unsigned counter is never short.

`KeeperStorageSnapshot` lets requests call `insertOrReplace`, `insert`,
`updateValue` and `erase` between the steps of `TakeSnapshot`, `SerializeNode`
and `FinishSnapshot`. `frozen` is a history variable: the list at the moment the
snapshot was taken. The refinement maps the container to its active elements,
and the snapshot to what reading back the written nodes gives.

### KeeperStateMachine

Three threads: the commit thread (`commit`, `create_snapshot`), the snapshot
thread (`BeginWriting` to its end, one node at a time, with failures of a write
or of the rename), NuRaft's network thread (`save_logical_snp_obj`,
`apply_snapshot`). A critical section is one step. `Restart` is a crash at any
moment with `init()` of the next process: the newest readable file is loaded and
newer unreadable ones are removed. `apply_snapshot` loads a file only if it is
the newest one and still there; otherwise it throws. Its two critical sections
are one step. Between them only the snapshot thread could file another snapshot;
the second section does not look at the newest index again, so that the outcome is
the one of filing it afterwards. Sessions and access lists are left out: they are
copied under the lock when the snapshot is taken.

NuRaft, which is external, is modelled by what the code relies on. It asks again
for an object whose number was not raised (`FailSaving`: the write of
`save_logical_snp_obj` threw, and the exception was logged). It knows as its last
snapshot the one that was loaded, finished or applied last (`LastSnapshot`). A
transfer may be given up at any time before its last object, because the leader
is gone or keeps answering -1 (`AbandonTransfer`), and one to another index may
follow. After the last object it calls `apply_snapshot`.

Three history variables. `spoiled` is set by three circumstances after which a
snapshot file may not be what its name says, `stray` when a destructor has written
through a dangling pointer into the storage in use; section 4 describes them.
`abandoned` holds the indices of the transfers that were given up, whose first
object stays as a file that cannot be read.

A pointer to freed memory may hit anything. `StrayWrite` lets it hit nothing that
is in use or the value of any one node of the present storage; reading through it
(`WriteNode` while `Dangling`) may find any node. What else undefined behaviour
might do, end the process for instance, is left out or is the `Restart` there is.

### Changelog and KeeperLogStore

An entry is its term, a record is an index and a term, a file is its records
and whether the last one is torn. What was appended since the last flush is
`buffer`: in a crash a prefix of it is on disk. NuRaft's side is in the actions
of `KeeperLogStore`: entries are acknowledged at the end of a batch, a new
leader overwrites entries that no snapshot covers and with a higher term, log
files are compacted after a snapshot. `happened` is a history variable that
records four circumstances the log does not survive unharmed (section 4).

### KeeperDispatcher

Every thread is a program counter with one action per critical section or
blocking call: a thread that waits on a full queue while it holds
`push_request_mutex` is a state of the model. The batch thread's futures are
`prev_batch` and `prev_result`: what Raft answers is only looked at when the next
batch is made. Raft (external) may accept a batch, refuse it, give up later, or
commit it after the timeout. The storage is the set of sessions and of those
whose time is up.

`Caught` is the `catch (...)` of `requestThread` (lines 138-141): making the
entries of a batch or a local read throws, the exception is logged, and the batch
and the read are forgotten (`dropped`). It is placed before anything of the batch
is appended; a read that throws has renewed its session by then. NuRaft's
`result->get()` is taken not to throw, and `addErrorResponses` throws only when
`responses_queue` is finished, which is after `requestThread` was joined.

The cleaner begins a round only while `is_leader` (line 392), which Raft takes and
gives. `shutdown()` joins its threads one after the other. The snapshot thread and
the thread for configuration updates take no lock of the others and end when their
queue is finished, so their end is part of the step that joins them.

### Faulty variants

A definition in lower camel case that no other definition uses, such as
`uncountedChild` before `withoutChild`, is a faulty variant of the definition
that follows it. `PROJECT.json` lists for every property a variant that must
break it.

## 3. The runs

| Run | Instance | Distinct states | Result |
|---|---|---|---|
| `session_expiry_queue` | 3 sessions (symmetric), timeouts 0, 2, 3, interval 2, clock 0..7 | 2,912 | holds |
| `keeper_sessions` | 2 sessions, 4 log entries, `SessionRequests` | 85,490 | holds |
| `keeper_multi` | 2 sessions, 5 log entries, `MultiACLRequests` | 343,330 | holds |
| `keeper_storage_snapshot` | 2 keys, 2 values, 4 insertions, 2 snapshots | 537,671 | holds |
| `keeper_state_machine` | "/" and 1 child, 3 log entries, 2 files kept, 1 crash, 1 transfer given up, all three circumstances | 528,985 | holds |
| `keeper_log_store` | 5 log entries, 3 terms, 2 records per file, 2 crashes, 1 of the four circumstances | 395,849 | holds |
| `keeper_dispatcher` | 1 connection with 2 requests, heartbeats and Close, queue of 1, 2 failures, expiries or a shutdown | 318,967 | holds |
| `keeper_failed_multi_watch` | 1 session, 3 log entries | | `WatchesFireOnChange` is violated |
| `keeper_root_multi` | 1 session | | `FailedMultiRestores` is violated |
| `keeper_last_acl` | 1 session, 4 log entries | | `NeverUnknownACL` is violated |
| `keeper_uncleaned_log` | as `keeper_log_store`, 1 crash, only "uncleaned" | | `AckedSurvive` is violated |
| `keeper_shutdown` | as `keeper_dispatcher`, 1 request | | `ShutdownFinishes` is violated |

`keeper_sessions` lets two sessions create persistent, ephemeral and sequential
nodes at `/a` and `/a/b`, remove them, and watch `/a/b` and the children of `/a`,
while either session is closed at any moment and may go on sending. It does not
put a watch on a generated name; see section 4. `keeper_multi` has multis that
fail at different places after creating, setting, removing and recreating the
same nodes, access lists of two kinds on two nodes, valid and invalid
identities, and multis that are refused.

`keeper_storage_snapshot` interleaves every call of the table with the steps of
two snapshots. Besides the invariants it checks that the whole implements
`AtomicSnapshot`: what is read back from the file is the map at the moment the
snapshot was taken. `keeper_state_machine` says that commits, snapshots written
and received and a crash at any step leave the storage the log makes;
`Recoverable` that at no moment a crash would find a gap between the newest
readable file and the log NuRaft has kept, if unreadable files leave room for a
readable one (`RoomForReadable`); `InstallsFinish` that every transfer ends, and a
complete one by being applied. `keeper_log_store` says that
acknowledged entries survive, that replaced entries do not come back
(`TermsMonotone` has no exception: not even the four circumstances bring one
back), and that stopping and starting gives the same log. `keeper_dispatcher`
says what a client sees of the threads.

**Bounds.** Session ids and log entries are bounded by `MaxSessions` and
`MaxZxid` in the guards. Reads answered locally do not count as log entries.
Four or five entries are enough for create, watch, close, late request and
second close, and for a multi between requests that prepare its failure; a multi
counts as one entry whatever its length. Counters of nodes need no bound of
their own. The clock of the queue covers every bucket a timeout can reach from
the first intervals.

Four insertions into the table allow an element to be inserted, copied,
erased and inserted again during a snapshot next to an untouched one, and two
snapshots show what the first leaves to the second. One child of "/" is enough
for the state machine, because each of its requests also changes "/": a snapshot
holds an old and a new node side by side. With two files kept, `RoomForReadable`
holds until a transfer is given up (`MaxAbandoned` is one); what `Recoverable` says
of more files and more such transfers is left to the theorem. `MaxVersion` bounds
the snapshots, temporary ones included, that one storage sees. Five entries with two per file make
three files, so that overwriting meets a current file, the beginning and the
middle of an older file, and files in between. Circumstances are bounded by one
per behaviour in the log store: each is seen with every other event, no two
together. The dispatcher's queue holds one request, so that it is full whenever
anything waits in it; a second connection multiplies the states beyond five
minutes, so requests of two clients in one batch are not covered by the run
(the five theorems about the dispatcher in section 5 do cover any number of
connections). Heartbeats and
Close requests may be repeated for ever; `Spaced` lets the next one go when the
last is dealt with.

**Deadlock.** It is checked for the queue and for the snapshot thread. The other
runs switch it off: when the bounds are used up, after an exception, or after a
shutdown nothing can happen.

**Fairness.** The storage, the queue, the table and the log store have none:
nothing in them happens by itself. In `KeeperStateMachine` the snapshot thread
and the network thread are weakly fair: each is a loop of its own that waits for
no lock that is kept (the network thread waits for the end of the snapshot being
written). The subscripts are what the threads make progress on: `stage` and
`snapshot`, and `installing`. An object asked for again and again is saved in the
end; a full disk for ever is not covered. In `KeeperDispatcher` each thread is weakly fair, since it is a loop
over blocking calls that the operating system runs; so is Raft's progress on
accepted entries, which is what a cluster with a quorum gives, but not its
success: it may refuse, lose and delay up to `MaxTrouble` times. A connection
goes on with a call it has begun and sends heartbeats while it waits, as the
client library does; no client has to send another request, disconnect or
expire, and no server has to be elected: `ExpiredSessionsClosed` only speaks of a
session while the server is the leader. A request that throws counts as trouble as
well; `RequestsAnswered` exempts it. The mutex is not assumed to be fair: weak fairness of a thread that
waits for it does not give it the mutex if others take it again and again, and
the properties do not need it.

## 4. Where code and text disagree

With a run:

- **A failed multi fires watches.** The response of a multi is made with error
  ZOK and keeps it when a sub-request fails, so line 1164 looks up the watches of
  all its sub-requests, which have just been undone. The comment above it says
  "If this requests processed successfully we need to check watches"
  (`KeeperStorage.cpp:1163`). Run `keeper_failed_multi_watch`: an Exists watch on
  `/a` is used up by a multi that created `/a` and failed.
- **A failed multi that set "/" is not undone exactly.** The closure restores
  "/" and then lowers the `cversion` of its parent, which is "/" again
  (`KeeperStorage.cpp:619-626`). The client's interface calls a multi "several
  operations in a transaction" (`src/src/Common/ZooKeeper/ZooKeeper.h:177`). Run
  `keeper_root_multi`.
- **A failed multi can leave an unknown ACL number.** Removing the last node with
  a list drops the list from `ACLMap`; the closure raises the usage counter again
  but the list stays gone, and the next request for the node throws "Unknown ACL
  id {}. It's a bug" (`ACLMap.cpp:66`). Run `keeper_last_acl`.
- **Files that were not removed in time take newer entries with them.** A
  snapshot of the leader that is ahead of the log makes `compact` hand all files
  to the background thread. After a crash before they are gone, the next start
  reads the old file first, in the trace of the run an empty one, so that no entry
  was read when it has to decide; then it removes every file, also the one with
  entries acknowledged after the snapshot (`Changelog.cpp:374-377`). "128 is enough, even if
  log is not removed, it's not a problem" (`Changelog.h:168`). Run
  `keeper_uncleaned_log`.
- **Shutdown can wait for ever.** `shutdown()` joins the session cleaner while it
  holds `push_request_mutex` (`KeeperDispatcher.cpp:313, 322`); a cleaner that has
  dead sessions to close waits for that mutex at line 409. The header says that
  it will "Shutdown internal keeper parts" (`KeeperDispatcher.h:123`). Run
  `keeper_shutdown`; theorem `DeadlockIsPermanent`.

Without a run of their own, but reached by the runs above, which record them in
`spoiled` and `happened`. Checking the unconditional property with only that
circumstance allowed shows each of them:

- **A snapshot that failed to be written** leaves the outdated elements in the
  table, and the next snapshot writes them (`KeeperStateMachine.cpp:231`). The
  comment at line 196 says "After that we can read consistent storage state
  without locking." (`SnapshotsAreLogPrefixes`, `WritingMayFail`.)
- **A snapshot created behind later commits** is made of the later storage: nodes
  that are newer end the loop early and the file holds fewer nodes than it
  announces. "Benign race condition possible" (`KeeperSnapshotManager.cpp:171`).
  (`SnapshotsAreLogPrefixes`, `SnapshotsMayLag`.)
- **A snapshot received while one is written**: object 0 makes and destroys a
  temporary snapshot of the same table, which ends snapshot mode under the
  snapshot thread (`KeeperStateMachine.cpp:262`, against line 196 as above).
  (`SnapshotsAreLogPrefixes`, `InstallMayOverlap`.)
- **A snapshot that outlives its storage**: when `apply_snapshot` replaces the
  storage while a snapshot of it is queued, written or, after a failure, not yet
  destroyed, the thread may walk a freed list, and the destructor turns off snapshot mode through a dangling pointer
  (`KeeperSnapshotManager.cpp:366`, called at `KeeperStateMachine.cpp:228` or at
  the end of the task). The write may land in the storage in use.
  (`StorageIsLogPrefix` without `stray`, `InstallMayOverlap` or
  `WritingMayFail`.)
- **A torn record costs the whole file**: reading stops at it and the file is
  removed, with acknowledged records in front of it. "Truncate broken entries,
  remove files after broken entries." (`Changelog.h:81`). (`AckedSurvive`, "torn".)
- **A crash between the removals of an overwrite** leaves a gap between files,
  which the next start reads over. "All subsequent logs shouldn't exist. But they
  may exist if we crashed after writeAt started. Remove them."
  (`Changelog.cpp:441`.) (`LogContiguous`, "halfway".)
- **An overwrite inside an older file** makes the writer believe it is in the
  following file, so that a file holds records beyond its name and compaction
  goes by the name. "[fromindex, toindex] <- inclusive" (`Changelog.h:51`).
  (`FilesHoldTheirRange` without its condition, "overwrite".)

Read in the code while modelling, and visible in the model:

- The first object of a transfer is saved as a snapshot file
  (`KeeperStateMachine.cpp:276`) and counts as one in
  `removeOutdatedSnapshotsIfNeeded`, also when the transfer was given up. With
  `snapshots_to_keep - 1` such files the next transfer evicts the last readable
  one, after the log was cut at it; a crash before its second object leaves a gap.
  `Recoverable` without `RoomForReadable` shows it. The next restart removes
  unreadable files that are newer than the one it loads.
- A request whose local read throws, for instance for the unknown ACL number
  above, is logged by `requestThread` and never answered
  (`KeeperDispatcher.cpp:138-141`); so is a batch whose entries cannot be made.

- A sequential create looks for watches at the path of the request and not at
  the path it created (`KeeperStorage.cpp:228`).
- "Set session expired for all pending requests" (`KeeperDispatcher.cpp:350`)
  holds of what is still in the queue: a request just popped, or collected into
  a batch, is dropped at shutdown. The expired responses carry xid 0.
- A batch may hold one request more than `max_requests_batch_size`
  (`CoordinationSettings.h:39`).
- `ConcurrentBoundedQueue::push` "Returns false if queue is finished", but
  `emplace` always returns true.
- A batch that timed out and is committed later is answered twice.

## 5. What is proved

Theorems hold for every value of the constants: any names, any set of requests,
any number of sessions, any length of the log, any interval and timeouts.

**SessionExpiryQueueProofs**, from the assumptions that the interval is positive
and timeouts are natural numbers: `TypeCorrect`, `BucketsAlwaysMirror`,
`NoEarlyExpiry`, `ExpiryIsTimely`. The inductive invariant adds to the types and `BucketsMirror`
that every stored key is the rounded `deadline`. Both timing properties then
follow from the bounds on rounding (`RoundingBounds`): the key lies above the
deadline and at most one interval above it.

**KeeperStorageProofs**, from the named assumptions of `KeeperStorage` and, as a
hypothesis of each theorem, `RootKept`: no multi removes or sets "/". The second
finding of section 4 shows why it is needed. Until `finalize`:

- `TypeCorrect`: all fields keep their types;
- `TreeAlwaysConsistent`: paths, children and counters agree, in every state
  half-way through a multi and its undo too;
- `EphemeralsAlwaysConsistent`: index and owners agree and ephemeral nodes have
  no children;
- `SessionsCleanUp`: whatever a session has, the session is registered for
  expiry;
- `WatchesAlwaysTracked`: its watches are listed under it, so that
  `clearDeadWatches` finds them;
- `FailedMultisRestore`: a failed multi gives back the tree it found.

None of these is inductive alone. That an undo restores the tree says nothing
about the states before the last closure has run, and a closure is right only on
the tree its sub-request left behind. `UndoChain` strengthens it: the newest
closure takes the present tree to the tree its sub-request found, the next takes
that tree to the one before, and so on to `before`; and every tree in the chain
is consistent. A sub-request extends the chain by one link, an undo takes one
off. The chain rests on the lemmas of `KeeperTreeProofs`, which say for an
arbitrary consistent tree that each operation keeps it consistent and that its
closure is its inverse. The proof of the latter for Create needs that the new
path was free and the parent's counters are restored, for Remove that the
parent of a removed node is another node, which is where "/" is excluded. The
invariant also says that sets of children are finite, without which counting
them means nothing, and that "/" belongs to no session.

Under the same hypothesis and until `finalize` the same module proves
`VersionsAlwaysAdvance`, which is `VersionsAdvance`. A client that compares
versions relies on it: no version is used for two committed states of a node's
data, and the counter behind sequential names does not fall. The invariant
`VersionsOK` says that the zxids of committed nodes do not exceed the present
one, and, while a multi runs, that they are smaller than its zxid and that the
half-made container, and every container recorded with an undo closure, is a
later state (`Since`) of the container before the multi. Each request is shown
to make a `TreeStep`: a node keeps its incarnation with counters that do not
fall and a version that grows exactly when `mzxid` becomes the zxid of the
request, or it is new and carries that zxid. An undo needs no inverse of this: by
`UndoChain` it leads to a recorded container.

`ACLUsageAlwaysCounted` is `ACLUsageCounted` under the same hypothesis. The
counters are not restored with the tree: a closure lowers or raises the one of
the number it captured. So the invariant `UsageOK` adds to `UndoChain` that every
link is `Matched`: the number captured by the closure of a Create or a Remove is
the one of the node by which the two containers of the link differ. Then each step
adds at most one user and counts it (`AddCounted`), takes one away and uncounts it
(`RemoveCounted`), or leaves the counters alone and adds none (`FewerCounted`);
SetACL and Close are why the property is a bound and not an equation. The proof
does not say that a counted list is still known. That fails after the undo of a
Remove, which is a finding of section 4.

`WatchedChangesAlwaysNotify` is `WatchedChangesNotify` with one hypothesis more,
`NumberedUnwatched`: no data watch is on a path that ends in the name of a
sequential node. The hypothesis is needed. When `SessionRequests` watches the
first sequential child, TLC finds a watch that survives the creation. It is about the
requests only, and the requests of `keeper_sessions` satisfy it, sequential create
included. The argument is in terms of `OnlyAt(c, d, P, L)`: nodes outside P were
neither created nor removed nor set, and nodes outside L kept their children. Each
request changes the container only at the paths whose watches it triggers. For a
multi the watches are triggered once, at the end, from its list of requests; the
invariant `WatchedOK` says that the half-made container, and every recorded one,
differs from the container before the multi only at paths in that list. A failed
multi is covered because the list is used whether or not it failed. The invariant
also says that list watches are on nodes that exist.

**KeeperStorageSnapshotProofs**, for any keys and values, any number of
insertions and snapshots: `TableAlwaysConsistent`, `KeysAlwaysLive`,
`FrozenElementsAlwaysKept`, `IteratorAlwaysValid`, `TypesCorrect`,
`SizeNeverWrapsAlways`, and `SnapshotIsAtomic`, the refinement of
`AtomicSnapshot`. The assumptions say that values have sizes in `Nat` and that
`None` is no snapshot. The argument has two halves.

`SnapshotableHashTableProofs` deals with the calls. `TableInv` adds to `ListConsistent` and `KeysAllocated` what makes them
last. No version is newer than the current one, so that turning on snapshot mode
freezes everything. And `CharsOwned`: elements that share the characters of a key
are versions of one insertion; at most one is active, and as long as one is in
the list, one is either active or carries `free_key`, never both. Without it
`clearOutdatedNodes` might free characters that are in use, or free them twice or
never. `Kept` says what a call leaves to a reader: elements not newer than the
snapshot stay where they are with key and value, new ones come behind the end.
Each way of changing the table (insert, copy, change in place, drop from the map,
drop the element, clear) has a predicate that says what the new fields are, a
lemma that the code does that, and a lemma that it keeps `TableInv` and `Kept`.

`KeeperStorageSnapshotProofs` deals with the thread. `IteratorValid` is not
inductive: the loop of the code stops by a counter and not at the end of the
list, so the invariant has to relate the two. `Cursor` says that the counter is
the number of snapshot elements before the iterator; `NewBehind`, that whatever
came into the list after the snapshot stands behind all its elements. So the
iterator moves from one snapshot element to the next until the counter has
reached their number, whatever the requests append.

The refinement needs two things more. `Written` says that the nodes in the file
are those of the map the snapshot was taken of, each once, in the order of the
iterator; when the counter has reached their number none is missing. And
`deserialize` reads a file back node by node: what it makes of the first n nodes
is shown by an explicit induction over n (the set of all n for which it holds is
all of `0 .. Len`), so that no induction rule with an operator as parameter is
needed. `SizeNeverWraps` is about a sum over the list; the same kind of
induction shows how the sum changes when an element is appended, replaced or
dropped.

**KeeperStateMachineProofs** and **KeeperStateMachinePrefixProofs**, for any
keys, any length of the log, any number of crashes and of files kept:
`TypesCorrect`, `StorageIsLogPrefixAlways`, `SnapshotsAreLogPrefixesAlways`,
`RecoverableAlways` and `CompleteTransfersApplied`, the safety half of
`InstallsFinish`. The assumptions: `Root` is none of the other keys,
`MaxLog` is a number, `mzxid` is the field of that name, at least one file is
kept, `None` is no task. `RecoverableAlways` and `CompleteTransfersApplied` speak
of states with `RoomForReadable`: the files of transfers given up, the one of a
transfer going on and one more fit into `snapshots_to_keep`. The condition is
needed, as section 4 says; it follows from the state, so that the theorems hold
for any number of transfers given up.

`StateOf(requests, n)` is what the first n entries make. The first part of the
argument relates it to the calls: a commit turns a container that reads as
`StateOf(log, n)` into one that reads as `StateOf(log, n + 1)`, and a file
`Written` from a map reads back as that map.

`TypedInv` is `TypeOK` with what makes it inductive: the table is well formed
(`Listed`), a snapshot that is being written points into it, files have indices
of the log, and the phases of the snapshot thread and of an installation agree
with the flags. `GoodInv` has a part that always holds, `StoragePrefix`, and one
that holds until a snapshot fails, lags or overlaps, `Unspoiled`:

- `Control`: `snapshot_running` says exactly that a task is queued or in hand;
  there is one at most, none beside an installation, and without one the
  container is out of snapshot mode;
- `Pending`: what is queued or being written is `Faithful`: there was a table
  that read as `StateOf(log, idx)`, `idx` being the index the snapshot will be
  filed under, its elements are frozen in the container, and the nodes in the
  file are those the iterator has passed. Commits between the steps of the thread
  change the container and not this;
- `Settled`: every file holds what the log makes up to its index, which is
  committed, except the one of a snapshot that is `Arriving`; that one is the
  newest and cannot be read after its first object;
- `Ordered`: a pending snapshot is newer than every file, so that filing it
  removes older ones only;
- `Covered`: some readable file reaches to where the log begins. NuRaft drops
  entries only after the file is in place. Files that cannot be read are the one
  arriving and those of transfers given up, so with `RoomForReadable` they are too
  few for the newest readable one to be evicted.

**KeeperDispatcherProofs**, for any set of connections and any bounds:
`MutexAlwaysExclusive`, `DeadlockIsPermanent`, `TypesAlwaysOK`,
`AnswersAlwaysInOrder` and `ReadsAlwaysSeeOwnWrites`. For the first two the inductive invariant is that
each connection is in one of its phases and that `push_request_mutex` is held by
exactly the connection, cleaner or shutdown that is inside. The second theorem
uses it to show that nobody but `shutdown()` could release the mutex, and that
`shutdown()` cannot go on: the violation of `ShutdownFinishes` is no accident of
scheduling that a further step could repair. `Types`, behind the third, says of
every queue, batch and entry of Raft what kind of requests it may hold; for
instance that a request with the number of a client's request comes from that
client, and that what has been taken from the queue as a read is one request.

The last two are what a client sees. Requests go through five places, `requests_queue`, the
read in hand, the batch, Raft and `responses_queue`, filled by different threads;
neither property says anything of them, so neither is inductive.

- For the reads, `UncommittedKnown`: an entry that waits in Raft is of the
  previous batch, whose result `requestThread` has still to look at before it
  executes the read, or its client has been sent an error for it. `Registration`
  serves it: of a connection that has no session nothing is under way.
- For the order, `Delivered`: a client with n answers has the requests n + 1 to
  `accepted` under way, each in one of the five places, sorted within each place
  and between them (`Chain`). `Smooth` says what the absence of failures means:
  Raft is empty unless the previous batch is pending, and no answer carries an
  error. Each thread moves a number from one end of a place to the other end of
  the next, which the `Chain` lemmas state once for arbitrary sets of numbers.

## 6. What is only model-checked

All properties of the storage after `finalize` (`TypeOK`, `EphemeralsConsistent`,
`NothingOutlivesItsSession`, `WatchesTracked`, `WatchedChangesNotify`,
`ACLUsageCounted` and `VersionsAdvance` are checked there too).

`Recoverable` says nothing where `RoomForReadable` fails, for instance with
`snapshots_to_keep = 1`. There the conclusion does not hold, as TLC shows when the
condition is dropped: the first object of a snapshot of the leader evicts the only
file that can be read, after the log was cut at that file.

Everything about `KeeperLogStore`. Its properties are about `readChangelog` and
`compact` on sequences of files after a crash. A crash may come between any two
calls of the log store, at any byte of what was appended since the last flush, and
between the removals of files in `writeAt` and in the background thread; `compact`,
`init` and the other calls are not interrupted.

Liveness under fairness (`SnapshotsFinish`, `InstallsFinish` and the like) is
beyond the prover and stays with TLC.

## 7. What is not modelled

Besides the parts listed as such in `PROJECT.json`:

- storage: 32-bit overflow of `seq_num`, `version` and `cversion`; the order of
  entries in an ACL list (two orders have two numbers in the code); lists nobody
  uses that stay in `ACLMap` after SetACL and Close (`ACLUsageCounted` bounds the
  counter from below only); the contents of responses; introspection;
- snapshots: sessions and access lists in the file (copied whole under the lock),
  compression, format versions, reading a file to send it to another replica; the
  unit of the session tick, which differs between a new storage and one read from
  a file (`KeeperStateMachine.cpp:57, 109`);
- log: record format, checksums, compression; errors of the file system other
  than a crash;
- dispatcher: what the thread for configuration updates does before its end,
  statistics, exceptions other than those of `requestThread`, forwarding of
  requests from a follower to the leader (Raft is one list of accepted entries);
- `KeeperServer` and `KeeperStateManager`: start, elections and membership are
  calls into NuRaft, whose answers would have to be invented; what the rest of
  Keeper sees of them (a batch accepted, refused, lost, late; a leader lost) is
  in the dispatcher's model, and reading the log at the start in the log store's.
  The retries of a configuration change (`KeeperServer.cpp:424`) are recorded as
  a hazard without a property;
- more than one replica: replication itself is NuRaft's.

## 8. Plan

1. The composition of `SessionExpiryQueue`, `KeeperStorage` and the cleaner of
   `KeeperDispatcher`: a session that sends nothing is closed within a bounded
   number of intervals.
2. `KeeperServer`: the retries of configuration changes against a NuRaft that
   may lose them.
3. Outside Keeper, where the protocols are: `ReplicatedMergeTreeQueue` with
   `ActiveDataPartSet`, `RWLock`, `ThreadPool`, `BackgroundSchedulePool`,
   `AsynchronousInsertQueue`, `DDLWorker`.

Proof planned with them: the part of `TermsMonotone` that concerns the files
without a crash.
