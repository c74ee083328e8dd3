------------------------- MODULE KeeperStateMachine -------------------------
(***************************************************************************)
(* The state machine of a Keeper replica with its snapshots, crashes and   *)
(* restarts (src/Coordination/KeeperStateMachine.cpp).                     *)
(*                                                                         *)
(* Three threads work on it.  The commit thread of NuRaft applies the log  *)
(* entry by entry and asks for snapshots.  The snapshot thread writes a    *)
(* snapshot to disk, reading the container without its lock.  The network  *)
(* thread of NuRaft receives a snapshot from the leader in two objects and *)
(* applies it, unless the leader gives the transfer up.  A critical section *)
(* is one step; the snapshot thread holds snapshots_lock from BeginWriting *)
(* to its end.                                                             *)
(*                                                                         *)
(* The log is what the replicas agreed on, an input.  Its entries create,  *)
(* set or remove children of "/"; the effect of an entry on the container  *)
(* is the pair of calls KeeperStorage makes for it.  A value is the log    *)
(* index that modified the node and the one that changed it in any way.    *)
(***************************************************************************)
EXTENDS KeeperSnapshotManager

CONSTANTS
    Root, Key,           \* "/" and its children
    None,
    MaxLog,              \* bound: entries of the log
    MaxCrashes,          \* bound: crashes
    MaxVersion,          \* bound: snapshots taken of one storage
    MaxAbandoned,        \* bound: transfers given up
    WritingMayFail,      \* a write or the rename of a snapshot may fail
    SnapshotsMayLag,     \* create_snapshot runs after later commits
    InstallMayOverlap    \* a snapshot arrives while another one is written

ASSUME RootAssumption == Root \notin Key

\* The paths of the nodes.
Keys == {Root} \cup Key

\* A node: the entries that modified it and that changed it in any way.
Value == [mzxid : 0 .. MaxLog, changed : 0 .. MaxLog]

\* A value knows which entry of the log modified it.
ASSUME ValueAssumption ==
    MaxLog \in Nat /\ \A value \in Value : mzxid(value) = value.mzxid

\* None is neither a snapshot nor an installation.
ASSUME NoneAssumption ==
    None \notin Snapshot(Keys, Value) \cup [last_log_idx : Nat, saved : Nat]

VARIABLES
    log,                  \* agreed requests
    log_start,            \* first index the log store still has
    container,            \* of storage
    last_committed_idx,
    queued,               \* task in snapshots_queue, or None
    snapshot,             \* task of the snapshot thread, or None
    stage,                \* of the snapshot thread
    freed,                \* the tasks whose storage was replaced
    snapshot_running,     \* NuRaft waits for when_done
    existing_snapshots,   \* log index -> file
    latest_snapshot_meta, \* its log index, 0 for null
    installing,           \* the snapshot being received, or None
    spoiled,              \* a snapshot has failed, lagged or overlapped
    stray,                \* a write to freed memory has hit the storage
    abandoned,            \* log indices of the transfers that were given up
    crashes

raft == <<log, log_start, snapshot_running, installing>>
task == <<queued, snapshot, stage, freed>>
disk == <<existing_snapshots, latest_snapshot_meta>>
faults == <<spoiled, stray, abandoned, crashes>>
vars == <<raft, container, last_committed_idx, task, disk, faults>>

Request == [op : {"create", "set", "remove"}, key : Key]

Stamp(idx) == [mzxid |-> idx, changed |-> idx]

NewStorage == insert(EmptyTable, Root, Stamp(0))

Init ==
    /\ log = <<>>
    /\ log_start = 1
    /\ container = NewStorage
    /\ last_committed_idx = 0
    /\ queued = None
    /\ snapshot = None
    /\ stage = "idle"
    /\ freed = {}
    /\ snapshot_running = FALSE
    /\ existing_snapshots = <<>>
    /\ latest_snapshot_meta = 0
    /\ installing = None
    /\ spoiled = FALSE
    /\ stray = FALSE
    /\ abandoned = {}
    /\ crashes = 0

-----------------------------------------------------------------------------
(***************************************************************************)
(* The commit thread.                                                      *)
(***************************************************************************)

TouchRoot(t, idx) ==
    updateValue(t, Root, [getValue(t, Root) EXCEPT !.changed = idx])

\* The calls of a request on the container.  A request that does not apply
\* to the key is answered with an error.
processRequest(t, request, idx) ==
    LET key == request.key
    IN  IF contains(t, key) = (request.op = "create")
        THEN t
        ELSE CASE request.op = "create" ->
                      TouchRoot(insert(t, key, Stamp(idx)), idx)
               [] request.op = "set" ->
                      TouchRoot(updateValue(t, key, Stamp(idx)), idx)
               [] request.op = "remove" ->
                      erase(TouchRoot(t, idx), key)

\* The leader appends an entry.
Propose(request) ==
    /\ Len(log) < MaxLog
    /\ log' = Append(log, request)
    /\ UNCHANGED <<log_start, snapshot_running, installing, container,
                   last_committed_idx, task, disk, faults>>

\* A replica that is sent a snapshot does not have the entries up to it.
Committable ==
    log_start .. IF installing = None
                 THEN Len(log)
                 ELSE installing.last_log_idx - 1

commit ==
    LET log_idx == last_committed_idx + 1
    IN  /\ log_idx \in Committable
        /\ container' = processRequest(container, log[log_idx], log_idx)
        /\ last_committed_idx' = log_idx
        /\ UNCHANGED <<raft, task, disk, faults>>

ReadableSnapshots ==
    {i \in DOMAIN existing_snapshots : Readable(existing_snapshots[i])}

\* The newest file that can be read.
LatestReadable == Max({0} \cup ReadableSnapshots)

\* The last snapshot NuRaft knows of: loaded by init(), done or applied.
LastSnapshot == Max({LatestReadable, log_start - 1})

\* The in-memory snapshot is taken under the storage lock and queued.
\* NuRaft asks for one at a time.
create_snapshot ==
    /\ ~snapshot_running
    /\ container.current_version < MaxVersion
    /\ installing = None \/ InstallMayOverlap
    /\ \E last_log_idx \in LastSnapshot + 1 .. last_committed_idx :
           LET lags == last_log_idx < last_committed_idx
           IN  /\ lags => SnapshotsMayLag
               /\ queued' = NewSnapshot(container, last_log_idx)
               /\ spoiled' = (spoiled \/ lags \/ installing # None)
    /\ container' = TurnOn(container)
    /\ snapshot_running' = TRUE
    /\ UNCHANGED <<log, log_start, installing, last_committed_idx, snapshot,
                   stage, freed, disk, stray, abandoned, crashes>>

-----------------------------------------------------------------------------
(***************************************************************************)
(* The snapshot thread.                                                    *)
(***************************************************************************)

\* It takes the task from the queue, locks snapshots_lock and opens the
\* temporary file.
BeginWriting ==
    /\ stage = "idle"
    /\ queued # None
    /\ stage' = "writing"
    /\ snapshot' = queued
    /\ queued' = None
    /\ freed' = IF "queued" \in freed THEN {"snapshot"} ELSE {}
    /\ UNCHANGED <<raft, container, last_committed_idx, disk, faults>>

\* The iterator does not point to an element any more.
Dangling == "snapshot" \in freed \/ snapshot.it \notin DOMAIN container.list

\* The next node.  A dangling iterator may find anything.
WriteNode ==
    /\ stage = "writing"
    /\ snapshot.writing
    /\ IF Dangling
       THEN \E key \in Key :
                snapshot' =
                    [snapshot EXCEPT
                        !.nodes = Append(@, [key |-> key, value |-> Stamp(0)]),
                        !.counter = @ + 1,
                        !.writing = snapshot.counter + 1
                                        < snapshot.container_size]
       ELSE snapshot' = SerializeNode(snapshot, container)
    /\ UNCHANGED <<raft, queued, stage, freed, container, last_committed_idx,
                   disk, faults>>

\* The file is flushed and renamed, and snapshots_lock released.
Publish ==
    /\ stage = "writing"
    /\ ~snapshot.writing
    /\ existing_snapshots' =
           AddFile(existing_snapshots, snapshot.last_log_idx, FileOf(snapshot))
    /\ latest_snapshot_meta' = snapshot.last_log_idx
    /\ stage' = "written"
    /\ UNCHANGED <<raft, queued, snapshot, freed, container,
                   last_committed_idx, faults>>

\* The destructor of a snapshot turns off snapshot mode in the storage it was
\* taken of.  When that one was replaced, it writes to freed memory: to
\* nothing in use, or to a node of the storage t.
StrayWrite(t) ==
    \/ container' = t /\ UNCHANGED stray
    \/ \E key \in DOMAIN t.map :
           /\ container' = [t EXCEPT !.list[t.map[key]].value = Stamp(0)]
           /\ stray' = TRUE

\* NuRaft is not told that the snapshot is done.
forgetWhenDone ==
    /\ stage = "written"
    /\ IF "snapshot" \in freed
       THEN StrayWrite(clearOutdatedNodes(container))
       ELSE container' = DestroySnapshot(container) /\ UNCHANGED stray
    /\ stage' = "idle"
    /\ snapshot' = None
    /\ freed' = freed \ {"snapshot"}
    /\ UNCHANGED <<raft, queued, last_committed_idx, disk, spoiled, abandoned,
                   crashes>>

\* NuRaft drops the log up to the last commit.
dropCommitted ==
    /\ stage = "written"
    /\ IF "snapshot" \in freed
       THEN StrayWrite(clearOutdatedNodes(container))
       ELSE container' = DestroySnapshot(container) /\ UNCHANGED stray
    /\ stage' = "idle"
    /\ snapshot' = None
    /\ freed' = freed \ {"snapshot"}
    /\ snapshot_running' = FALSE
    /\ log_start' = Max({log_start, last_committed_idx + 1})
    /\ UNCHANGED <<log, installing, queued, last_committed_idx, disk, spoiled,
                   abandoned, crashes>>

\* The storage there is now is locked and its garbage cleared, the snapshot
\* destroyed.  when_done(true) lets NuRaft drop the log up to the snapshot.
ClearGarbage ==
    /\ stage = "written"
    /\ IF "snapshot" \in freed
       THEN StrayWrite(clearOutdatedNodes(container))
       ELSE container' = DestroySnapshot(container) /\ UNCHANGED stray
    /\ stage' = "idle"
    /\ snapshot' = None
    /\ freed' = freed \ {"snapshot"}
    /\ snapshot_running' = FALSE
    /\ log_start' = Max({log_start, snapshot.last_log_idx + 1})
    /\ UNCHANGED <<log, installing, queued, last_committed_idx, disk, spoiled,
                   abandoned, crashes>>

\* NuRaft is not told that the snapshot failed.
failSilently ==
    /\ WritingMayFail
    /\ stage = "writing"
    /\ stage' = "failed"
    /\ spoiled' = TRUE
    /\ UNCHANGED <<raft, queued, snapshot, freed, container,
                   last_committed_idx, disk, stray, abandoned, crashes>>

\* An exception while writing: when_done(false), with the snapshot still
\* alive and its garbage in the list.
FailWriting ==
    /\ WritingMayFail
    /\ stage = "writing"
    /\ stage' = "failed"
    /\ snapshot_running' = FALSE
    /\ spoiled' = TRUE
    /\ UNCHANGED <<log, log_start, installing, queued, snapshot, freed,
                   container, last_committed_idx, disk, stray, abandoned,
                   crashes>>

\* The thread leaves the scope of the task: the snapshot is destroyed, not
\* under the lock.
DestroyFailed ==
    /\ stage = "failed"
    /\ IF "snapshot" \in freed
       THEN StrayWrite(container)
       ELSE container' = disableSnapshotMode(container) /\ UNCHANGED stray
    /\ stage' = "idle"
    /\ snapshot' = None
    /\ freed' = freed \ {"snapshot"}
    /\ UNCHANGED <<raft, queued, last_committed_idx, disk, spoiled, abandoned,
                   crashes>>

SnapshotThread ==
    \/ BeginWriting \/ FailWriting \/ WriteNode \/ Publish
    \/ ClearGarbage \/ DestroyFailed

-----------------------------------------------------------------------------
(***************************************************************************)
(* The network thread: save_logical_snp_obj for object 0 and object 1,     *)
(* then apply_snapshot.                                                    *)
(***************************************************************************)

\* The map after the request with the index i.
Applied(m, request, i) ==
    LET touched == Put(m, Root, [m[Root] EXCEPT !.changed = i])
    IN  IF (request.key \in DOMAIN m) = (request.op = "create")
        THEN m
        ELSE IF request.op = "remove"
        THEN Drop(touched, request.key)
        ELSE Put(touched, request.key, Stamp(i))

\* The map that the first idx requests make of an empty storage.
StateOf(requests, idx) ==
    LET state[i \in 0 .. idx] ==
            IF i = 0
            THEN [key \in {Root} |-> Stamp(0)]
            ELSE Applied(state[i - 1], requests[i], i)
    IN  state[idx]

StateAt(idx) == StateOf(log, idx)

\* A file with the nodes of a map in some order.
MapFile(m) ==
    LET count == Cardinality(DOMAIN m)
        order == CHOOSE f \in Bijection(1 .. count, DOMAIN m) : TRUE
    IN  [container_size |-> count,
         nodes |-> [n \in 1 .. count |->
                        [key |-> order[n], value |-> m[order[n]]]]]

\* The object 0 is no snapshot: a number NuRaft asks for.
FakeFile == [container_size |-> 1, nodes |-> <<>>]

\* The object that NuRaft asks the leader for.
SentObjects ==
    IF installing.saved = 0
    THEN {FakeFile}
    ELSE {MapFile(m) : m \in {StateAt(installing.last_log_idx)}}

\* Object 0 arrives.  A snapshot is taken of the storage, under its lock,
\* serialized to a buffer nobody uses, and destroyed.
ReceiveFirst ==
    /\ installing = None
    /\ container.current_version < MaxVersion
    /\ snapshot_running => InstallMayOverlap
    /\ \E idx \in last_committed_idx + 1 .. Len(log) :
           installing' = [last_log_idx |-> idx, saved |-> 0]
    /\ container' = disableSnapshotMode(TurnOn(container))
    /\ spoiled' = (spoiled \/ snapshot_running)
    /\ UNCHANGED <<log, log_start, snapshot_running, last_committed_idx, task,
                   disk, stray, abandoned, crashes>>

\* The object is asked for again.
keepObjectNumber ==
    /\ installing # None
    /\ installing.saved < 2
    /\ stage # "writing"
    /\ existing_snapshots' =
           AddFile(existing_snapshots, installing.last_log_idx, FakeFile)
    /\ latest_snapshot_meta' = installing.last_log_idx
    /\ UNCHANGED <<raft, container, last_committed_idx, task, faults>>

\* An object is saved under snapshots_lock.
save_logical_snp_obj ==
    /\ installing # None
    /\ installing.saved < 2
    /\ stage # "writing"
    /\ \E file \in SentObjects :
           existing_snapshots' =
               AddFile(existing_snapshots, installing.last_log_idx, file)
    /\ latest_snapshot_meta' = installing.last_log_idx
    /\ installing' = [installing EXCEPT !.saved = @ + 1]
    /\ UNCHANGED <<log, log_start, snapshot_running, container,
                   last_committed_idx, task, faults>>

\* Object 0 cannot be written: it stays the one that NuRaft asks for, and the
\* whole call is made again.  Object 1 asked for again changes nothing.
FailSaving ==
    /\ WritingMayFail
    /\ installing # None
    /\ installing.saved = 0
    /\ stage # "writing"
    /\ container.current_version < MaxVersion
    /\ container' = disableSnapshotMode(TurnOn(container))
    /\ UNCHANGED <<raft, last_committed_idx, task, disk, faults>>

\* The leader dies, or drops the transfer, before the last object: the file
\* of the object 0 stays.  The log goes on, or another transfer begins.
AbandonTransfer ==
    /\ Cardinality(abandoned) < MaxAbandoned
    /\ installing # None
    /\ installing.saved < 2
    /\ installing' = None
    /\ abandoned' = abandoned \cup {installing.last_log_idx}
    /\ UNCHANGED <<log, log_start, snapshot_running, container,
                   last_committed_idx, task, disk, spoiled, stray, crashes>>

\* The tasks that have a snapshot of the storage.
PendingTasks ==
    {t \in {"queued", "snapshot"} :
         IF t = "queued" THEN queued # None ELSE snapshot # None}

\* The storage is replaced by the one in the file; NuRaft drops the log up
\* to the snapshot.  Another snapshot may have become the latest one, or
\* the file may be gone as the oldest of too many: then the call throws.
apply_snapshot ==
    /\ installing # None
    /\ installing.saved = 2
    /\ stage # "writing"
    /\ LET idx == installing.last_log_idx
       IN  IF idx = latest_snapshot_meta /\ idx \in DOMAIN existing_snapshots
           THEN /\ container' =
                       deserialize(NewStorage, existing_snapshots[idx])
                /\ last_committed_idx' = idx
                /\ log_start' = idx + 1
                /\ freed' = PendingTasks
                /\ stray' = FALSE
           ELSE UNCHANGED <<container, last_committed_idx, log_start, freed,
                            stray>>
    /\ installing' = None
    /\ UNCHANGED <<log, snapshot_running, queued, snapshot, stage, disk,
                   spoiled, abandoned, crashes>>

NetworkThread == save_logical_snp_obj \/ apply_snapshot

-----------------------------------------------------------------------------
(***************************************************************************)
(* A crash at any moment, and init() of the next process.                  *)
(***************************************************************************)

\* The log is applied to the loaded storage from its beginning.
replayAll ==
    /\ crashes < MaxCrashes
    /\ crashes' = crashes + 1
    /\ latest_snapshot_meta' = LatestReadable
    /\ last_committed_idx' = log_start - 1
    /\ container' =
           IF LatestReadable = 0
           THEN NewStorage
           ELSE deserialize(NewStorage, existing_snapshots[LatestReadable])
    /\ queued' = None
    /\ snapshot' = None
    /\ stage' = "idle"
    /\ freed' = {}
    /\ snapshot_running' = FALSE
    /\ installing' = None
    /\ stray' = FALSE
    /\ UNCHANGED <<log, log_start, existing_snapshots, spoiled, abandoned>>

\* The newest readable file is loaded; newer ones that cannot be read are
\* removed.
Restart ==
    /\ crashes < MaxCrashes
    /\ crashes' = crashes + 1
    /\ existing_snapshots' =
           [i \in {j \in DOMAIN existing_snapshots : j <= LatestReadable} |->
                existing_snapshots[i]]
    /\ latest_snapshot_meta' = LatestReadable
    /\ last_committed_idx' = LatestReadable
    /\ container' =
           IF LatestReadable = 0
           THEN NewStorage
           ELSE deserialize(NewStorage, existing_snapshots[LatestReadable])
    /\ queued' = None
    /\ snapshot' = None
    /\ stage' = "idle"
    /\ freed' = {}
    /\ snapshot_running' = FALSE
    /\ installing' = None
    /\ stray' = FALSE
    /\ UNCHANGED <<log, log_start, spoiled, abandoned>>

-----------------------------------------------------------------------------
Next ==
    \/ \E request \in Request : Propose(request)
    \/ commit
    \/ create_snapshot
    \/ SnapshotThread
    \/ ReceiveFirst
    \/ NetworkThread
    \/ FailSaving
    \/ AbandonTransfer
    \/ Restart

\* The two threads run: the snapshot thread waits for no lock the network
\* thread keeps, and the network thread only for a snapshot being written.
\* An object that is asked for again and again is saved at last.
Fairness ==
    /\ WF_<<stage, snapshot>>(SnapshotThread)
    /\ WF_installing(NetworkThread)

Spec == Init /\ [][Next]_vars /\ Fairness

-----------------------------------------------------------------------------
(***************************************************************************)
(* Properties.                                                             *)
(***************************************************************************)

\* A file of a snapshot or of an object.
File == [container_size : Nat, nodes : Seq([key : Keys, value : Value])]

\* The log, the container, the tasks, the files and the transfer have their
\* types; no index is ahead of the log, the snapshot being received is ahead of
\* the commits, and no more files are kept than snapshots_to_keep.
TypeOK ==
    /\ log \in Seq(Request)
    /\ last_committed_idx \in 0 .. Len(log)
    /\ log_start \in 1 .. Len(log) + 1
    /\ FieldsOK(container, Keys, Value)
    /\ \A s \in {queued, snapshot} : s # None => s \in Snapshot(Keys, Value)
    /\ stage \in {"idle", "writing", "written", "failed"}
    /\ (stage = "idle") <=> (snapshot = None)
    /\ freed \subseteq PendingTasks
    /\ snapshot_running \in BOOLEAN
    /\ DOMAIN existing_snapshots \subseteq 1 .. Len(log)
    /\ \A i \in DOMAIN existing_snapshots : existing_snapshots[i] \in File
    /\ Cardinality(DOMAIN existing_snapshots) <= snapshots_to_keep
    /\ latest_snapshot_meta \in 0 .. Len(log)
    /\ installing # None =>
           installing \in [last_log_idx : last_committed_idx + 1 .. Len(log),
                          saved : 0 .. 2]
    /\ spoiled \in BOOLEAN
    /\ stray \in BOOLEAN
    /\ abandoned \subseteq 1 .. Len(log)
    /\ crashes \in Nat

\* The storage is the one the committed prefix of the log makes, through
\* commits, restarts from a snapshot and snapshots of the leader.  Snapshots
\* that fail, lag or overlap change that only in a process started from their
\* files, and where a storage was replaced under a snapshot of it, whose
\* destructor then writes to freed memory.
StorageIsLogPrefix ==
    \/ Contents(container) = StateAt(last_committed_idx)
    \/ spoiled /\ (crashes > 0 \/ stray)

\* A readable snapshot on disk holds what the log up to its index makes,
\* although create_snapshot let commits go on while it was written.
SnapshotsAreLogPrefixes ==
    \A i \in ReadableSnapshots :
        Contents(deserialize(NewStorage, existing_snapshots[i])) = StateAt(i)

\* SnapshotsAreLogPrefixes as long as create_snapshot() was called at the
\* index of the last commit, no file has failed to be written and
\* save_logical_snp_obj() was not called meanwhile.
GoodSnapshotsAreLogPrefixes == ~spoiled => SnapshotsAreLogPrefixes

\* Files that cannot be read leave room for one that can: those of abandoned
\* transfers and the one of a transfer going on.
RoomForReadable == Cardinality(abandoned) + 2 <= snapshots_to_keep

\* Whenever the process dies, the newest readable snapshot and the log that
\* NuRaft has kept have no gap between them, unless a snapshot was spoiled or
\* removeOutdatedSnapshotsIfNeeded() keeps the files of abandoned transfers,
\* which cannot be read, in the place of the last one that can.
Recoverable ==
    ~spoiled /\ RoomForReadable => LatestReadable + 1 >= log_start

\* A snapshot that create_snapshot has queued is finished or given up, so
\* that NuRaft can ask for the next one.
SnapshotsFinish == snapshot_running ~> ~snapshot_running

\* How a transfer that is complete ends: apply_snapshot() throws only where
\* another snapshot has failed, lagged or overlapped or where abandoned
\* transfers have filled the directory.
CompleteIsApplied ==
    installing # None /\ installing.saved = 2 /\ installing' # installing =>
        \/ last_committed_idx' = installing.last_log_idx
        \/ crashes' > crashes
        \/ spoiled \/ ~RoomForReadable

\* A snapshot that save_logical_snp_obj has begun to receive is applied,
\* unless the process crashes or the leader abandons the transfer.
InstallsFinish ==
    /\ installing # None ~> installing = None
    /\ [][CompleteIsApplied]_vars
=============================================================================
