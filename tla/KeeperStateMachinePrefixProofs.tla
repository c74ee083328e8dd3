-------------------- MODULE KeeperStateMachinePrefixProofs --------------------
(***************************************************************************)
(* The state machine of a replica applies the log and nothing else, through *)
(* commits, snapshots, installations and restarts: the storage is what the *)
(* committed prefix of the log makes, the files are what the log up to     *)
(* their index makes, and there is no gap between the files and the log    *)
(* that is kept.  For every set of keys, every length of the log and every *)
(* number of crashes.                                                      *)
(***************************************************************************)
EXTENDS KeeperStateMachineProofs

\* Most steps are about sets and functions; those with arithmetic, sequences
\* or records say which other prover they need.
USE Zenon

-----------------------------------------------------------------------------
(***************************************************************************)
(* What holds of the storage always, and of the snapshots as long as none  *)
(* has failed, lagged or overlapped.                                       *)
(***************************************************************************)

\* The storage is what the committed entries make, unless a process started
\* from a spoiled snapshot or wrote to a storage it had freed.
StoragePrefix ==
    \/ Reads(container, StateOf(log, last_committed_idx))
    \/ spoiled /\ (crashes > 0 \/ stray)

\* NuRaft waits for one snapshot, in the queue or with the thread, whose
\* storage is not replaced; and a container is in snapshot mode, with outdated
\* elements, only for it.
Control ==
    /\ snapshot_running <=> (queued # None \/ stage # "idle")
    /\ queued # None => stage = "idle"
    /\ stage # "failed"
    /\ freed = {}
    /\ installing # None => ~snapshot_running
    /\ ~snapshot_running => Fresh(container)

\* The snapshot s of the container t writes what the log q makes up to its
\* index: the elements of a table f that reads so are frozen in t.
Faithful(t, s, q) ==
    \E f : /\ Frozen(t, f, Keys, Value)
           /\ Cursor(s, f, Keys, Value)
           /\ Reads(f, StateOf(q, s.last_log_idx))

Pending ==
    /\ queued # None => Faithful(container, queued, log)
    /\ stage = "writing" => Faithful(container, snapshot, log)

\* The file under the index i is the object 0 of a transfer, or the snapshot
\* that a transfer has brought.
Arriving(inst, i) ==
    inst # None /\ inst.saved = 1 /\ i = inst.last_log_idx

Arrived(inst, i) ==
    inst # None /\ inst.saved = 2 /\ i = inst.last_log_idx

\* The files that can be read hold what the log makes up to their index, which
\* is committed or about to be installed.
Settled ==
    \A i \in ReadableSnapshots :
        /\ Written(existing_snapshots[i], StateOf(log, i), Keys, Value)
        /\ i <= last_committed_idx \/ Arrived(installing, i)

\* A file that cannot be read belongs to a transfer.
Leftover ==
    \A i \in DOMAIN existing_snapshots \ ReadableSnapshots :
        i \in abandoned \/ Arriving(installing, i)

\* What a transfer has brought is the latest snapshot, and on disk as long as
\* there is room.
Received ==
    installing # None /\ installing.saved > 0 =>
        /\ installing.last_log_idx = latest_snapshot_meta
        /\ RoomForReadable => installing.last_log_idx \in DOMAIN existing_snapshots

\* A snapshot on its way is newer than the files that can be read; one that
\* was written is among them.
Ordered ==
    /\ queued # None => \A i \in ReadableSnapshots : i < queued.last_log_idx
    /\ stage = "writing" =>
           \A i \in ReadableSnapshots : i < snapshot.last_log_idx
    /\ stage = "written" /\ RoomForReadable =>
           snapshot.last_log_idx \in ReadableSnapshots

\* What the log has lost is in a readable file.
Covered ==
    RoomForReadable =>
        \/ log_start = 1
        \/ \E i \in ReadableSnapshots : i + 1 >= log_start

\* What is on disk.
Stored == Settled /\ Leftover /\ Received /\ Ordered /\ Covered

Unspoiled == Control /\ Pending /\ Stored

GoodInv == StoragePrefix /\ (~spoiled => Unspoiled)

\* A readable file is a file of a log index.
LEMMA ReadableIndex ==
    ASSUME TypedInv
    PROVE  /\ \A i \in DOMAIN existing_snapshots :
                  i \in 1 .. Len(log) /\ i \in 0 .. Len(log) /\ i \in Nat
           /\ ReadableSnapshots \subseteq DOMAIN existing_snapshots
           /\ DOMAIN existing_snapshots \subseteq 0 .. Len(log)
<1>1. \A i \in 1 .. Len(log) : i \in 0 .. Len(log) /\ i \in Nat
  BY Numbers, SMT
<1> QED BY <1>1 DEF ReadableSnapshots, TypedInv, FilesOK, AreFiles

\* A step that leaves the files alone.
LEMMA SameFiles ==
    ASSUME UNCHANGED <<existing_snapshots, abandoned>>
    PROVE  /\ ReadableSnapshots' = ReadableSnapshots
           /\ RoomForReadable' <=> RoomForReadable
<1>1. UNCHANGED existing_snapshots /\ UNCHANGED abandoned
  BY SMT
<1> QED BY <1>1 DEF ReadableSnapshots, RoomForReadable

\* With room for the files that can be read there is room for two files more
\* than those of the abandoned transfers.
LEMMA RoomIsThere ==
    ASSUME TypedInv, RoomForReadable
    PROVE  IsFiniteSet(abandoned) /\ Cardinality(abandoned) + 2 <= snapshots_to_keep
<1>1. abandoned \subseteq 1 .. Len(log) /\ Len(log) \in Nat
  BY Numbers DEF TypedInv, LogOK
<1>2. IsFiniteSet(1 .. Len(log))
  <2>1. 1 \in Int /\ Len(log) \in Int
    BY <1>1, SMT
  <2> QED BY <2>1, FS_Interval
<1> QED BY <1>1, <1>2, FS_Subset DEF RoomForReadable

\* A new process has an empty log and no files.
LEMMA InitGood ==
    ASSUME Init
    PROVE  GoodInv
<1>1. StoragePrefix
  BY NewStorageOK, StateOfNone DEF Init, StoragePrefix
<1>2. Control /\ Pending
  BY NewStorageOK DEF Init, Control, Pending
<1>3. DOMAIN existing_snapshots = {} /\ ReadableSnapshots = {}
  <2>1. DOMAIN << >> = {}
    BY SMT
  <2> QED BY <2>1 DEF Init, ReadableSnapshots
<1>4. Stored
  BY <1>3 DEF Init, Stored, Settled, Leftover, Received, Ordered, Covered
<1> QED BY <1>1, <1>2, <1>4 DEF GoodInv, Unspoiled

\* What a snapshot writes depends on the first entries of the log.
LEMMA FaithfulLog ==
    ASSUME NEW t, NEW s, NEW q, NEW r, Faithful(t, s, q),
           StateOf(r, s.last_log_idx) = StateOf(q, s.last_log_idx)
    PROVE  Faithful(t, s, r)
  BY DEF Faithful

\* The log grows behind everything that was made of it.
LEMMA ProposeGood ==
    ASSUME TypedInv, GoodInv, NEW request \in Request, Propose(request)
    PROVE  GoodInv'
<1>1. /\ UNCHANGED <<log_start, snapshot_running, installing, container,
                     last_committed_idx>>
      /\ UNCHANGED <<queued, snapshot, stage, freed>>
      /\ UNCHANGED <<existing_snapshots, latest_snapshot_meta>>
      /\ UNCHANGED <<spoiled, stray, abandoned, crashes>>
  BY SMT DEF Propose, task, disk, faults
<1>2. \A n \in 0 .. Len(log) : StateOf(log', n) = StateOf(log, n)
  BY ProposeLog
<1>3. /\ last_committed_idx \in 0 .. Len(log)
      /\ \A n \in 1 .. Len(log) : n \in 0 .. Len(log)
      /\ \A n \in 1 .. last_committed_idx : n \in 0 .. Len(log)
  BY Numbers, SMT
<1>4. StoragePrefix'
  BY <1>1, <1>2, <1>3 DEF GoodInv, StoragePrefix
<1>5. ASSUME ~spoiled PROVE Unspoiled'
  <2>1. Control /\ Pending /\ Stored
    BY <1>5 DEF GoodInv, Unspoiled
  <2>2. Control'
    BY <1>1, <2>1 DEF Control
  <2>3. Pending'
    <3>1. ASSUME NEW s, IsTask(s, last_committed_idx),
                 Faithful(container, s, log)
          PROVE  Faithful(container, s, log')
      <4>1. StateOf(log', s.last_log_idx) = StateOf(log, s.last_log_idx)
        BY <1>2, <1>3, <3>1 DEF IsTask
      <4> QED BY <3>1, <4>1, FaithfulLog
    <3>2. stage = "writing" => snapshot # None
      BY DEF TypedInv, TaskOK
    <3> QED BY <1>1, <2>1, <3>1, <3>2 DEF Pending, TypedInv, TaskOK
  <2>4. Stored'
    <3>1. ASSUME NEW i \in ReadableSnapshots
          PROVE  StateOf(log', i) = StateOf(log, i)
      BY <1>2, ReadableIndex
    <3>2. /\ ReadableSnapshots' = ReadableSnapshots
          /\ RoomForReadable' <=> RoomForReadable
      BY <1>1, SameFiles
    <3> QED BY <1>1, <2>1, <3>1, <3>2
            DEF Stored, Settled, Leftover, Received, Ordered, Covered
  <2> QED BY <2>2, <2>3, <2>4 DEF Unspoiled
<1> QED BY <1>1, <1>4, <1>5 DEF GoodInv

\* Requests leave to the snapshot thread what it has to write.
LEMMA FaithfulKept ==
    ASSUME NEW t, Listed(t, Keys, Value), NEW u, Kept(t, u), NEW s, NEW q,
           Faithful(t, s, q)
    PROVE  Faithful(u, s, q)
<1>1. PICK f : /\ Frozen(t, f, Keys, Value)
               /\ Cursor(s, f, Keys, Value)
               /\ Reads(f, StateOf(q, s.last_log_idx))
  BY DEF Faithful
<1>2. Frozen(u, f, Keys, Value)
  BY <1>1, FrozenKept
<1> QED BY <1>1, <1>2 DEF Faithful

\* commit() applies the next entry to the storage.
LEMMA CommitGood ==
    ASSUME TypedInv, GoodInv, commit
    PROVE  GoodInv'
<1> DEFINE c == last_committed_idx
           m == StateOf(log, c)
<1>1. /\ UNCHANGED <<log, log_start, snapshot_running, installing>>
      /\ UNCHANGED <<queued, snapshot, stage, freed>>
      /\ UNCHANGED <<existing_snapshots, latest_snapshot_meta>>
      /\ UNCHANGED <<spoiled, stray, abandoned, crashes>>
  BY SMT DEF commit, raft, task, disk, faults
<1>2. last_committed_idx' = c + 1 /\ c \in Nat
  BY CommitLog, Numbers
<1>3. Processed(container, container',
                Applied(Contents(container), log[c + 1], c + 1))
  BY CommitStorage
<1>4. StoragePrefix'
  <2>1. CASE Reads(container, m)
    <3>1. Contents(container) = m
      BY <2>1 DEF Reads
    <3>2. StateOf(log, c + 1) = Applied(m, log[c + 1], c + 1)
      BY <1>2, StateOfNext
    <3>3. Reads(container', Applied(m, log[c + 1], c + 1))
      BY <1>3, <3>1 DEF Processed
    <3>4. Reads(container', StateOf(log, c + 1))
      BY <3>2, <3>3
    <3> QED BY <1>1, <1>2, <3>4 DEF StoragePrefix
  <2>2. CASE spoiled /\ (crashes > 0 \/ stray)
    BY <1>1, <2>2 DEF StoragePrefix
  <2> QED BY <2>1, <2>2 DEF GoodInv, StoragePrefix
<1>5. ASSUME ~spoiled PROVE Unspoiled'
  <2>1. Control /\ Pending /\ Stored
    BY <1>5 DEF GoodInv, Unspoiled
  <2>2. Kept(container, container') /\ Listed(container, Keys, Value)
    BY <1>3 DEF Processed, TypedInv, StorageOK
  <2>3. Fresh(container) => Fresh(container')
    BY <2>2 DEF Kept, Fresh
  <2>4. Control'
    BY <1>1, <2>1, <2>3 DEF Control
  <2>5. Pending'
    <3>1. ASSUME NEW s, Faithful(container, s, log)
          PROVE  Faithful(container', s, log)
      BY <2>2, <3>1, FaithfulKept
    <3> QED BY <1>1, <2>1, <3>1 DEF Pending
  <2>6. Stored'
    <3>1. ASSUME NEW i \in ReadableSnapshots, i <= c PROVE i <= c + 1
      <4>1. i \in Nat
        BY ReadableIndex
      <4> QED BY <1>2, <3>1, <4>1, SMT
    <3>2. /\ ReadableSnapshots' = ReadableSnapshots
          /\ RoomForReadable' <=> RoomForReadable
      BY <1>1, SameFiles
    <3> QED BY <1>1, <1>2, <2>1, <3>1, <3>2
            DEF Stored, Settled, Leftover, Received, Ordered, Covered
  <2> QED BY <2>4, <2>5, <2>6 DEF Unspoiled
<1> QED BY <1>1, <1>4, <1>5 DEF GoodInv

\* create_snapshot() freezes the storage at the index of the last commit.
LEMMA CreateGood ==
    ASSUME TypedInv, GoodInv, create_snapshot
    PROVE  GoodInv'
<1>1. /\ UNCHANGED <<log, log_start, installing, last_committed_idx, snapshot>>
      /\ UNCHANGED <<stage, freed>>
      /\ UNCHANGED <<existing_snapshots, latest_snapshot_meta>>
      /\ UNCHANGED <<stray, abandoned, crashes>>
      /\ container' = TurnOn(container)
      /\ snapshot_running' = TRUE /\ ~snapshot_running
  BY SMT DEF create_snapshot, disk
<1>2. PICK last_log_idx \in LastSnapshot + 1 .. last_committed_idx :
          /\ queued' = NewSnapshot(container, last_log_idx)
          /\ spoiled' = (spoiled \/ last_log_idx < last_committed_idx
                           \/ installing # None)
  BY DEF create_snapshot
<1>3. Listed(container, Keys, Value)
  BY DEF TypedInv, StorageOK
<1>4. Reads(container', Contents(container))
  BY <1>1, <1>3, TurnOnOK
<1>5. StoragePrefix'
  <2>1. Contents(container') = Contents(container)
    BY <1>4 DEF Reads
  <2>2. spoiled => spoiled'
    BY <1>2
  <2> QED BY <1>1, <2>1, <2>2 DEF GoodInv, StoragePrefix, Reads
<1>6. ASSUME ~spoiled' PROVE Unspoiled'
  <2>1. ~spoiled /\ ~(last_log_idx < last_committed_idx) /\ installing = None
    BY <1>2, <1>6
  <2>2. Control /\ Pending /\ Stored
    BY <2>1 DEF GoodInv, Unspoiled
  <2>3. /\ last_log_idx = last_committed_idx /\ last_log_idx \in Nat
        /\ \A i \in ReadableSnapshots : i < last_log_idx
    <3>1. LastSnapshot \in Nat /\ LatestReadable \in Nat
      <4>1. LastSnapshot \in 0 .. Len(log) /\ LatestReadable \in 0 .. Len(log)
        BY LastSnapshotOK, LatestReadableOK
      <4> QED BY <4>1, SMT
    <3>2. LatestReadable <= LastSnapshot
      BY LastSnapshotOK
    <3>3. last_log_idx = last_committed_idx /\ last_log_idx \in Nat
      BY <2>1, <3>1, Numbers, SMT
    <3>4. ASSUME NEW i \in ReadableSnapshots PROVE i < last_log_idx
      <4>1. i \in Nat /\ i <= LatestReadable
        BY ReadableIndex, LatestReadableOK
      <4> QED BY <3>1, <3>2, <3>3, <4>1, SMT
    <3> QED BY <3>3, <3>4
  <2>4. Fresh(container) /\ queued = None /\ stage = "idle"
    BY <1>1, <2>2 DEF Control
  <2>5. Reads(container, StateOf(log, last_log_idx))
    BY <2>1, <2>3 DEF GoodInv, StoragePrefix
  <2>6. Frozen(container', container, Keys, Value)
    <3>1. container.snapshot_invalid_iters = <<>>
      BY <2>4 DEF Fresh
    <3> QED BY <1>1, <1>3, <3>1, FrozenTaken
  <2>7. /\ Cursor(queued', container, Keys, Value)
        /\ queued'.last_log_idx = last_log_idx
    <3>1. /\ Cursor(NewSnapshot(container, last_log_idx), container, Keys, Value)
          /\ NewSnapshot(container, last_log_idx).last_log_idx = last_log_idx
      BY <1>3, <2>3, CursorBegin, SMT
    <3> QED BY <1>2, <3>1
  <2>8. Faithful(container', queued', log)
    BY <2>5, <2>6, <2>7 DEF Faithful
  <2>9. queued' # None
    BY <2>7, NoneAssumption DEF Cursor
  <2>10. Control'
    BY <1>1, <2>1, <2>2, <2>4, <2>9 DEF Control
  <2>11. Pending'
    BY <1>1, <2>4, <2>8 DEF Pending
  <2>12. Stored'
    <3>1. /\ ReadableSnapshots' = ReadableSnapshots
          /\ RoomForReadable' <=> RoomForReadable
      BY <1>1, SameFiles
    <3>2. Ordered'
      BY <1>1, <2>3, <2>4, <2>7, <3>1 DEF Ordered
    <3> QED BY <1>1, <2>2, <3>1, <3>2
            DEF Stored, Settled, Leftover, Received, Covered
  <2> QED BY <2>10, <2>11, <2>12 DEF Unspoiled
<1> QED BY <1>5, <1>6 DEF GoodInv

\* What the snapshot thread is about to write is what the log makes.
LEMMA BeginWritingGood ==
    ASSUME TypedInv, GoodInv, BeginWriting
    PROVE  GoodInv'
<1>1. /\ UNCHANGED <<log, log_start, installing, snapshot_running>>
      /\ UNCHANGED <<last_committed_idx, existing_snapshots>>
      /\ UNCHANGED <<latest_snapshot_meta, spoiled, stray, abandoned, crashes>>
      /\ UNCHANGED container
      /\ freed' = IF "queued" \in freed THEN {"snapshot"} ELSE {}
      /\ queued # None /\ stage = "idle" /\ stage' = "writing"
      /\ snapshot' = queued /\ queued' = None
  BY SMT DEF BeginWriting, raft, disk, faults
<1>2. StoragePrefix'
  BY <1>1 DEF GoodInv, StoragePrefix
<1>3. ASSUME ~spoiled PROVE Unspoiled'
  <2>1. Control /\ Pending /\ Stored
    BY <1>3 DEF GoodInv, Unspoiled
  <2>2. Control' /\ Pending'
    BY <1>1, <2>1 DEF Control, Pending
  <2>3. Stored'
    <3>1. /\ ReadableSnapshots' = ReadableSnapshots
          /\ RoomForReadable' <=> RoomForReadable
      BY <1>1, SameFiles
    <3> QED BY <1>1, <2>1, <3>1
            DEF Stored, Settled, Leftover, Received, Ordered, Covered
  <2> QED BY <2>2, <2>3 DEF Unspoiled
<1> QED BY <1>1, <1>2, <1>3 DEF GoodInv

\* No element of the snapshot is newer than its index.
LEMMA FrozenOld ==
    ASSUME NEW t, NEW f, Frozen(t, f, Keys, Value), NEW m, Reads(f, m),
           NEW n \in Nat, StateOK(m, n)
    PROVE  \A i \in DOMAIN f.list : ~(mzxid(f.list[i].value) > n)
<1> SUFFICES ASSUME NEW i \in DOMAIN f.list
             PROVE  ~(mzxid(f.list[i].value) > n)
  OBVIOUS
<1> DEFINE k == f.list[i].key
<1>1. /\ Listed(f, Keys, Value) /\ f.list[i].active_in_map
  BY DEF Frozen
<1>2. k \in DOMAIN f.map /\ f.map[k] = i
  BY <1>1 DEF Listed, ListConsistent
<1>3. k \in DOMAIN m /\ m[k] = f.list[i].value
  BY <1>2 DEF Reads, Contents, getValue
<1>4. m[k] \in Value /\ m[k].mzxid <= n
  BY <1>3 DEF StateOK
<1>5. mzxid(m[k]) = m[k].mzxid /\ m[k].mzxid \in Nat
  <2>1. 0 \in 0 .. MaxLog
    BY ValueAssumption, SMT
  <2> QED BY <1>4, <2>1, ValueAssumption, Values
<1> HIDE DEF k
<1> DEFINE x == mzxid(m[k])
<1>6. x <= n /\ x \in Nat
  BY <1>4, <1>5
<1> HIDE DEF x
<1>7. ~(x > n)
  BY <1>6, SMT
<1> QED BY <1>3, <1>7 DEF x

\* One more node of what the snapshot has to write.
LEMMA FaithfulNext ==
    ASSUME NEW t, Listed(t, Keys, Value), NEW s, NEW q, Faithful(t, s, q),
           s.writing, s.last_log_idx \in Nat,
           StateOK(StateOf(q, s.last_log_idx), s.last_log_idx)
    PROVE  /\ s.it \in DOMAIN t.list
           /\ Faithful(t, SerializeNode(s, t), q)
           /\ SerializeNode(s, t).last_log_idx = s.last_log_idx
<1> DEFINE m == StateOf(q, s.last_log_idx)
           n == SerializeNode(s, t)
<1>1. PICK f : /\ Frozen(t, f, Keys, Value)
               /\ Cursor(s, f, Keys, Value)
               /\ Reads(f, m)
  BY DEF Faithful
<1>2. \A i \in DOMAIN f.list : ~(mzxid(f.list[i].value) > s.last_log_idx)
  <2> DEFINE idx == s.last_log_idx
  <2>1. idx \in Nat /\ StateOK(m, idx) /\ Reads(f, m)
    BY <1>1
  <2> HIDE DEF m, idx
  <2>2. \A i \in DOMAIN f.list : ~(mzxid(f.list[i].value) > idx)
    BY <1>1, <2>1, FrozenOld
  <2> QED BY <2>2 DEF idx
<1>3. /\ s.it \in DOMAIN t.list /\ Cursor(n, f, Keys, Value)
      /\ n.last_log_idx = s.last_log_idx
  <2>1. Frozen(t, f, Keys, Value) /\ Cursor(s, f, Keys, Value)
    BY <1>1
  <2> QED BY <1>2, <2>1, CursorNext, SMT
<1> HIDE DEF n
<1>4. Faithful(t, n, q)
  BY <1>1, <1>3 DEF Faithful
<1> QED BY <1>3, <1>4 DEF n

\* A node that is written is as it was when the snapshot was created.
LEMMA WriteNodeGood ==
    ASSUME TypedInv, GoodInv, WriteNode
    PROVE  GoodInv'
<1>1. /\ UNCHANGED <<log, log_start, installing, snapshot_running>>
      /\ UNCHANGED <<last_committed_idx, existing_snapshots>>
      /\ UNCHANGED <<latest_snapshot_meta, spoiled, stray, abandoned, crashes>>
      /\ UNCHANGED <<container, freed, queued, stage>>
      /\ stage = "writing" /\ snapshot.writing
  <2>1. /\ UNCHANGED <<raft, queued, stage, freed, container,
                       last_committed_idx, disk, faults>>
        /\ stage = "writing" /\ snapshot.writing
    BY DEF WriteNode
  <2> QED BY <2>1, SMT DEF raft, disk, faults
<1>2. StoragePrefix'
  BY <1>1 DEF GoodInv, StoragePrefix
<1>3. ASSUME ~spoiled PROVE Unspoiled'
  <2>1. Control /\ Pending /\ Stored
    BY <1>3 DEF GoodInv, Unspoiled
  <2>2. IsTask(snapshot, last_committed_idx) /\ Listed(container, Keys, Value)
    BY <1>1 DEF TypedInv, TaskOK, StorageOK
  <2> DEFINE idx == snapshot.last_log_idx
  <2>3. idx \in Nat /\ idx \in 0 .. Len(log)
    <3>1. idx \in 1 .. last_committed_idx
      BY <2>2 DEF IsTask
    <3> QED BY <3>1, Numbers, SMT
  <2>4. StateOK(StateOf(log, idx), idx)
    BY <2>3, PrefixOK
  <2>5. Faithful(container, snapshot, log)
    BY <1>1, <2>1 DEF Pending
  <2>6. /\ snapshot.it \in DOMAIN container.list
        /\ Faithful(container, SerializeNode(snapshot, container), log)
        /\ SerializeNode(snapshot, container).last_log_idx = idx
    BY <1>1, <2>2, <2>3, <2>4, <2>5, FaithfulNext
  <2>7. ~Dangling
    BY <2>1, <2>6 DEF Dangling, Control
  <2>8. snapshot' = SerializeNode(snapshot, container)
    BY <2>7 DEF WriteNode
  <2>9. Pending'
    BY <1>1, <2>1, <2>6, <2>8 DEF Pending
  <2>10. Control'
    BY <1>1, <2>1 DEF Control
  <2>11. Stored'
    <3>1. /\ ReadableSnapshots' = ReadableSnapshots
          /\ RoomForReadable' <=> RoomForReadable
      BY <1>1, SameFiles
    <3>2. Ordered'
      BY <1>1, <2>1, <2>6, <2>8, <3>1 DEF Stored, Ordered
    <3> QED BY <1>1, <2>1, <3>1, <3>2
            DEF Stored, Settled, Leftover, Received, Covered
  <2> QED BY <2>9, <2>10, <2>11 DEF Unspoiled
<1> QED BY <1>1, <1>2, <1>3 DEF GoodInv

\* The files that can be read after one was added.
LEMMA ReadableAdded ==
    ASSUME NEW idx, NEW file,
           Added(existing_snapshots, existing_snapshots', idx, file)
    PROVE  /\ \A i \in DOMAIN existing_snapshots' :
                  i # idx => /\ i \in DOMAIN existing_snapshots
                             /\ existing_snapshots'[i] = existing_snapshots[i]
                             /\ i \in ReadableSnapshots' <=> i \in ReadableSnapshots
           /\ idx \in DOMAIN existing_snapshots' =>
                  /\ existing_snapshots'[idx] = file
                  /\ idx \in ReadableSnapshots' <=> Readable(file)
           /\ ReadableSnapshots' \subseteq DOMAIN existing_snapshots'
  BY DEF Added, ReadableSnapshots

\* The file that is renamed holds what the log makes up to its index.
LEMMA PublishGood ==
    ASSUME TypedInv, GoodInv, Publish
    PROVE  GoodInv'
<1> DEFINE idx == snapshot.last_log_idx
           file == FileOf(snapshot)
           old == existing_snapshots
           new == existing_snapshots'
<1>1. /\ UNCHANGED <<log, log_start, snapshot_running, installing>>
      /\ UNCHANGED <<queued, snapshot, freed, container, last_committed_idx>>
      /\ UNCHANGED <<spoiled, stray, abandoned, crashes>>
      /\ stage = "writing" /\ stage' = "written"
      /\ latest_snapshot_meta' = idx /\ ~snapshot.writing
  BY SMT DEF Publish, raft, faults
<1>2. /\ idx \in 1 .. last_committed_idx /\ idx \in 1 .. Len(log)
      /\ new = AddFile(old, idx, file) /\ Added(old, new, idx, file)
  BY PublishFiles
<1>3. StoragePrefix'
  BY <1>1 DEF GoodInv, StoragePrefix
<1>4. ASSUME ~spoiled PROVE Unspoiled'
  <2>1. Control /\ Pending /\ Stored
    BY <1>4 DEF GoodInv, Unspoiled
  <2>2. queued = None /\ installing = None
    BY <1>1, <2>1 DEF Control
  <2>3. Written(file, StateOf(log, idx), Keys, Value)
    <3>1. PICK f : /\ Frozen(container, f, Keys, Value)
                   /\ Cursor(snapshot, f, Keys, Value)
                   /\ Reads(f, StateOf(log, idx))
      BY <1>1, <2>1 DEF Pending, Faithful
    <3>2. Written(file, Contents(f), Keys, Value)
      BY <1>1, <3>1, CursorEnd
    <3> QED BY <3>1, <3>2 DEF Reads
  <2>4. Readable(file)
    BY <2>3, WrittenReadable
  <2>5. idx \in Nat /\ idx <= last_committed_idx
    BY <1>2, Numbers, SMT
  <2>6. \A i \in ReadableSnapshots : i < idx
    BY <1>1, <2>1 DEF Stored, Ordered
  <2>7. RoomForReadable' <=> RoomForReadable
    BY <1>1 DEF RoomForReadable
  <2>8. /\ \A i \in DOMAIN new :
               i # idx => /\ i \in DOMAIN old /\ new[i] = old[i]
                          /\ i \in ReadableSnapshots' <=> i \in ReadableSnapshots
        /\ idx \in DOMAIN new => new[idx] = file /\ idx \in ReadableSnapshots'
        /\ ReadableSnapshots' \subseteq DOMAIN new
    <3> HIDE DEF idx, file
    <3> QED BY <1>2, <2>4, ReadableAdded
  <2>9. ASSUME RoomForReadable PROVE idx \in ReadableSnapshots'
    <3> DEFINE n == Len(log)
               B == abandoned
    <3>1. IsFiniteSet(B) /\ Cardinality(B) + 2 <= snapshots_to_keep
      BY <2>9, RoomIsThere
    <3>2. n \in Nat /\ idx \in 0 .. n /\ DOMAIN old \subseteq 0 .. n
      <4>1. idx \in 0 .. n
        BY <1>2, Numbers, SMT
      <4> QED BY <4>1, Numbers, ReadableIndex
    <3>3. \A j \in DOMAIN old : j < idx \/ j \in B \cup {idx, idx}
      BY <2>1, <2>2, <2>6 DEF Stored, Leftover, Arriving
    <3>4. idx \in DOMAIN old \cup {idx}
      OBVIOUS
    <3> HIDE DEF idx, file, old, n, B
    <3>5. idx \in DOMAIN AddFile(old, idx, file)
      BY <3>1, <3>2, <3>3, <3>4, FileStays, SMT
    <3> QED BY <1>2, <2>8, <3>5
  <2>10. Settled'
    <3>1. ASSUME NEW i \in ReadableSnapshots'
          PROVE  /\ Written(new[i], StateOf(log, i), Keys, Value)
                 /\ i <= last_committed_idx
      <4>1. CASE i = idx
        BY <2>3, <2>5, <2>8, <4>1
      <4>2. CASE i # idx
        <5>1. i \in ReadableSnapshots /\ new[i] = old[i]
          BY <2>8, <4>2
        <5> QED BY <2>1, <2>2, <5>1 DEF Stored, Settled, Arrived
      <4> QED BY <4>1, <4>2
    <3> HIDE DEF idx
    <3> QED BY <1>1, <3>1 DEF Settled
  <2>11. Leftover'
    <3>1. ASSUME NEW i \in DOMAIN new, i \notin ReadableSnapshots'
          PROVE  i \in abandoned
      <4>1. i # idx
        BY <2>8, <3>1
      <4>2. i \in DOMAIN old /\ i \notin ReadableSnapshots
        BY <2>8, <3>1, <4>1
      <4> QED BY <2>1, <2>2, <4>2 DEF Stored, Leftover, Arriving
    <3> HIDE DEF idx
    <3> QED BY <1>1, <3>1 DEF Leftover
  <2>12. Received' /\ Ordered'
    BY <1>1, <2>2, <2>7, <2>9 DEF Received, Ordered
  <2>13. Covered'
    <3>1. SUFFICES ASSUME RoomForReadable, log_start # 1
                   PROVE  \E i \in ReadableSnapshots' : i + 1 >= log_start
      BY <1>1, <2>7 DEF Covered
    <3>2. PICK i \in ReadableSnapshots : i + 1 >= log_start
      BY <2>1, <3>1 DEF Stored, Covered
    <3>3. i < idx /\ i \in Nat
      BY <2>6, ReadableIndex
    <3>4. idx + 1 >= log_start
      BY <2>5, <3>2, <3>3, Numbers, SMT
    <3> QED BY <2>9, <3>1, <3>4
  <2>14. Control' /\ Pending'
    BY <1>1, <2>1, <2>2 DEF Control, Pending
  <2> QED BY <2>10, <2>11, <2>12, <2>13, <2>14 DEF Unspoiled, Stored
<1> QED BY <1>1, <1>3, <1>4 DEF GoodInv

\* The log is dropped up to the file that was renamed.
LEMMA ClearGarbageGood ==
    ASSUME TypedInv, GoodInv, ClearGarbage
    PROVE  GoodInv'
<1>1. /\ UNCHANGED <<log, installing, queued, last_committed_idx>>
      /\ UNCHANGED <<existing_snapshots, latest_snapshot_meta>>
      /\ UNCHANGED <<spoiled, abandoned, crashes>>
      /\ "snapshot" \notin freed => container' = DestroySnapshot(container)
      /\ freed' = freed \ {"snapshot"}
      /\ stage = "written" /\ stage' = "idle" /\ snapshot' = None
      /\ snapshot_running' = FALSE
      /\ log_start' = Max({log_start, snapshot.last_log_idx + 1})
  BY SMT DEF ClearGarbage, disk
<1>2. \/ stray' /\ "snapshot" \in freed
      \/ stray' = stray /\ Reads(container', Contents(container))
  BY ClearGarbageStorage
<1>3. StoragePrefix'
  <2>1. CASE stray' /\ "snapshot" \in freed
    <3>1. spoiled
      BY <2>1 DEF GoodInv, Unspoiled, Control
    <3> QED BY <1>1, <2>1, <3>1 DEF StoragePrefix
  <2>2. CASE stray' = stray /\ Reads(container', Contents(container))
    BY <1>1, <2>2 DEF GoodInv, StoragePrefix, Reads
  <2> QED BY <1>2, <2>1, <2>2
<1>4. ASSUME ~spoiled PROVE Unspoiled'
  <2>1. Control /\ Pending /\ Stored
    BY <1>4 DEF GoodInv, Unspoiled
  <2>2. /\ container' = DestroySnapshot(container) /\ freed' = {}
        /\ queued = None /\ installing = None
    BY <1>1, <2>1 DEF Control
  <2> DEFINE u == DestroySnapshot(container)
  <2>3. Fresh(u)
    <3>1. Listed(container, Keys, Value)
      BY DEF TypedInv, StorageOK
    <3> QED BY <3>1, DestroyOK DEF Fresh
  <2> HIDE DEF u
  <2>4. Control' /\ Pending'
    BY <1>1, <2>1, <2>2, <2>3 DEF Control, Pending, u
  <2>5. /\ ReadableSnapshots' = ReadableSnapshots
        /\ RoomForReadable' <=> RoomForReadable
    BY <1>1, SameFiles
  <2>6. Settled' /\ Leftover' /\ Received' /\ Ordered'
    BY <1>1, <2>1, <2>2, <2>5 DEF Stored, Settled, Leftover, Received, Ordered
  <2>7. Covered'
    <3> DEFINE idx == snapshot.last_log_idx
               S == {log_start, idx + 1}
    <3>1. SUFFICES ASSUME RoomForReadable
                   PROVE  \/ log_start' = 1
                          \/ \E i \in ReadableSnapshots : i + 1 >= log_start'
      BY <2>5 DEF Covered
    <3>2. idx \in ReadableSnapshots
      BY <1>1, <2>1, <3>1 DEF Stored, Ordered
    <3>3. idx \in 1 .. Len(log)
      BY <3>2, ReadableIndex
    <3>4. log_start' \in S
      <4>1. Len(log) + 1 \in Nat /\ log_start \in 0 .. Len(log) + 1
            /\ idx + 1 \in 0 .. Len(log) + 1
        BY <3>3, Numbers, SMT DEF TypedInv, LogOK
      <4>2. S \subseteq 0 .. Len(log) + 1 /\ S # {}
        BY <4>1
      <4>3. Max(S) \in S
        BY <4>1, <4>2, MaxUpTo
      <4> QED BY <1>1, <4>3
    <3>5. CASE log_start' = log_start
      BY <2>1, <3>1, <3>5 DEF Stored, Covered
    <3>6. CASE log_start' = idx + 1
      <4>1. idx + 1 >= idx + 1
        BY <3>3, SMT
      <4> QED BY <3>2, <3>6, <4>1
    <3> QED BY <3>4, <3>5, <3>6
  <2> QED BY <2>4, <2>6, <2>7 DEF Unspoiled, Stored
<1> QED BY <1>1, <1>3, <1>4 DEF GoodInv

\* A snapshot that fails leaves the storage as it is.
LEMMA FailWritingGood ==
    ASSUME TypedInv, GoodInv, FailWriting
    PROVE  GoodInv'
<1>1. /\ UNCHANGED <<log, last_committed_idx, container, stray, crashes>>
      /\ spoiled' = TRUE
  BY DEF FailWriting
<1> QED BY <1>1 DEF GoodInv, StoragePrefix

\* The destruction of a failed task touches no file, and no storage but the
\* one it was taken of, unless that one is gone.
LEMMA DestroyFailedGood ==
    ASSUME TypedInv, GoodInv, DestroyFailed
    PROVE  GoodInv'
<1>1. /\ UNCHANGED <<log, last_committed_idx, spoiled, crashes>>
      /\ stage = "failed"
  BY SMT DEF DestroyFailed, raft
<1>2. spoiled
  BY <1>1 DEF GoodInv, Unspoiled, Control
<1>3. \/ stray' /\ "snapshot" \in freed
      \/ stray' = stray /\ Reads(container', Contents(container))
  BY DestroyFailedStorage
<1>4. CASE stray' /\ "snapshot" \in freed
  BY <1>1, <1>2, <1>4 DEF GoodInv, StoragePrefix
<1>5. CASE stray' = stray /\ Reads(container', Contents(container))
  BY <1>1, <1>2, <1>5 DEF GoodInv, StoragePrefix, Reads
<1> QED BY <1>3, <1>4, <1>5

\* A snapshot that is taken of a storage and destroyed at once leaves nothing.
LEMMA RetakenFresh ==
    ASSUME TypedInv, Fresh(container),
           container' = disableSnapshotMode(TurnOn(container))
    PROVE  Fresh(container')
<1> DEFINE t == TurnOn(container)
           u == disableSnapshotMode(t)
<1>1. Listed(container, Keys, Value)
  BY DEF TypedInv, StorageOK
<1>2. /\ Listed(t, Keys, Value)
      /\ t.snapshot_invalid_iters = container.snapshot_invalid_iters
  BY <1>1, TurnOnOK
<1> HIDE DEF t
<1>3. ~u.snapshot_mode /\ u.snapshot_invalid_iters = t.snapshot_invalid_iters
  BY <1>2, DisableOK
<1> HIDE DEF u
<1>4. container' = u
  BY DEF u, t
<1> QED BY <1>2, <1>3, <1>4 DEF Fresh

\* A snapshot begins to arrive while none is written.
LEMMA ReceiveFirstGood ==
    ASSUME TypedInv, GoodInv, ReceiveFirst
    PROVE  GoodInv'
<1>1. /\ UNCHANGED <<log, log_start, snapshot_running, last_committed_idx>>
      /\ UNCHANGED <<queued, snapshot, stage, freed>>
      /\ UNCHANGED <<existing_snapshots, latest_snapshot_meta>>
      /\ UNCHANGED <<stray, abandoned, crashes>>
      /\ container' = disableSnapshotMode(TurnOn(container))
      /\ spoiled' = (spoiled \/ snapshot_running)
      /\ installing = None
  BY SMT DEF ReceiveFirst, task, disk
<1>2. PICK idx \in last_committed_idx + 1 .. Len(log) :
          installing' = [last_log_idx |-> idx, saved |-> 0]
  BY DEF ReceiveFirst
<1>3. Reads(container', Contents(container))
  BY <1>1, RetakenStorage
<1>4. StoragePrefix'
  BY <1>1, <1>3 DEF GoodInv, StoragePrefix, Reads
<1>5. ASSUME ~spoiled' PROVE Unspoiled'
  <2>1. ~spoiled /\ ~snapshot_running
    BY <1>1, <1>5
  <2>2. Control /\ Pending /\ Stored
    BY <2>1 DEF GoodInv, Unspoiled
  <2>3. queued = None /\ stage = "idle" /\ Fresh(container)
    BY <2>1, <2>2 DEF Control
  <2>4. Fresh(container')
    BY <1>1, <2>3, RetakenFresh
  <2>5. Control' /\ Pending'
    BY <1>1, <2>1, <2>2, <2>3, <2>4 DEF Control, Pending
  <2>6. /\ ReadableSnapshots' = ReadableSnapshots
        /\ RoomForReadable' <=> RoomForReadable
    BY <1>1, SameFiles
  <2>7. ~(installing'.saved > 0)
    BY <1>2, SMT
  <2>8. \A i : ~Arriving(installing, i) /\ ~Arrived(installing, i)
    BY <1>1 DEF Arriving, Arrived
  <2>9. Stored'
    BY <1>1, <2>2, <2>3, <2>6, <2>7, <2>8
       DEF Stored, Settled, Leftover, Received, Ordered, Covered
  <2> QED BY <2>5, <2>9 DEF Unspoiled
<1> QED BY <1>4, <1>5 DEF GoodInv

\* An object that could not be saved leaves what was there.
LEMMA FailSavingGood ==
    ASSUME TypedInv, GoodInv, FailSaving
    PROVE  GoodInv'
<1>1. /\ UNCHANGED <<log, log_start, snapshot_running, installing>>
      /\ UNCHANGED <<last_committed_idx, queued, snapshot, stage, freed>>
      /\ UNCHANGED <<existing_snapshots, latest_snapshot_meta>>
      /\ UNCHANGED <<spoiled, stray, abandoned, crashes>>
      /\ container' = disableSnapshotMode(TurnOn(container))
      /\ installing # None
  BY SMT DEF FailSaving, raft, task, disk, faults
<1>2. Reads(container', Contents(container))
  BY <1>1, RetakenStorage
<1>3. StoragePrefix'
  BY <1>1, <1>2 DEF GoodInv, StoragePrefix, Reads
<1>4. ASSUME ~spoiled PROVE Unspoiled'
  <2>1. Control /\ Pending /\ Stored
    BY <1>4 DEF GoodInv, Unspoiled
  <2>2. queued = None /\ stage = "idle" /\ Fresh(container)
    BY <1>1, <2>1 DEF Control
  <2>3. Fresh(container')
    BY <1>1, <2>2, RetakenFresh
  <2>4. Control' /\ Pending'
    BY <1>1, <2>1, <2>2, <2>3 DEF Control, Pending
  <2>5. /\ ReadableSnapshots' = ReadableSnapshots
        /\ RoomForReadable' <=> RoomForReadable
    BY <1>1, SameFiles
  <2>6. Stored'
    BY <1>1, <2>1, <2>5
       DEF Stored, Settled, Leftover, Received, Ordered, Covered
  <2> QED BY <2>4, <2>6 DEF Unspoiled
<1> QED BY <1>1, <1>3, <1>4 DEF GoodInv

\* The file of an abandoned transfer stays one that cannot be read.
LEMMA AbandonGood ==
    ASSUME TypedInv, GoodInv, AbandonTransfer
    PROVE  GoodInv'
<1>1. /\ UNCHANGED <<log, log_start, snapshot_running, container>>
      /\ UNCHANGED <<last_committed_idx, queued, snapshot, stage, freed>>
      /\ UNCHANGED <<existing_snapshots, latest_snapshot_meta>>
      /\ UNCHANGED <<spoiled, stray, crashes>>
      /\ installing # None /\ installing' = None
      /\ abandoned' = abandoned \cup {installing.last_log_idx}
  BY SMT DEF AbandonTransfer, task, disk
<1>2. StoragePrefix'
  BY <1>1 DEF GoodInv, StoragePrefix
<1>3. ASSUME ~spoiled PROVE Unspoiled'
  <2>1. Control /\ Pending /\ Stored
    BY <1>3 DEF GoodInv, Unspoiled
  <2>2. queued = None /\ stage = "idle"
    BY <1>1, <2>1 DEF Control
  <2>3. Control' /\ Pending'
    BY <1>1, <2>1 DEF Control, Pending
  <2>4. ReadableSnapshots' = ReadableSnapshots
    BY <1>1 DEF ReadableSnapshots
  <2>5. RoomForReadable' => RoomForReadable
    <3> DEFINE B == abandoned
               C == abandoned'
    <3>1. IsFiniteSet(B) /\ IsFiniteSet(C) /\ B \subseteq C
      <4>1. abandoned \subseteq 1 .. Len(log) /\ Len(log) \in Nat
        BY Numbers DEF TypedInv, LogOK
      <4>2. 1 \in Int /\ Len(log) \in Int
        BY <4>1, SMT
      <4>3. IsFiniteSet(B)
        BY <4>1, <4>2, FS_Interval, FS_Subset
      <4> QED BY <1>1, <4>3, FS_AddElement
    <3> HIDE DEF B, C
    <3>2. /\ Cardinality(B) <= Cardinality(C)
          /\ Cardinality(B) \in Nat /\ Cardinality(C) \in Nat
      BY <3>1, FS_Subset, FS_CardinalityType
    <3>3. Cardinality(C) + 2 <= snapshots_to_keep =>
              Cardinality(B) + 2 <= snapshots_to_keep
      BY <3>2, SnapshotsToKeepAssumption, SMT
    <3> QED BY <3>3 DEF RoomForReadable, B, C
  <2>6. Received' /\ Ordered' /\ Covered'
    BY <1>1, <2>1, <2>2, <2>4, <2>5 DEF Stored, Received, Ordered, Covered
  <2>7. Leftover'
    BY <1>1, <2>1, <2>4 DEF Stored, Leftover, Arriving
  <2>8. Settled'
    <3>1. installing.saved # 2
      <4>1. installing.saved < 2
        BY DEF AbandonTransfer
      <4> QED BY <4>1, SMT
    <3> QED BY <1>1, <2>1, <2>4, <3>1 DEF Stored, Settled, Arrived
  <2> QED BY <2>3, <2>6, <2>7, <2>8 DEF Unspoiled, Stored
<1> QED BY <1>1, <1>2, <1>3 DEF GoodInv

\* The newest file that can be read stays when the object 0 of a transfer is
\* saved: there is room for it and for those that cannot be read.
LEMMA NewestStays ==
    ASSUME TypedInv, Settled, Leftover, RoomForReadable,
           installing # None, installing.saved = 0, LatestReadable # 0,
           NEW file,
           existing_snapshots' = AddFile(existing_snapshots,
                                         installing.last_log_idx, file)
    PROVE  /\ LatestReadable \in DOMAIN existing_snapshots'
           /\ LatestReadable # installing.last_log_idx
<1> DEFINE n == Len(log)
           B == abandoned
           idx == installing.last_log_idx
           old == existing_snapshots
           i == LatestReadable
<1>1. IsFiniteSet(B) /\ Cardinality(B) + 2 <= snapshots_to_keep
  BY RoomIsThere
<1>2. /\ idx \in last_committed_idx + 1 .. Len(log)
      /\ idx \in 0 .. n /\ n \in Nat /\ DOMAIN old \subseteq 0 .. n
  <2>1. idx \in last_committed_idx + 1 .. Len(log)
    BY DEF TypedInv, InstallOK
  <2>2. idx \in 0 .. n
    BY <2>1, Numbers, SMT
  <2> QED BY <2>1, <2>2, Numbers, ReadableIndex
<1>3. 0 # 1 /\ 0 # 2
  BY SMT
<1>4. i \in ReadableSnapshots /\ i \in DOMAIN old /\ i \in Nat
  BY LatestReadableOK, ReadableIndex
<1>5. i # idx
  <2>1. i <= last_committed_idx
    BY <1>3, <1>4 DEF Settled, Arrived
  <2> HIDE DEF i, idx
  <2> QED BY <1>2, <1>4, <2>1, Numbers, SMT
<1>6. \A j \in DOMAIN old : j < i \/ j \in B \cup {i, idx}
  <2>1. ASSUME NEW j \in ReadableSnapshots PROVE j < i \/ j = i
    <3>1. j <= i /\ j \in Nat
      BY LatestReadableOK, ReadableIndex
    <3> HIDE DEF i
    <3> QED BY <1>4, <3>1, SMT
  <2>2. ASSUME NEW j \in DOMAIN old, j \notin ReadableSnapshots PROVE j \in B
    BY <1>3, <2>2 DEF Leftover, Arriving
  <2> QED BY <2>1, <2>2
<1>7. i \in DOMAIN old \cup {idx}
  BY <1>4
<1> HIDE DEF n, B, idx, old, i
<1>8. i \in DOMAIN AddFile(old, idx, file)
  BY <1>1, <1>2, <1>6, <1>7, FileStays, SMT
<1> QED BY <1>5, <1>8 DEF i, idx, old

\* An object that is saved stays as long as there is room.
LEMMA ObjectStays ==
    ASSUME TypedInv, Settled, Leftover, RoomForReadable,
           installing # None, installing.saved = 0,
           NEW file,
           existing_snapshots' = AddFile(existing_snapshots,
                                         installing.last_log_idx, file)
    PROVE  installing.last_log_idx \in DOMAIN existing_snapshots'
<1> DEFINE n == Len(log)
           B == abandoned
           idx == installing.last_log_idx
           old == existing_snapshots
<1>1. IsFiniteSet(B) /\ Cardinality(B) + 2 <= snapshots_to_keep
  BY RoomIsThere
<1>2. /\ idx \in last_committed_idx + 1 .. Len(log)
      /\ idx \in 0 .. n /\ n \in Nat /\ DOMAIN old \subseteq 0 .. n
  <2>1. idx \in last_committed_idx + 1 .. Len(log)
    BY DEF TypedInv, InstallOK
  <2>2. idx \in 0 .. n
    BY <2>1, Numbers, SMT
  <2> QED BY <2>1, <2>2, Numbers, ReadableIndex
<1>3. 0 # 1 /\ 0 # 2
  BY SMT
<1>4. \A j \in DOMAIN old : j < idx \/ j \in B \cup {idx, idx}
  <2>1. ASSUME NEW j \in ReadableSnapshots PROVE j < idx
    <3>1. j <= last_committed_idx /\ j \in Nat
      BY <1>3, ReadableIndex DEF Settled, Arrived
    <3> HIDE DEF idx
    <3> QED BY <1>2, <3>1, Numbers, SMT
  <2>2. ASSUME NEW j \in DOMAIN old, j \notin ReadableSnapshots PROVE j \in B
    BY <1>3, <2>2 DEF Leftover, Arriving
  <2> QED BY <2>1, <2>2
<1>5. idx \in DOMAIN old \cup {idx}
  OBVIOUS
<1> HIDE DEF n, B, idx, old
<1>6. idx \in DOMAIN AddFile(old, idx, file)
  BY <1>1, <1>2, <1>4, <1>5, FileStays, SMT
<1> QED BY <1>6 DEF idx, old

\* An object is saved: the newest file that can be read stays, and the object
\* cannot be read until it is the snapshot.
LEMMA SaveGood ==
    ASSUME TypedInv, GoodInv, save_logical_snp_obj
    PROVE  GoodInv'
<1> DEFINE idx == installing.last_log_idx
           saved == installing.saved
           file == Object(saved, StateOf(log, idx))
           old == existing_snapshots
           new == existing_snapshots'
<1>1. /\ UNCHANGED <<log, log_start, snapshot_running, container>>
      /\ UNCHANGED <<last_committed_idx, queued, snapshot, stage, freed>>
      /\ UNCHANGED <<spoiled, stray, abandoned, crashes>>
      /\ latest_snapshot_meta' = idx
  BY SMT DEF save_logical_snp_obj, task, faults
<1>2. /\ installing # None
      /\ idx \in last_committed_idx + 1 .. Len(log)
      /\ saved \in 0 .. 1
      /\ installing' = [last_log_idx |-> idx, saved |-> saved + 1]
      /\ new = AddFile(old, idx, file) /\ Added(old, new, idx, file)
  BY SaveFiles
<1>3. StoragePrefix'
  BY <1>1 DEF GoodInv, StoragePrefix
<1>4. ASSUME ~spoiled PROVE Unspoiled'
  <2>1. Control /\ Pending /\ Settled /\ Leftover /\ Received /\ Covered
    BY <1>4 DEF GoodInv, Unspoiled, Stored
  <2>2. queued = None /\ stage = "idle" /\ ~snapshot_running
    BY <1>2, <2>1 DEF Control
  <2>3. /\ installing'.last_log_idx = idx /\ installing'.saved = saved + 1
        /\ installing' # None
    <3>1. [last_log_idx |-> idx, saved |-> saved + 1] \in
              [last_log_idx : Nat, saved : Nat]
      <4>1. saved + 1 \in Nat /\ idx \in Nat
        BY <1>2, Numbers, SMT
      <4> QED BY <4>1
    <3> QED BY <1>2, <3>1, NoneAssumption
  <2>4. /\ idx \in Nat /\ idx \in 0 .. Len(log)
        /\ ~(idx <= last_committed_idx)
        /\ saved \in {0, 1} /\ saved # 2 /\ 0 + 1 = 1 /\ 1 + 1 = 2
        /\ 0 # 1 /\ 1 # 2 /\ 1 > 0
    BY <1>2, Numbers, SMT
  <2>5. RoomForReadable' <=> RoomForReadable
    BY <1>1 DEF RoomForReadable
  <2>6. /\ \A i \in DOMAIN new :
               i # idx => /\ i \in DOMAIN old /\ new[i] = old[i]
                          /\ i \in ReadableSnapshots' <=> i \in ReadableSnapshots
        /\ idx \in DOMAIN new =>
               /\ new[idx] = file
               /\ idx \in ReadableSnapshots' <=> Readable(file)
        /\ ReadableSnapshots' \subseteq DOMAIN new
    <3> HIDE DEF idx, file
    <3> QED BY <1>2, ReadableAdded
  <2>7. saved = 0 => ~Readable(file)
    <3>1. Len(<< >>) # 1
      BY SMT
    <3> QED BY <3>1 DEF Object, Readable, FakeFile
  <2>8. saved = 1 => Written(file, StateOf(log, idx), Keys, Value) /\ Readable(file)
    <3> DEFINE m == StateOf(log, idx)
    <3>1. StateOK(m, idx)
      BY <2>4, PrefixOK
    <3>2. saved = 1 => file = MapFile(m)
      BY <2>4 DEF Object
    <3> HIDE DEF m, file
    <3>3. Written(MapFile(m), m, Keys, Value)
      BY <3>1, MapFileOK
    <3> QED BY <3>2, <3>3, WrittenReadable DEF m
  <2>9. Settled'
    <3>1. ASSUME NEW i \in ReadableSnapshots'
          PROVE  /\ Written(new[i], StateOf(log, i), Keys, Value)
                 /\ i <= last_committed_idx \/ Arrived(installing', i)
      <4>1. CASE i = idx
        <5>1. i \in DOMAIN new /\ saved = 1
          BY <2>4, <2>6, <2>7, <3>1, <4>1
        <5> QED BY <2>3, <2>4, <2>6, <2>8, <4>1, <5>1 DEF Arrived
      <4>2. CASE i # idx
        <5>1. i \in ReadableSnapshots /\ new[i] = old[i]
          BY <2>6, <4>2
        <5> QED BY <2>1, <2>4, <5>1 DEF Settled, Arrived
      <4> QED BY <4>1, <4>2
    <3> HIDE DEF idx
    <3> QED BY <1>1, <3>1 DEF Settled
  <2>10. Leftover'
    <3>1. ASSUME NEW i \in DOMAIN new, i \notin ReadableSnapshots'
          PROVE  i \in abandoned \/ Arriving(installing', i)
      <4>1. CASE i = idx
        <5>1. saved = 0
          BY <2>4, <2>6, <2>8, <3>1, <4>1
        <5> QED BY <2>3, <2>4, <4>1, <5>1 DEF Arriving
      <4>2. CASE i # idx
        <5>1. i \in DOMAIN old /\ i \notin ReadableSnapshots
          BY <2>6, <3>1, <4>2
        <5> QED BY <2>1, <4>2, <5>1 DEF Leftover, Arriving
      <4> QED BY <4>1, <4>2
    <3> HIDE DEF idx
    <3> QED BY <1>1, <3>1 DEF Leftover
  <2>11. RoomForReadable => idx \in DOMAIN new
    <3>1. CASE saved = 0
      BY <1>2, <2>1, <3>1, ObjectStays
    <3>2. CASE saved = 1
      <4>1. RoomForReadable => idx \in DOMAIN old
        BY <1>2, <2>1, <2>4, <3>2 DEF Received
      <4> QED BY <1>2, <4>1 DEF Added
    <3> QED BY <2>4, <3>1, <3>2
  <2>12. Received' /\ Ordered'
    BY <1>1, <2>2, <2>3, <2>5, <2>11 DEF Received, Ordered
  <2>13. Covered'
    <3>1. SUFFICES ASSUME RoomForReadable, log_start # 1
                   PROVE  \E i \in ReadableSnapshots' : i + 1 >= log_start
      BY <1>1, <2>5 DEF Covered
    <3>2. PICK i \in ReadableSnapshots : i + 1 >= log_start
      BY <2>1, <3>1 DEF Covered
    <3>3. CASE saved = 0
      <4> DEFINE j == LatestReadable
      <4>1. i <= j /\ i \in 1 .. Len(log) /\ j \in 0 .. Len(log)
        BY LatestReadableOK, ReadableIndex
      <4> HIDE DEF j
      <4>2. j # 0 /\ j + 1 >= log_start
        BY <3>2, <4>1, Numbers, SMT
      <4>3. j \in ReadableSnapshots
        BY <4>2, LatestReadableOK DEF j
      <4>4. j \in DOMAIN new /\ j # idx
        BY <1>2, <2>1, <3>1, <3>3, <4>2, NewestStays DEF j
      <4>5. j \in ReadableSnapshots'
        BY <2>6, <4>3, <4>4
      <4> QED BY <4>2, <4>5
    <3>4. CASE saved = 1
      <4>1. i # idx
        BY <2>1, <2>4 DEF Settled, Arrived
      <4>2. idx \in DOMAIN old /\ i \in DOMAIN old
        BY <1>2, <2>1, <2>4, <3>1, <3>4, ReadableIndex DEF Received
      <4>3. i \in DOMAIN new
        BY <1>2, <4>2 DEF Added
      <4> QED BY <2>6, <3>2, <4>1, <4>3
    <3> QED BY <2>4, <3>3, <3>4
  <2>14. Control' /\ Pending'
    BY <1>1, <2>1, <2>2 DEF Control, Pending
  <2> QED BY <2>9, <2>10, <2>12, <2>13, <2>14 DEF Unspoiled, Stored
<1> QED BY <1>1, <1>3, <1>4 DEF GoodInv

\* The storage that is put in place of the old one is what the log makes up
\* to the index of the snapshot.
LEMMA ApplyGood ==
    ASSUME TypedInv, GoodInv, apply_snapshot
    PROVE  GoodInv'
<1> DEFINE idx == installing.last_log_idx
           m == StateOf(log, idx)
<1>1. /\ UNCHANGED <<log, snapshot_running, queued, snapshot, stage>>
      /\ UNCHANGED <<existing_snapshots, latest_snapshot_meta>>
      /\ UNCHANGED <<spoiled, abandoned, crashes>>
      /\ installing # None /\ installing.saved = 2 /\ installing' = None
  <2>1. /\ UNCHANGED <<log, snapshot_running, queued, snapshot, stage, disk,
                       spoiled, abandoned, crashes>>
        /\ installing # None /\ installing.saved = 2 /\ installing' = None
    BY DEF apply_snapshot
  <2> QED BY <2>1, SMT DEF disk
<1>2. /\ idx \in last_committed_idx + 1 .. Len(log)
      /\ idx \in Nat /\ idx \in 0 .. Len(log) /\ 2 # 1 /\ 2 > 0
  <2>1. idx \in last_committed_idx + 1 .. Len(log)
    BY <1>1 DEF TypedInv, InstallOK
  <2> QED BY <2>1, Numbers, SMT
<1>3. StateOK(m, idx)
  BY <1>2, PrefixOK
<1>4. CASE idx = latest_snapshot_meta /\ idx \in DOMAIN existing_snapshots
  <2> DEFINE file == existing_snapshots[idx]
             d == deserialize(NewStorage, file)
  <2>1. /\ container' = d /\ last_committed_idx' = idx /\ log_start' = idx + 1
        /\ freed' = PendingTasks
    BY <1>4 DEF apply_snapshot
  <2>2. file = MapFile(m)
    BY <1>1, <1>4 DEF TypedInv, FilesOK
  <2> HIDE DEF m, file
  <2>3. Written(file, m, Keys, Value) /\ Readable(file)
    BY <1>3, <2>2, MapFileOK
  <2>4. Loaded(d) /\ Reads(d, m)
    BY <1>3, <2>3, RestoreOK
  <2> HIDE DEF d
  <2>5. StoragePrefix'
    BY <1>1, <2>1, <2>4 DEF StoragePrefix, m
  <2>6. ASSUME ~spoiled PROVE Unspoiled'
    <3>1. Control /\ Settled /\ Leftover
      BY <2>6 DEF GoodInv, Unspoiled, Stored
    <3>2. queued = None /\ stage = "idle" /\ ~snapshot_running /\ freed' = {}
      <4>1. queued = None /\ stage = "idle" /\ ~snapshot_running
        BY <1>1, <3>1 DEF Control
      <4>2. snapshot = None
        BY <4>1 DEF TypedInv, TaskOK
      <4> QED BY <2>1, <4>1, <4>2 DEF PendingTasks
    <3>3. Fresh(container')
      BY <2>1, <2>4 DEF Loaded
    <3>4. Control' /\ Pending'
      BY <1>1, <3>1, <3>2, <3>3 DEF Control, Pending
    <3>5. /\ ReadableSnapshots' = ReadableSnapshots
          /\ RoomForReadable' <=> RoomForReadable
      BY <1>1, SameFiles
    <3>6. Settled'
      <4>1. ASSUME NEW i \in ReadableSnapshots
            PROVE  /\ i <= idx
                   /\ Written(existing_snapshots[i], StateOf(log, i), Keys, Value)
        <5>1. /\ i <= last_committed_idx \/ i = idx
              /\ Written(existing_snapshots[i], StateOf(log, i), Keys, Value)
          BY <3>1 DEF Settled, Arrived
        <5>2. i \in Nat
          BY ReadableIndex
        <5> HIDE DEF idx
        <5>3. i <= idx
          BY <1>2, <5>1, <5>2, Numbers, SMT
        <5> QED BY <5>1, <5>3
      <4> HIDE DEF idx
      <4> QED BY <1>1, <2>1, <3>5, <4>1 DEF Settled
    <3>7. Leftover' /\ Received' /\ Ordered'
      BY <1>1, <1>2, <3>1, <3>2, <3>5 DEF Leftover, Arriving, Received, Ordered
    <3>8. Covered'
      <4>1. idx + 1 >= idx + 1
        BY <1>2, SMT
      <4>2. idx \in ReadableSnapshots
        BY <1>4, <2>3 DEF ReadableSnapshots, file
      <4> QED BY <2>1, <3>5, <4>1, <4>2 DEF Covered
    <3> QED BY <3>4, <3>6, <3>7, <3>8 DEF Unspoiled, Stored
  <2> QED BY <1>1, <2>5, <2>6 DEF GoodInv
<1>5. CASE ~(idx = latest_snapshot_meta /\ idx \in DOMAIN existing_snapshots)
  <2>1. UNCHANGED <<container, last_committed_idx, log_start, freed, stray>>
    BY <1>5 DEF apply_snapshot
  <2>2. StoragePrefix'
    BY <1>1, <2>1 DEF GoodInv, StoragePrefix
  <2>3. ASSUME ~spoiled PROVE Unspoiled'
    <3>1. Control /\ Pending /\ Stored
      BY <2>3 DEF GoodInv, Unspoiled
    <3>2. /\ ReadableSnapshots' = ReadableSnapshots
          /\ RoomForReadable' <=> RoomForReadable
      BY <1>1, SameFiles
    <3>3. idx \notin DOMAIN existing_snapshots
      BY <1>1, <1>2, <1>5, <3>1 DEF Stored, Received
    <3>4. Settled'
      <4>1. ASSUME NEW i \in ReadableSnapshots PROVE ~Arrived(installing, i)
        BY <3>3, ReadableIndex DEF Arrived
      <4> QED BY <1>1, <2>1, <3>1, <3>2, <4>1 DEF Stored, Settled
    <3>5. Leftover' /\ Received'
      BY <1>1, <1>2, <3>1, <3>2 DEF Stored, Leftover, Arriving, Received
    <3>6. Control' /\ Pending'
      BY <1>1, <2>1, <3>1 DEF Control, Pending
    <3>7. Ordered' /\ Covered'
      BY <1>1, <2>1, <3>1, <3>2 DEF Stored, Ordered, Covered
    <3> QED BY <3>4, <3>5, <3>6, <3>7 DEF Unspoiled, Stored
  <2> QED BY <1>1, <2>2, <2>3 DEF GoodInv
<1> QED BY <1>4, <1>5

\* init() loads the newest file that can be read: what the log makes up to
\* its index.
LEMMA RestartGood ==
    ASSUME TypedInv, GoodInv, Restart
    PROVE  GoodInv'
<1> DEFINE latest == LatestReadable
           old == existing_snapshots
           new == existing_snapshots'
<1>1. /\ UNCHANGED <<log, log_start, spoiled, abandoned>>
      /\ crashes' = crashes + 1
      /\ latest_snapshot_meta' = latest
      /\ last_committed_idx' = latest
      /\ container' = IF latest = 0
                      THEN NewStorage
                      ELSE deserialize(NewStorage, old[latest])
      /\ queued' = None /\ snapshot' = None /\ stage' = "idle"
      /\ freed' = {} /\ snapshot_running' = FALSE /\ installing' = None
  BY DEF Restart
<1>2. /\ latest \in {0} \cup ReadableSnapshots
      /\ \A i \in ReadableSnapshots : i <= latest
      /\ latest \in 0 .. Len(log)
  BY LatestReadableOK
<1>3. /\ DOMAIN new = {i \in DOMAIN old : i <= latest}
      /\ \A i \in DOMAIN new : new[i] = old[i]
  BY RestartFiles
<1>4. Loaded(container')
  BY RestartTyped
<1> HIDE DEF latest
<1>5. CASE spoiled
  <2>1. crashes' > 0
    BY <1>1, SMT DEF TypedInv, FlagsOK
  <2> QED BY <1>1, <1>5, <2>1 DEF GoodInv, StoragePrefix
<1>6. CASE ~spoiled
  <2>1. Settled /\ Leftover /\ Covered
    BY <1>6 DEF GoodInv, Unspoiled, Stored
  <2>2. StoragePrefix'
    <3>1. CASE latest = 0
      <4>1. Reads(NewStorage, StateOf(log, 0))
        BY NewStorageOK, StateOfNone
      <4> QED BY <1>1, <3>1, <4>1 DEF StoragePrefix
    <3>2. CASE latest # 0
      <4> DEFINE m == StateOf(log, latest)
                 file == old[latest]
      <4>1. latest \in ReadableSnapshots
        BY <1>2, <3>2
      <4>2. Written(file, m, Keys, Value)
        BY <2>1, <4>1 DEF Settled
      <4>3. StateOK(m, latest)
        BY <1>2, PrefixOK
      <4>4. container' = deserialize(NewStorage, file)
        BY <1>1, <3>2
      <4> HIDE DEF m, file
      <4>5. Reads(deserialize(NewStorage, file), m)
        BY <4>2, <4>3, RestoreOK
      <4>6. Reads(container', m)
        BY <4>4, <4>5
      <4> QED BY <1>1, <4>6 DEF StoragePrefix, m
    <3> QED BY <3>1, <3>2
  <2>3. Control' /\ Pending' /\ Received' /\ Ordered'
    BY <1>1, <1>4 DEF Control, Pending, Received, Ordered, Loaded
  <2>4. \A i \in DOMAIN new : /\ i \in DOMAIN old /\ i <= latest
                              /\ new[i] = old[i]
                              /\ i \in ReadableSnapshots' <=> i \in ReadableSnapshots
    BY <1>3 DEF ReadableSnapshots
  <2>5. ReadableSnapshots' \subseteq DOMAIN new
    BY DEF ReadableSnapshots
  <2>6. Settled'
    BY <1>1, <2>1, <2>4, <2>5 DEF Settled
  <2>7. Leftover'
    <3>1. ASSUME NEW i \in DOMAIN new, i \notin ReadableSnapshots'
          PROVE  i \in abandoned
      <4>1. i \in DOMAIN old /\ i \notin ReadableSnapshots /\ i <= latest
        BY <2>4, <3>1
      <4>2. CASE Arriving(installing, i)
        <5>1. /\ i \in last_committed_idx + 1 .. Len(log)
              /\ installing.saved = 1
          BY <4>2 DEF Arriving, TypedInv, InstallOK
        <5>2. latest # 0
          BY <1>2, <4>1, <5>1, Numbers, SMT
        <5>3. latest \in ReadableSnapshots /\ 1 # 2
          BY <1>2, <5>2, SMT
        <5>4. latest <= last_committed_idx
          BY <2>1, <5>1, <5>3 DEF Settled, Arrived
        <5> QED BY <1>2, <4>1, <5>1, <5>4, Numbers, SMT
      <4>3. CASE ~Arriving(installing, i)
        BY <2>1, <4>1, <4>3 DEF Leftover
      <4> QED BY <4>2, <4>3
    <3> QED BY <1>1, <3>1 DEF Leftover
  <2>8. Covered'
    <3>1. RoomForReadable' <=> RoomForReadable
      BY <1>1 DEF RoomForReadable
    <3>2. SUFFICES ASSUME RoomForReadable, log_start # 1
                   PROVE  \E i \in ReadableSnapshots' : i + 1 >= log_start
      BY <1>1, <3>1 DEF Covered
    <3>3. PICK i \in ReadableSnapshots : i + 1 >= log_start
      BY <2>1, <3>2 DEF Covered
    <3>4. i \in DOMAIN new
      BY <1>2, <1>3, ReadableIndex
    <3> QED BY <2>4, <3>3, <3>4
  <2> QED BY <2>2, <2>3, <2>6, <2>7, <2>8 DEF GoodInv, Unspoiled, Stored
<1> QED BY <1>5, <1>6

\* Nothing happens.
LEMMA StutterGood ==
    ASSUME GoodInv, UNCHANGED vars
    PROVE  GoodInv'
<1>1. /\ UNCHANGED <<log, log_start, snapshot_running, installing>>
      /\ UNCHANGED <<container, last_committed_idx>>
      /\ UNCHANGED <<queued, snapshot, stage, freed>>
      /\ UNCHANGED <<existing_snapshots, latest_snapshot_meta>>
      /\ UNCHANGED <<spoiled, stray, abandoned, crashes>>
  BY SMT DEF vars, raft, task, disk, faults
<1>2. StoragePrefix' <=> StoragePrefix
  BY <1>1 DEF StoragePrefix
<1>3. Unspoiled => Unspoiled'
  <2>1. /\ ReadableSnapshots' = ReadableSnapshots
        /\ RoomForReadable' <=> RoomForReadable
    BY <1>1, SameFiles
  <2>2. Stored => Stored'
    BY <1>1, <2>1 DEF Stored, Settled, Leftover, Received, Ordered, Covered
  <2> QED BY <1>1, <2>2 DEF Unspoiled, Control, Pending
<1> QED BY <1>1, <1>2, <1>3 DEF GoodInv

\* Every step keeps the storage and the snapshots good.
LEMMA NextGood ==
    ASSUME TypedInv, GoodInv, [Next]_vars
    PROVE  GoodInv'
<1>1. ASSUME NEW request \in Request, Propose(request) PROVE GoodInv'
  BY <1>1, ProposeGood
<1>2. CASE commit
  BY <1>2, CommitGood
<1>3. CASE create_snapshot
  BY <1>3, CreateGood
<1>4. CASE SnapshotThread
  BY <1>4, BeginWritingGood, WriteNodeGood, PublishGood, ClearGarbageGood,
     FailWritingGood, DestroyFailedGood DEF SnapshotThread
<1>5. CASE ReceiveFirst
  BY <1>5, ReceiveFirstGood
<1>6. CASE NetworkThread
  BY <1>6, SaveGood, ApplyGood DEF NetworkThread
<1>7. CASE FailSaving
  BY <1>7, FailSavingGood
<1>8. CASE AbandonTransfer
  BY <1>8, AbandonGood
<1>9. CASE Restart
  BY <1>9, RestartGood
<1>10. CASE UNCHANGED vars
  BY <1>10, StutterGood
<1> QED BY <1>1, <1>2, <1>3, <1>4, <1>5, <1>6, <1>7, <1>8, <1>9, <1>10
        DEF Next

\* The storage and the snapshots are always good.
LEMMA GoodAlways == Spec => [](TypedInv /\ GoodInv)
<1>1. Init => TypedInv /\ GoodInv
  BY InitTyped, InitGood
<1>2. TypedInv /\ GoodInv /\ [Next]_vars => (TypedInv /\ GoodInv)'
  BY NextTyped, NextGood
<1> QED BY <1>1, <1>2, PTL DEF Spec

\* After commit(), apply_snapshot() and init() the storage is what the
\* committed prefix of the log makes.  Snapshots that fail, lag or overlap do
\* not change that until a process starts from one of their files or destroys
\* a snapshot of a storage that apply_snapshot() has replaced.
THEOREM StorageIsLogPrefixAlways == Spec => []StorageIsLogPrefix
<1>1. GoodInv => StorageIsLogPrefix
  BY DEF GoodInv, StoragePrefix, StorageIsLogPrefix, Reads, StateAt
<1> QED BY <1>1, GoodAlways, PTL

\* Every snapshot on disk that deserialize() can read holds what the log makes
\* up to its index, whatever was committed while serialize() wrote it, as long
\* as no snapshot has failed, lagged or overlapped.
THEOREM SnapshotsAreLogPrefixesAlways == Spec => []GoodSnapshotsAreLogPrefixes
<1>1. ASSUME TypedInv, GoodInv PROVE GoodSnapshotsAreLogPrefixes
  <2>1. SUFFICES ASSUME ~spoiled, NEW i \in ReadableSnapshots
                 PROVE  Contents(deserialize(NewStorage, existing_snapshots[i]))
                            = StateAt(i)
    BY DEF GoodSnapshotsAreLogPrefixes, SnapshotsAreLogPrefixes
  <2> DEFINE file == existing_snapshots[i]
             m == StateOf(log, i)
  <2>2. Settled
    BY <1>1, <2>1 DEF GoodInv, Unspoiled, Stored
  <2>3. Written(file, m, Keys, Value)
    BY <2>2 DEF Settled
  <2>4. i \in 0 .. Len(log)
    <3>1. i \in 1 .. Len(log)
      BY <1>1 DEF ReadableSnapshots, TypedInv, FilesOK, AreFiles
    <3> QED BY <1>1, <3>1, Numbers, SMT
  <2>5. StateOK(m, i)
    BY <1>1, <2>4, PrefixOK
  <2> HIDE DEF m, file
  <2>6. Reads(deserialize(NewStorage, file), m)
    BY <2>3, <2>5, RestoreOK
  <2> QED BY <2>6 DEF Reads, StateAt, m, file
<1> QED BY <1>1, GoodAlways, PTL

\* There is never a gap between the newest snapshot that init() can read and
\* the log that NuRaft has kept, as long as no snapshot has failed, lagged or
\* overlapped, and as there is room for two files more than those that
\* save_logical_snp_obj() has left of abandoned transfers.  However many commits,
\* snapshots, transfers and crashes there were.
THEOREM RecoverableAlways == Spec => []Recoverable
<1>1. ASSUME TypedInv, GoodInv PROVE Recoverable
  <2>1. SUFFICES ASSUME ~spoiled, RoomForReadable
                 PROVE  LatestReadable + 1 >= log_start
    BY DEF Recoverable
  <2>2. Covered
    BY <1>1, <2>1 DEF GoodInv, Unspoiled, Stored
  <2>3. LatestReadable \in Nat /\ log_start \in Nat
    <3>1. LatestReadable \in 0 .. Len(log)
      BY <1>1, LatestReadableOK
    <3> QED BY <1>1, <3>1, Numbers, SMT
  <2>4. CASE log_start = 1
    BY <2>3, <2>4, SMT
  <2>5. CASE log_start # 1
    <3>1. PICK i \in ReadableSnapshots : i + 1 >= log_start
      BY <2>1, <2>2, <2>5 DEF Covered
    <3>2. i <= LatestReadable /\ i \in Nat
      BY <1>1, LatestReadableOK, ReadableIndex
    <3> QED BY <2>3, <3>1, <3>2, SMT
  <2> QED BY <2>4, <2>5
<1> QED BY <1>1, GoodAlways, PTL

\* A transfer whose last object save_logical_snp_obj() has saved ends with the
\* storage installed or with a crash: apply_snapshot() finds the file and its
\* index the latest, unless another snapshot has failed, lagged or overlapped or
\* abandoned transfers have taken the room.
THEOREM CompleteTransfersApplied == Spec => [][CompleteIsApplied]_vars
<1>1. ASSUME TypedInv, GoodInv, Next PROVE CompleteIsApplied
  <2> SUFFICES ASSUME installing # None, installing.saved = 2,
                      installing' # installing, ~spoiled, RoomForReadable
               PROVE  \/ last_committed_idx' = installing.last_log_idx
                      \/ crashes' > crashes
    BY DEF CompleteIsApplied
  <2>1. ASSUME NEW request \in Request, Propose(request) PROVE FALSE
    BY <2>1 DEF Propose
  <2>2. CASE commit
    BY <2>2, SMT DEF commit, raft
  <2>3. CASE create_snapshot
    BY <2>3 DEF create_snapshot
  <2>4. CASE SnapshotThread
    <3>1. UNCHANGED installing
      BY <2>4 DEF SnapshotThread, BeginWriting, FailWriting, WriteNode,
         Publish, ClearGarbage, DestroyFailed, raft
    <3> QED BY <3>1
  <2>5. CASE ReceiveFirst
    BY <2>5 DEF ReceiveFirst
  <2>6. CASE save_logical_snp_obj \/ FailSaving \/ AbandonTransfer
    <3>1. ~(2 < 2) /\ 2 # 0
      BY SMT
    <3> QED BY <2>6, <3>1 DEF save_logical_snp_obj, FailSaving, AbandonTransfer
  <2>7. CASE apply_snapshot
    <3>1. Received /\ 2 > 0
      BY <1>1, SMT DEF GoodInv, Unspoiled, Stored
    <3>2. /\ installing.last_log_idx = latest_snapshot_meta
          /\ installing.last_log_idx \in DOMAIN existing_snapshots
      BY <3>1 DEF Received
    <3> QED BY <2>7, <3>2 DEF apply_snapshot
  <2>8. CASE Restart
    <3>1. crashes' = crashes + 1 /\ crashes \in Nat
      BY <1>1, <2>8 DEF Restart, TypedInv, FlagsOK
    <3> QED BY <3>1, SMT
  <2> QED BY <1>1, <2>1, <2>2, <2>3, <2>4, <2>5, <2>6, <2>7, <2>8
          DEF Next, NetworkThread
<1>2. TypedInv /\ GoodInv /\ [Next]_vars => [CompleteIsApplied]_vars
  BY <1>1
<1>3. [](TypedInv /\ GoodInv) /\ [][Next]_vars => [][CompleteIsApplied]_vars
  BY <1>2, PTL
<1> QED BY <1>3, GoodAlways, PTL DEF Spec
=============================================================================
