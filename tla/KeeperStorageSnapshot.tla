------------------------ MODULE KeeperStorageSnapshot ------------------------
(***************************************************************************)
(* An in-memory snapshot of the nodes of Keeper and the thread that writes *)
(* it out (KeeperStorageSnapshot in src/Coordination/                      *)
(* KeeperSnapshotManager.cpp, with the container of KeeperStorage).        *)
(*                                                                         *)
(* Requests change the container under a lock, so each change is one step. *)
(* The snapshot thread reads the list without that lock, so every element  *)
(* it writes is a step of its own.                                         *)
(***************************************************************************)
EXTENDS KeeperSnapshotManager

CONSTANTS
    Key, Value,
    None,            \* no snapshot
    MaxInsertions,   \* bound: elements ever put into the list
    MaxDataSize,     \* bound: approximate_data_size before a change
    MaxSnapshots     \* bound: snapshots taken

\* Nodes carry no log index here: no node is newer than the snapshot.
ASSUME ValueAssumption ==
    \A value \in Value : mzxid(value) = 0 /\ sizeInBytes(value) \in Nat

\* None is neither a snapshot nor a map of nodes.
ASSUME NoneAssumption ==
    /\ None \notin Snapshot(Key, Value)
    /\ \A keys \in SUBSET Key : None \notin [keys -> Value]

VARIABLES
    container,   \* KeeperStorage::container
    snapshot,    \* the KeeperStorageSnapshot of the snapshot thread, or None
    saved,       \* the map read back from the last snapshot finished
    frozen       \* history: the container when the snapshot was taken

vars == <<container, snapshot, saved, frozen>>

Init ==
    /\ container = EmptyTable
    /\ snapshot = None
    /\ saved = None
    /\ frozen = EmptyTable

-----------------------------------------------------------------------------
(***************************************************************************)
(* Requests.                                                               *)
(***************************************************************************)

Room ==
    /\ container.end <= MaxInsertions
    /\ container.approximate_data_size <= MaxDataSize

Insert(key, value) ==
    /\ Room
    /\ container' = insert(container, key, value)
    /\ UNCHANGED <<snapshot, saved, frozen>>

InsertOrReplace(key, value) ==
    /\ Room
    /\ container' = insertOrReplace(container, key, value)
    /\ UNCHANGED <<snapshot, saved, frozen>>

Erase(key) ==
    /\ container' = erase(container, key)
    /\ UNCHANGED <<snapshot, saved, frozen>>

\* The callers have found the key.
UpdateValue(key, value) ==
    /\ contains(container, key)
    /\ Room
    /\ container' = updateValue(container, key, value)
    /\ UNCHANGED <<snapshot, saved, frozen>>

-----------------------------------------------------------------------------
(***************************************************************************)
(* The snapshot.                                                           *)
(***************************************************************************)

TakeSnapshot ==
    /\ snapshot = None
    /\ container.current_version < MaxSnapshots
    /\ snapshot' = NewSnapshot(container, 0)
    /\ container' = TurnOn(container)
    /\ frozen' = container
    /\ UNCHANGED saved

Serialize ==
    /\ snapshot # None
    /\ snapshot.writing
    /\ snapshot' = SerializeNode(snapshot, container)
    /\ UNCHANGED <<container, saved, frozen>>

FinishSnapshot ==
    /\ snapshot # None
    /\ ~snapshot.writing
    /\ saved' = Contents(deserialize(EmptyTable, FileOf(snapshot)))
    /\ container' = DestroySnapshot(container)
    /\ snapshot' = None
    /\ frozen' = EmptyTable

-----------------------------------------------------------------------------
Next ==
    \/ \E key \in Key, value \in Value :
           \/ Insert(key, value)
           \/ InsertOrReplace(key, value)
           \/ UpdateValue(key, value)
    \/ \E key \in Key : Erase(key)
    \/ TakeSnapshot
    \/ Serialize
    \/ FinishSnapshot

Spec == Init /\ [][Next]_vars

-----------------------------------------------------------------------------
(***************************************************************************)
(* Properties.                                                             *)
(***************************************************************************)

\* The table and the snapshot being written have their types, and the table is in snapshot mode exactly while there is a snapshot.
TypeOK ==
    /\ container.list \in [DOMAIN container.list -> Element(Key, Value)]
    /\ container.map \in [DOMAIN container.map -> Nat]
    /\ DOMAIN container.map \subseteq Key
    /\ container.snapshot_mode <=> snapshot # None
    /\ container.approximate_data_size \in Nat
    /\ snapshot \in Snapshot(Key, Value) \cup {None}

\* The map, the list and the vector of outdated iterators of
\* SnapshotableHashTable agree after every call.
TableConsistent == ListConsistent(container)

\* Every key of the list, outdated elements included, has its characters in
\* the arena, and nothing else is left there: insert allocates, erase or
\* clearOutdatedNodes frees exactly once.
KeysLive == KeysAllocated(container)

\* approximate_data_size never falls below what the elements take, so that
\* its unsigned subtractions cannot wrap.
SizeNeverWraps == SizeCovered(container)

\* While a snapshot is being written no request changes or removes an
\* element the snapshot thread has still to read.
FrozenElementsKept ==
    \A i \in DOMAIN frozen.list :
        /\ i \in DOMAIN container.list
        /\ container.list[i].key = frozen.list[i].key
        /\ container.list[i].value = frozen.list[i].value

\* The snapshot thread never dereferences the end of the list.
IteratorValid ==
    snapshot # None /\ snapshot.writing =>
        snapshot.it \in DOMAIN container.list

\* The container and its snapshots behave as a map that is copied in one
\* step.
Atomic ==
    INSTANCE AtomicSnapshot WITH
        Map <- UNION {[keys -> Value] : keys \in SUBSET Key},
        contents <- Contents(container),
        pending <- IF snapshot = None THEN None ELSE Contents(frozen)

\* A snapshot taken by KeeperStorageSnapshot and written out by serialize()
\* is read back by deserialize() as the map it was taken of.
RefinesAtomicSnapshot == Atomic!Spec
=============================================================================
