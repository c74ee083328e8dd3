------------------------ MODULE KeeperSnapshotManager ------------------------
(***************************************************************************)
(* Snapshots of the nodes of Keeper, written to and read from files        *)
(* (src/Coordination/KeeperSnapshotManager.cpp).  A file is a record: the  *)
(* number of nodes it announces and the nodes it holds.  Sessions, access  *)
(* lists and the cluster configuration are copied whole when the snapshot  *)
(* is taken; they are left out.                                            *)
(***************************************************************************)
EXTENDS SnapshotableHashTable

CONSTANTS
    mzxid(_),            \* of a value: the log index that modified it last
    snapshots_to_keep

ASSUME SnapshotsToKeepAssumption == snapshots_to_keep \in Nat \ {0}

\* A snapshot of nodes with keys in K and values in V: what serialize() has
\* yet to write, and the nodes it has written.
Snapshot(K, V) ==
    [last_log_idx : Nat, container_size : Nat, counter : Nat, it : Nat,
     nodes : Seq([key : K, value : V]), writing : BOOLEAN]

\* The constructor of KeeperStorageSnapshot notes how many elements there
\* are and where they begin; TurnOn is what it does to the container.
NewSnapshot(t, last_log_idx) ==
    [last_log_idx |-> last_log_idx, container_size |-> size(t),
     counter |-> 0, it |-> begin(t), nodes |-> <<>>,
     writing |-> size(t) # 0]

TurnOn(t) == enableSnapshotMode(t, t.current_version)

\* The loop ends before the last node.
skipLast(s, t) ==
    LET elem == t.list[s.it]
    IN  [s EXCEPT
            !.nodes = IF s.counter = s.container_size - 1
                      THEN @
                      ELSE Append(@, [key |-> elem.key, value |-> elem.value]),
            !.counter = @ + 1,
            !.it = IF s.counter = s.container_size - 1
                   THEN @
                   ELSE NextIter(t, @),
            !.writing = s.counter # s.container_size - 1]

\* One turn of the loop of serialize().  A node newer than the snapshot
\* ends the loop.  The iterator is not moved past the last element: the
\* list may be growing there.
SerializeNode(s, t) ==
    LET elem == t.list[s.it]
        last == s.counter = s.container_size - 1
    IN  IF mzxid(elem.value) > s.last_log_idx
        THEN [s EXCEPT !.writing = FALSE]
        ELSE [s EXCEPT
                 !.nodes = Append(@, [key |-> elem.key, value |-> elem.value]),
                 !.counter = @ + 1,
                 !.it = IF last THEN @ ELSE NextIter(t, @),
                 !.writing = ~last]

\* The file serialize() has written.
FileOf(s) == [container_size |-> s.container_size, nodes |-> s.nodes]

\* deserialize() takes as many nodes as the file announces; if there are
\* fewer it takes what follows for nodes and fails, as it does on anything
\* that is not a snapshot.
Readable(file) == Len(file.nodes) = file.container_size

\* The nodes are put one after the other into a new container.
deserialize(t, file) ==
    LET loaded[n \in 0 .. Len(file.nodes)] ==
            IF n = 0
            THEN t
            ELSE insertOrReplace(loaded[n - 1], file.nodes[n].key,
                                 file.nodes[n].value)
    IN  loaded[Len(file.nodes)]

\* A file is added one at a time, so one is removed at most.
removeOutdatedSnapshotsIfNeeded(existing) ==
    IF Cardinality(DOMAIN existing) <= snapshots_to_keep
    THEN existing
    ELSE Drop(existing, Min(DOMAIN existing))

\* Nothing is removed.
addOnly(existing, idx, file) == Put(existing, idx, file)

\* The file is written under a temporary name, which a restart removes, and
\* renamed.
AddFile(existing, idx, file) ==
    removeOutdatedSnapshotsIfNeeded(Put(existing, idx, file))

\* Snapshot mode stays on.
keepMode(t) == clearOutdatedNodes(t)

\* clearGarbageAfterSnapshot, then the destructor of the snapshot.
DestroySnapshot(t) == disableSnapshotMode(clearOutdatedNodes(t))
=============================================================================
