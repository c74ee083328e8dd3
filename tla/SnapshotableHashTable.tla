------------------------ MODULE SnapshotableHashTable ------------------------
(***************************************************************************)
(* The hash table that holds the nodes of Keeper and can be read by the    *)
(* snapshot thread while it changes                                        *)
(* (src/Coordination/SnapshotableHashTable.h).  The operators take the     *)
(* table t and return the table after the call.                            *)
(*                                                                         *)
(* The elements form a std::list, reached through a map from the key to an *)
(* iterator.  An iterator stays valid until its element is erased, and new *)
(* elements go to the end of the list; so an iterator is modelled as the   *)
(* number of the insertion that made it, and the list as a function from   *)
(* such numbers, in increasing order, to elements.  The characters of a    *)
(* key live in an arena and are shared by all versions of an element; the  *)
(* block of characters is named by the insertion that allocated it.        *)
(*                                                                         *)
(* In lower camel case, a definition that no other definition uses is a    *)
(* faulty variant of the definition after it.                              *)
(***************************************************************************)
EXTENDS Integers, Sequences, FiniteSets, FiniteSetsExt, Functions, Maps

CONSTANT sizeInBytes(_)   \* of a value; the key counts for KeySize

KeySize == 1

\* ListNode
Element(K, V) ==
    [key : K, chars : Nat, value : V, version : Nat,
     active_in_map : BOOLEAN, free_key : BOOLEAN]

EmptyTable ==
    [list |-> <<>>, map |-> <<>>,
     snapshot_mode |-> FALSE, current_version |-> 0,
     snapshot_up_to_version |-> 0, snapshot_invalid_iters |-> <<>>,
     arena |-> {}, approximate_data_size |-> 0,
     end |-> 1]                    \* the next insertion

\* A table has its fields, and nothing else, ...
IsTable(t) ==
    t = [list |-> t.list, map |-> t.map, snapshot_mode |-> t.snapshot_mode,
         current_version |-> t.current_version,
         snapshot_up_to_version |-> t.snapshot_up_to_version,
         snapshot_invalid_iters |-> t.snapshot_invalid_iters,
         arena |-> t.arena,
         approximate_data_size |-> t.approximate_data_size, end |-> t.end]

\* ... of these types for keys in K and values in V.  The size is left out:
\* it is a sum over the list.
FieldsOK(t, K, V) ==
    /\ IsTable(t)
    /\ DOMAIN t.list \subseteq Nat
    /\ t.list \in [DOMAIN t.list -> Element(K, V)]
    /\ DOMAIN t.map \subseteq K
    /\ t.map \in [DOMAIN t.map -> Nat]
    /\ t.snapshot_mode \in BOOLEAN
    /\ t.current_version \in Nat
    /\ t.snapshot_up_to_version \in Nat
    /\ t.snapshot_invalid_iters \in Seq(Nat)
    /\ t.end \in Nat \ {0}

contains(t, key) == key \in DOMAIN t.map

getValue(t, key) == t.list[t.map[key]].value

\* The key-value pairs a reader of the map sees.
Contents(t) == [key \in DOMAIN t.map |-> getValue(t, key)]

ElemSize(elem) == KeySize + sizeInBytes(elem.value)

\* list.insert(list.end(), elem) and the map entry pointing to it.
PushBack(t, elem) ==
    [t EXCEPT !.list = Put(@, t.end, elem),
              !.map = Put(@, elem.key, t.end),
              !.end = @ + 1]

\* Nothing is done when the key exists.
insert(t, key, value) ==
    IF contains(t, key)
    THEN t
    ELSE [PushBack(t, [key |-> key, chars |-> t.end, value |-> value,
                       version |-> t.current_version,
                       active_in_map |-> TRUE, free_key |-> FALSE])
          EXCEPT !.arena = @ \cup {t.end},
                 !.approximate_data_size = @ + KeySize + sizeInBytes(value)]

\* The element the snapshot may still read is kept for clearOutdatedNodes.
Retire(t, itr, free) ==
    [t EXCEPT !.list[itr].active_in_map = FALSE,
              !.list[itr].free_key = free,
              !.snapshot_invalid_iters = Append(@, itr)]

\* Outside snapshot mode updateDataSize adds key_size a second time where
\* the other branches subtract it.
insertOrReplace(t, key, value) ==
    LET itr == t.map[key]
        old == t.list[itr]
        new == [key |-> key, chars |-> old.chars, value |-> value,
                version |-> t.current_version,
                active_in_map |-> TRUE, free_key |-> FALSE]
        added == KeySize + sizeInBytes(value)
    IN  IF ~contains(t, key)
        THEN insert(t, key, value)
        ELSE IF t.snapshot_mode
        THEN [PushBack(Retire(t, itr, old.free_key), new)
              EXCEPT !.approximate_data_size = @ + added]
        ELSE [t EXCEPT !.list[itr].value = value,
                       !.approximate_data_size =
                           @ + added + KeySize - sizeInBytes(old.value)]

\* The characters of the key are given back at once.
freeKeyAtOnce(t, key) ==
    IF ~contains(t, key)
    THEN t
    ELSE [Retire(t, t.map[key], FALSE)
          EXCEPT !.map = Drop(@, key),
                 !.arena = @ \ {t.list[t.map[key]].chars}]

\* The element goes at once.
eraseInPlace(t, key) ==
    IF ~contains(t, key)
    THEN t
    ELSE [t EXCEPT !.map = Drop(@, key),
                   !.arena = @ \ {t.list[t.map[key]].chars},
                   !.list = Drop(@, t.map[key]),
                   !.approximate_data_size =
                       @ - ElemSize(t.list[t.map[key]])]

erase(t, key) ==
    LET itr == t.map[key]
        old == t.list[itr]
    IN  IF ~contains(t, key)
        THEN t
        ELSE IF t.snapshot_mode
        THEN [Retire(t, itr, TRUE) EXCEPT !.map = Drop(@, key)]
        ELSE [t EXCEPT !.map = Drop(@, key),
                       !.arena = @ \ {old.chars},
                       !.list = Drop(@, itr),
                       !.approximate_data_size = @ - ElemSize(old)]

\* An element is copied only if it is older than the snapshot.
updateOlderOnly(t, key, value) ==
    LET itr == t.map[key]
        old == t.list[itr]
    IN  IF t.snapshot_mode /\ old.version < t.snapshot_up_to_version
        THEN PushBack(Retire(t, itr, old.free_key),
                      [old EXCEPT !.value = value,
                                  !.version = t.current_version])
        ELSE [t EXCEPT !.list[itr].value = value,
                       !.approximate_data_size =
                           @ + sizeInBytes(value) - sizeInBytes(old.value)]

\* The size of the old value is subtracted in snapshot mode too.
updateUncounted(t, key, value) ==
    LET itr == t.map[key]
        old == t.list[itr]
        sized == [t EXCEPT !.approximate_data_size =
                               @ + sizeInBytes(value) - sizeInBytes(old.value)]
    IN  IF t.snapshot_mode /\ old.version <= t.snapshot_up_to_version
        THEN PushBack(Retire(sized, itr, old.free_key),
                      [old EXCEPT !.value = value,
                                  !.version = t.current_version])
        ELSE [sized EXCEPT !.list[itr].value = value]

\* updateValue(key, updater), for an updater that results in value.  A
\* version the snapshot may read is copied; a fresher one is not.
updateValue(t, key, value) ==
    LET itr == t.map[key]
        old == t.list[itr]
        copied == t.snapshot_mode /\ old.version <= t.snapshot_up_to_version
        changed ==
            IF copied
            THEN PushBack(Retire(t, itr, old.free_key),
                          [old EXCEPT !.value = value,
                                      !.version = t.current_version])
            ELSE [t EXCEPT !.list[itr].value = value]
    IN  [changed EXCEPT !.approximate_data_size =
             @ + KeySize + sizeInBytes(value)
               - (IF t.snapshot_mode THEN 0 ELSE ElemSize(old))]

\* The iterators of the erased elements are kept.
keepIterators(t) ==
    LET invalid == Range(t.snapshot_invalid_iters)
    IN  [t EXCEPT !.list = [i \in DOMAIN @ \ invalid |-> @[i]]]

clearOutdatedNodes(t) ==
    LET invalid == Range(t.snapshot_invalid_iters)
    IN  [t EXCEPT
            !.list = [i \in DOMAIN @ \ invalid |-> @[i]],
            !.arena = @ \ {t.list[i].chars :
                               i \in {j \in invalid : t.list[j].free_key}},
            !.approximate_data_size =
                @ - MapThenSumSet(LAMBDA i : ElemSize(t.list[i]), invalid),
            !.snapshot_invalid_iters = <<>>]

enableSnapshotMode(t, version) ==
    [t EXCEPT !.snapshot_mode = TRUE,
              !.snapshot_up_to_version = version,
              !.current_version = @ + 1]

disableSnapshotMode(t) == [t EXCEPT !.snapshot_mode = FALSE]

size(t) == Cardinality(DOMAIN t.list)

\* list.end() is t.end.
begin(t) == Min(DOMAIN t.list \cup {t.end})

\* ++itr
NextIter(t, itr) == Min({i \in DOMAIN t.list : i > itr} \cup {t.end})

-----------------------------------------------------------------------------
(***************************************************************************)
(* What the calls must keep true of a table.                               *)
(***************************************************************************)

\* The iterators are those of the list, an element is reached through the
\* map exactly when it is active, and exactly the others wait, each once,
\* for clearOutdatedNodes.
ListConsistent(t) ==
    /\ DOMAIN t.list \subseteq 1 .. t.end - 1
    /\ \A key \in DOMAIN t.map :
           t.map[key] \in DOMAIN t.list /\ t.list[t.map[key]].key = key
    /\ \A i \in DOMAIN t.list :
           t.list[i].active_in_map <=>
               /\ t.list[i].key \in DOMAIN t.map
               /\ t.map[t.list[i].key] = i
    /\ IsInjective(t.snapshot_invalid_iters)
    /\ Range(t.snapshot_invalid_iters) =
           {i \in DOMAIN t.list : ~t.list[i].active_in_map}

\* The arena holds the characters of the keys of the list and no others.
KeysAllocated(t) == t.arena = {t.list[i].chars : i \in DOMAIN t.list}

\* The size counts every element of the list, so that no later subtraction
\* wraps below zero.
SizeCovered(t) ==
    t.approximate_data_size
        >= MapThenSumSet(LAMBDA i : ElemSize(t.list[i]), DOMAIN t.list)
=============================================================================
