------------------- MODULE SnapshotableHashTableProofs -------------------
(***************************************************************************)
(* Every call of SnapshotableHashTable keeps the table consistent and,     *)
(* while a snapshot is being written, the elements of the snapshot as they *)
(* are; and a reader of the map sees it change as a map would.  For every  *)
(* set K of keys and V of values and every size of the table.              *)
(*                                                                         *)
(* For each way a call changes the table there is a definition that says   *)
(* what the new fields are, a lemma that the code's update has that        *)
(* effect, and a lemma that the effect is as a call should be (CallOK).    *)
(***************************************************************************)
EXTENDS KeeperSnapshotManager, FiniteSetTheorems, WellFoundedInduction,
        TLAPS

\* Most steps are about sets and functions; those with arithmetic, sequences
\* or records say which other prover they need.
USE Zenon

\* What a sequence of iterators holds after push_back.
LEMMA RangeAppend ==
    ASSUME NEW T, NEW s \in Seq(T), NEW x \in T
    PROVE  /\ Range(Append(s, x)) = Range(s) \cup {x}
           /\ IsInjective(s) /\ x \notin Range(s) => IsInjective(Append(s, x))
<1>1. /\ DOMAIN Append(s, x) = 1 .. Len(s) + 1
      /\ DOMAIN s = 1 .. Len(s)
      /\ \A i \in 1 .. Len(s) : Append(s, x)[i] = s[i]
      /\ Append(s, x)[Len(s) + 1] = x
      /\ Len(s) \in Nat
  BY SMT
<1>2. Range(Append(s, x)) = Range(s) \cup {x}
  BY <1>1, SMT DEF Range
<1>3. IsInjective(s) /\ x \notin Range(s) => IsInjective(Append(s, x))
  BY <1>1, SMT DEF IsInjective, Range
<1> QED BY <1>2, <1>3

\* What every call keeps of the map and the list: no version is newer than
\* the current one, and no element that is in use is to be freed.
Listed(t, K, V) ==
    /\ FieldsOK(t, K, V)
    /\ ListConsistent(t)
    /\ \A i \in DOMAIN t.list :
           /\ t.list[i].version <= t.current_version
           /\ t.list[i].active_in_map => ~t.list[i].free_key

\* Two elements with the same characters are versions of one insertion.  At
\* most one of them is active; an erased one has free_key set, and then none
\* is active; and as long as there is any, one is active or has free_key set,
\* so that clearOutdatedNodes frees the characters with the last of them.
CharsOwned(t) ==
    /\ \A i \in DOMAIN t.list : t.list[i].chars < t.end
    /\ \A i, j \in DOMAIN t.list :
           t.list[i].chars = t.list[j].chars /\ t.list[i].active_in_map =>
               (t.list[j].active_in_map => i = j) /\ ~t.list[j].free_key
    /\ \A i \in DOMAIN t.list :
           \E j \in DOMAIN t.list :
               /\ t.list[j].chars = t.list[i].chars
               /\ t.list[j].active_in_map \/ t.list[j].free_key

\* What every call keeps of the arena, as long as snapshots are destroyed
\* after their garbage is cleared.
ArenaInv(t) ==
    /\ KeysAllocated(t)
    /\ CharsOwned(t)
    /\ ~t.snapshot_mode => t.snapshot_invalid_iters = <<>>

\* What a request leaves to the snapshot thread: the versions do not change,
\* the elements of the snapshot stay as they are and new ones come after them.
Kept(t, u) ==
    /\ u.snapshot_mode = t.snapshot_mode
    /\ u.current_version = t.current_version
    /\ u.snapshot_up_to_version = t.snapshot_up_to_version
    /\ ~t.snapshot_mode => u.snapshot_invalid_iters = t.snapshot_invalid_iters
    /\ u.end >= t.end
    /\ DOMAIN u.list \subseteq DOMAIN t.list \cup {i \in Nat : i >= t.end}
    /\ t.snapshot_mode =>
           \A i \in DOMAIN t.list :
               t.list[i].version <= t.snapshot_up_to_version =>
                   /\ i \in DOMAIN u.list
                   /\ u.list[i].key = t.list[i].key
                   /\ u.list[i].value = t.list[i].value
                   /\ u.list[i].version = t.list[i].version

\* u reads as the map m.
Reads(u, m) == Contents(u) = m

\* A call leads from t to u, which reads as the map m.
CallOK(t, u, K, V, m) ==
    /\ Listed(u, K, V)
    /\ Kept(t, u)
    /\ ArenaInv(t) => ArenaInv(u)
    /\ Reads(u, m)

\* A reader sees a map with one more or another value, ...
LEMMA ContentsPut ==
    ASSUME NEW t, NEW u, NEW key, NEW value,
           DOMAIN u.map = DOMAIN t.map \cup {key},
           u.list[u.map[key]].value = value,
           \A k \in DOMAIN t.map \ {key} :
               u.list[u.map[k]].value = t.list[t.map[k]].value
    PROVE  Reads(u, Put(Contents(t), key, value))
  BY DEF Reads, Contents, getValue, Put

\* ... without a key, ...
LEMMA ContentsDrop ==
    ASSUME NEW t, NEW u, NEW key,
           DOMAIN u.map = DOMAIN t.map \ {key},
           \A k \in DOMAIN u.map :
               u.list[u.map[k]].value = t.list[t.map[k]].value
    PROVE  Reads(u, Drop(Contents(t), key))
  BY DEF Reads, Contents, getValue, Drop

\* ... or the same map.
LEMMA ContentsSame ==
    ASSUME NEW t, NEW u, DOMAIN u.map = DOMAIN t.map,
           \A k \in DOMAIN t.map :
               u.list[u.map[k]].value = t.list[t.map[k]].value
    PROVE  Reads(u, Contents(t))
  BY DEF Reads, Contents, getValue

\* The fields that only enableSnapshotMode and disableSnapshotMode change.
SameMode(t, u) ==
    /\ IsTable(u)
    /\ u.snapshot_mode = t.snapshot_mode
    /\ u.current_version = t.current_version
    /\ u.snapshot_up_to_version = t.snapshot_up_to_version

\* Nothing is done.
LEMMA NothingDone ==
    ASSUME NEW K, NEW V, NEW t, Listed(t, K, V)
    PROVE  CallOK(t, t, K, V, Contents(t))
<1>1. t.end >= t.end
  BY SMT DEF Listed, FieldsOK
<1> QED BY <1>1 DEF CallOK, Kept, Reads

\* The element that is reached through the map is the active one.
LEMMA MappedElement ==
    ASSUME NEW K, NEW V, NEW t, Listed(t, K, V), NEW key \in DOMAIN t.map
    PROVE  /\ t.map[key] \in DOMAIN t.list
           /\ t.list[t.map[key]] \in Element(K, V)
           /\ t.list[t.map[key]].key = key
           /\ t.list[t.map[key]].active_in_map
           /\ ~t.list[t.map[key]].free_key
<1>1. t.map[key] \in DOMAIN t.list /\ t.list[t.map[key]].key = key
  BY DEF Listed, ListConsistent
<1>2. t.list[t.map[key]].active_in_map
  BY <1>1 DEF Listed, ListConsistent
<1>3. ~t.list[t.map[key]].free_key
  BY <1>1, <1>2 DEF Listed
<1>4. t.list[t.map[key]] \in Element(K, V)
  BY <1>1 DEF Listed, FieldsOK
<1> QED BY <1>1, <1>2, <1>3, <1>4

\* What the fields of elements are.
LEMMA ElementFields ==
    ASSUME NEW K, NEW V, NEW t, FieldsOK(t, K, V), NEW i \in DOMAIN t.list
    PROVE  /\ i \in Nat /\ t.list[i] \in Element(K, V) /\ t.list[i].key \in K
           /\ t.list[i].chars \in Nat /\ t.list[i].value \in V
           /\ t.list[i].version \in Nat
<1>1. i \in Nat /\ t.list[i] \in Element(K, V)
  BY DEF FieldsOK
<1> QED BY <1>1 DEF Element

-----------------------------------------------------------------------------
(***************************************************************************)
(* insert()                                                                *)
(***************************************************************************)

\* u is t with a new element.
Inserted(t, u, elem) ==
    /\ SameMode(t, u)
    /\ u.list = Put(t.list, t.end, elem)
    /\ u.map = Put(t.map, elem.key, t.end)
    /\ u.end = t.end + 1
    /\ u.arena = t.arena \cup {t.end}
    /\ u.snapshot_invalid_iters = t.snapshot_invalid_iters

\* insert() of a key that is not there.
LEMMA InsertFields ==
    ASSUME NEW t, IsTable(t), NEW key, NEW value, ~contains(t, key)
    PROVE  Inserted(t, insert(t, key, value),
                    [key |-> key, chars |-> t.end, value |-> value,
                     version |-> t.current_version, active_in_map |-> TRUE,
                     free_key |-> FALSE])
<1> DEFINE u == insert(t, key, value)
<1>1. u = insert(t, key, value)
  OBVIOUS
<1> HIDE DEF u
<1>2. Inserted(t, u, [key |-> key, chars |-> t.end, value |-> value,
                      version |-> t.current_version, active_in_map |-> TRUE,
                      free_key |-> FALSE])
  BY <1>1, Zenon DEF insert, PushBack, IsTable, Inserted, SameMode
<1> QED BY <1>2 DEF u

\* It is as a call should be.
LEMMA InsertedOK ==
    ASSUME NEW K, NEW V, NEW t, Listed(t, K, V),
           NEW key, key \notin DOMAIN t.map,
           NEW elem \in Element(K, V), elem.key = key, elem.chars = t.end,
           elem.version = t.current_version, elem.active_in_map, ~elem.free_key,
           NEW u, Inserted(t, u, elem)
    PROVE  CallOK(t, u, K, V, Put(Contents(t), key, elem.value))
<1>1. /\ IsTable(u)
      /\ u.list = Put(t.list, t.end, elem)
      /\ u.map = Put(t.map, key, t.end)
      /\ u.end = t.end + 1
      /\ u.arena = t.arena \cup {t.end}
      /\ u.snapshot_mode = t.snapshot_mode
      /\ u.current_version = t.current_version
      /\ u.snapshot_up_to_version = t.snapshot_up_to_version
      /\ u.snapshot_invalid_iters = t.snapshot_invalid_iters
  BY DEF Inserted, SameMode
<1>2. FieldsOK(t, K, V) /\ ListConsistent(t)
  BY DEF Listed
<1>3. /\ DOMAIN t.list \subseteq Nat /\ t.end \in Nat \ {0}
      /\ t.end \notin DOMAIN t.list /\ key \in K
  BY <1>2, SMT DEF FieldsOK, ListConsistent, Element
<1>4. /\ DOMAIN u.list = DOMAIN t.list \cup {t.end}
      /\ \A i \in DOMAIN t.list : u.list[i] = t.list[i]
      /\ u.list[t.end] = elem
      /\ DOMAIN u.map = DOMAIN t.map \cup {key}
      /\ \A k \in DOMAIN t.map : u.map[k] = t.map[k]
      /\ u.map[key] = t.end
  BY <1>1, <1>3 DEF Put
<1>5. FieldsOK(u, K, V)
  <2>1. u.list \in [DOMAIN u.list -> Element(K, V)]
    BY <1>1, <1>2, <1>3, <1>4, SMT DEF FieldsOK, Put
  <2>2. u.map \in [DOMAIN u.map -> Nat]
    BY <1>1, <1>2, <1>3, <1>4, SMT DEF FieldsOK, Put
  <2> QED BY <1>1, <1>2, <1>3, <1>4, <2>1, <2>2, SMT DEF FieldsOK
<1>6. ListConsistent(u)
  <2>1. DOMAIN u.list \subseteq 1 .. u.end - 1
    BY <1>1, <1>2, <1>3, <1>4, SMT DEF ListConsistent
  <2>2. \A k \in DOMAIN u.map :
            u.map[k] \in DOMAIN u.list /\ u.list[u.map[k]].key = k
    BY <1>2, <1>4, SMT DEF ListConsistent
  <2>3. \A i \in DOMAIN u.list :
            u.list[i].active_in_map <=>
                u.list[i].key \in DOMAIN u.map /\ u.map[u.list[i].key] = i
    BY <1>2, <1>3, <1>4, SMTT(30) DEF ListConsistent
  <2>4. {i \in DOMAIN u.list : ~u.list[i].active_in_map}
            = {i \in DOMAIN t.list : ~t.list[i].active_in_map}
    BY <1>3, <1>4
  <2> QED BY <1>1, <1>2, <2>1, <2>2, <2>3, <2>4 DEF ListConsistent
<1>7. Listed(u, K, V)
  <2>1. \A i \in DOMAIN t.list :
            /\ t.list[i].version <= t.current_version
            /\ t.list[i].active_in_map => ~t.list[i].free_key
    BY DEF Listed
  <2>2. t.current_version \in Nat
    BY <1>2 DEF FieldsOK
  <2>3. \A i \in DOMAIN u.list :
            /\ u.list[i].version <= u.current_version
            /\ u.list[i].active_in_map => ~u.list[i].free_key
    BY <1>1, <1>4, <2>1, <2>2, SMT
  <2> QED BY <1>5, <1>6, <2>3 DEF Listed
<1>8. Kept(t, u)
  BY <1>1, <1>3, <1>4, SMT DEF Kept
<1>9. Reads(u, Put(Contents(t), key, elem.value))
  <2>1. \A k \in DOMAIN t.map : t.map[k] \in DOMAIN t.list
    BY <1>2 DEF ListConsistent
  <2>2. \A k \in DOMAIN t.map \ {key} :
            u.list[u.map[k]].value = t.list[t.map[k]].value
    BY <1>4, <2>1, SMT
  <2>3. u.list[u.map[key]].value = elem.value
    BY <1>4
  <2> QED BY <1>4, <2>2, <2>3, ContentsPut
<1>10. ASSUME ArenaInv(t) PROVE ArenaInv(u)
  <2>1. KeysAllocated(t) /\ CharsOwned(t)
    BY <1>10 DEF ArenaInv
  <2>2. KeysAllocated(u)
    BY <1>1, <1>3, <1>4, <2>1, SMT DEF KeysAllocated
  <2>3. \A i \in DOMAIN t.list : t.list[i].chars \in Nat /\ t.list[i].chars < t.end
    BY <1>2, <2>1, ElementFields DEF CharsOwned
  <2>4. \A i \in DOMAIN u.list : u.list[i].chars < u.end
    BY <1>1, <1>3, <1>4, <2>3, SMT
  <2>5. ASSUME NEW i \in DOMAIN u.list, NEW j \in DOMAIN u.list,
               u.list[i].chars = u.list[j].chars, u.list[i].active_in_map
        PROVE  (u.list[j].active_in_map => i = j) /\ ~u.list[j].free_key
    <3>1. CASE i \in DOMAIN t.list /\ j \in DOMAIN t.list
      BY <1>4, <2>1, <2>5, <3>1, SMT DEF CharsOwned
    <3>2. CASE i = t.end \/ j = t.end
      <4>1. i = t.end /\ j = t.end
        BY <1>3, <1>4, <2>3, <2>5, <3>2, SMT
      <4> QED BY <4>1, <1>4
    <3> QED BY <1>4, <3>1, <3>2
  <2>6. ASSUME NEW i \in DOMAIN u.list
        PROVE  \E j \in DOMAIN u.list :
                   /\ u.list[j].chars = u.list[i].chars
                   /\ u.list[j].active_in_map \/ u.list[j].free_key
    BY <1>4, <2>1, SMT DEF CharsOwned
  <2>7. CharsOwned(u)
    BY <2>4, <2>5, <2>6 DEF CharsOwned
  <2> QED BY <1>1, <1>10, <2>2, <2>7 DEF ArenaInv
<1> QED BY <1>7, <1>8, <1>9, <1>10 DEF CallOK

\* insert()
LEMMA InsertOK ==
    ASSUME NEW K, NEW V, NEW t, Listed(t, K, V), NEW key \in K, NEW value \in V
    PROVE  CallOK(t, insert(t, key, value), K, V,
                  IF contains(t, key) THEN Contents(t)
                                      ELSE Put(Contents(t), key, value))
<1>1. CASE contains(t, key)
  BY <1>1, NothingDone DEF insert
<1>2. CASE ~contains(t, key)
  <2> DEFINE u == insert(t, key, value)
             elem == [key |-> key, chars |-> t.end, value |-> value,
                      version |-> t.current_version, active_in_map |-> TRUE,
                      free_key |-> FALSE]
  <2>1. FieldsOK(t, K, V)
    BY DEF Listed
  <2>2. Inserted(t, u, elem)
    BY <1>2, <2>1, InsertFields DEF FieldsOK
  <2>3. elem \in Element(K, V)
    BY <2>1 DEF Element, FieldsOK
  <2>4. /\ elem.key = key /\ elem.chars = t.end /\ elem.version = t.current_version
        /\ elem.active_in_map /\ ~elem.free_key /\ elem.value = value
        /\ key \notin DOMAIN t.map
    BY <1>2 DEF contains
  <2> HIDE DEF elem, u
  <2>5. CallOK(t, u, K, V, Put(Contents(t), key, value))
    BY <2>2, <2>3, <2>4, InsertedOK
  <2> QED BY <1>2, <2>5 DEF u
<1> QED BY <1>1, <1>2

-----------------------------------------------------------------------------
(***************************************************************************)
(* A new version of an element, put at the end of the list, with the old   *)
(* one retired: what insertOrReplace() and updateValue() do in snapshot    *)
(* mode.                                                                   *)
(***************************************************************************)

\* An element that is no longer active.
IsRetired(out, old, free) ==
    /\ out.key = old.key
    /\ out.chars = old.chars
    /\ out.value = old.value
    /\ out.version = old.version
    /\ ~out.active_in_map
    /\ out.free_key = free

\* u is t with the element itr retired.
Retired(t, u, itr, free, K, V) ==
    /\ SameMode(t, u)
    /\ DOMAIN u.list = DOMAIN t.list
    /\ u.list \in [DOMAIN t.list -> Element(K, V)]
    /\ \A i \in DOMAIN t.list \ {itr} : u.list[i] = t.list[i]
    /\ IsRetired(u.list[itr], t.list[itr], free)
    /\ u.map = t.map
    /\ u.end = t.end
    /\ u.arena = t.arena
    /\ u.snapshot_invalid_iters = Append(t.snapshot_invalid_iters, itr)

\* Retire() does just that.
LEMMA RetireFields ==
    ASSUME NEW K, NEW V, NEW t, FieldsOK(t, K, V), NEW itr \in DOMAIN t.list,
           NEW free \in BOOLEAN
    PROVE  Retired(t, Retire(t, itr, free), itr, free, K, V)
<1> DEFINE u == Retire(t, itr, free)
           out == [t.list[itr] EXCEPT !.active_in_map = FALSE, !.free_key = free]
<1>0. u = Retire(t, itr, free)
  OBVIOUS
<1> HIDE DEF u
<1>2. t.list[itr] \in Element(K, V) /\ t.list \in [DOMAIN t.list -> Element(K, V)]
  BY DEF FieldsOK
<1>1. /\ SameMode(t, u)
      /\ u.list = [t.list EXCEPT ![itr] = out]
      /\ u.map = t.map
      /\ u.end = t.end
      /\ u.arena = t.arena
      /\ u.snapshot_invalid_iters = Append(t.snapshot_invalid_iters, itr)
  BY <1>0, Zenon DEF Retire, FieldsOK, IsTable, Element, SameMode
<1>3. IsRetired(out, t.list[itr], free)
  BY <1>2, Zenon DEF IsRetired, Element
<1>4. out \in Element(K, V)
  BY <1>2, Zenon DEF Element
<1> HIDE DEF out
<1> QED BY <1>1, <1>2, <1>3, <1>4 DEF Retired, u

\* u is t with elem at the end of the list and in the map.
PushedBack(t, u, elem) ==
    /\ SameMode(t, u)
    /\ u.list = Put(t.list, t.end, elem)
    /\ u.map = Put(t.map, elem.key, t.end)
    /\ u.end = t.end + 1
    /\ u.arena = t.arena
    /\ u.snapshot_invalid_iters = t.snapshot_invalid_iters

\* list.insert(list.end(), elem) and the entry of the map.
LEMMA PushBackFields ==
    ASSUME NEW t, IsTable(t), NEW elem
    PROVE  PushedBack(t, PushBack(t, elem), elem)
<1> DEFINE u == PushBack(t, elem)
<1>1. u = PushBack(t, elem)
  OBVIOUS
<1> HIDE DEF u
<1>2. PushedBack(t, u, elem)
  BY <1>1, Zenon DEF PushBack, PushedBack, IsTable, SameMode
<1> QED BY <1>2 DEF u

\* u is t with the element itr of key retired and new at the end of the list.
Copied(t, u, key, itr, new, K, V) ==
    /\ SameMode(t, u)
    /\ DOMAIN u.list = DOMAIN t.list \cup {t.end}
    /\ u.list \in [DOMAIN u.list -> Element(K, V)]
    /\ \A i \in DOMAIN t.list \ {itr} : u.list[i] = t.list[i]
    /\ IsRetired(u.list[itr], t.list[itr], FALSE)
    /\ u.list[t.end] = new
    /\ DOMAIN u.map = DOMAIN t.map
    /\ \A k \in DOMAIN t.map \ {key} : u.map[k] = t.map[k]
    /\ u.map[key] = t.end
    /\ u.map \in [DOMAIN u.map -> Nat]
    /\ u.end = t.end + 1
    /\ u.arena = t.arena
    /\ u.snapshot_invalid_iters = Append(t.snapshot_invalid_iters, itr)

\* Retiring an element and putting another at the end.
LEMMA CopyFields ==
    ASSUME NEW K, NEW V, NEW t, Listed(t, K, V), NEW key \in DOMAIN t.map,
           NEW new \in Element(K, V), new.key = key, NEW total
    PROVE  LET itr == t.map[key]
               old == t.list[itr]
           IN  Copied(t,
                      [PushBack(Retire(t, itr, old.free_key), new)
                       EXCEPT !.approximate_data_size = total],
                      key, itr, new, K, V)
<1> DEFINE itr == t.map[key]
           old == t.list[itr]
           v == Retire(t, itr, old.free_key)
           w == PushBack(v, new)
           u == [w EXCEPT !.approximate_data_size = total]
<1>1. /\ FieldsOK(t, K, V)
      /\ itr \in DOMAIN t.list
      /\ old.free_key = FALSE
      /\ t.end \in Nat /\ t.end \notin DOMAIN t.list
  <2>1. itr \in DOMAIN t.list /\ old \in Element(K, V) /\ ~old.free_key
    BY MappedElement
  <2>2. old.free_key = FALSE
    BY <2>1 DEF Element
  <2>3. FieldsOK(t, K, V) /\ ListConsistent(t)
    BY DEF Listed
  <2>4. t.end \in Nat /\ t.end \notin DOMAIN t.list
    BY <2>3, SMT DEF FieldsOK, ListConsistent
  <2> QED BY <2>1, <2>2, <2>3, <2>4
<1> HIDE DEF itr, old
<1>2. Retired(t, v, itr, FALSE, K, V)
  BY <1>1, RetireFields, Zenon
<1> HIDE DEF v
<1>3. /\ SameMode(v, w)
      /\ w.list = Put(v.list, v.end, new)
      /\ w.map = Put(v.map, key, v.end)
      /\ w.end = v.end + 1
      /\ w.arena = v.arena
      /\ w.snapshot_invalid_iters = v.snapshot_invalid_iters
  <2>1. IsTable(v)
    BY <1>2 DEF Retired, SameMode
  <2>2. PushedBack(v, w, new)
    BY <2>1, PushBackFields
  <2> HIDE DEF w
  <2> QED BY <2>2 DEF PushedBack
<1> HIDE DEF w
<1>4. /\ SameMode(w, u)
      /\ u.list = w.list
      /\ u.map = w.map
      /\ u.end = w.end
      /\ u.arena = w.arena
      /\ u.snapshot_invalid_iters = w.snapshot_invalid_iters
  BY <1>3, SMT DEF IsTable, SameMode
<1> HIDE DEF u
<1>5. /\ SameMode(t, u)
      /\ u.list = Put(v.list, t.end, new)
      /\ u.map = Put(t.map, key, t.end)
      /\ u.end = t.end + 1
      /\ u.arena = t.arena
      /\ u.snapshot_invalid_iters = Append(t.snapshot_invalid_iters, itr)
  BY <1>2, <1>3, <1>4 DEF Retired, SameMode
<1>6. /\ DOMAIN u.list = DOMAIN t.list \cup {t.end}
      /\ \A i \in DOMAIN t.list : u.list[i] = v.list[i]
      /\ u.list[t.end] = new
      /\ u.list \in [DOMAIN u.list -> Element(K, V)]
  BY <1>1, <1>2, <1>5, SMT DEF Put, Retired
<1>7. /\ DOMAIN u.map = DOMAIN t.map
      /\ \A k \in DOMAIN t.map \ {key} : u.map[k] = t.map[k]
      /\ u.map[key] = t.end
      /\ u.map \in [DOMAIN u.map -> Nat]
  BY <1>1, <1>5, SMT DEF Put, FieldsOK
<1>8. Copied(t, u, key, itr, new, K, V)
  BY <1>1, <1>2, <1>5, <1>6, <1>7, Zenon DEF Copied, Retired
<1> QED BY <1>1, <1>8 DEF u, w, v, old, itr

\* A table with the same key characters and the same arena has them allocated.
LEMMA SameAllocation ==
    ASSUME NEW t, KeysAllocated(t), NEW u, u.arena = t.arena,
           \A i \in DOMAIN t.list :
               i \in DOMAIN u.list /\ u.list[i].chars = t.list[i].chars,
           \A i \in DOMAIN u.list : \E j \in DOMAIN t.list :
               u.list[i].chars = t.list[j].chars
    PROVE  KeysAllocated(u)
<1> DEFINE A == {t.list[i].chars : i \in DOMAIN t.list}
           B == {u.list[i].chars : i \in DOMAIN u.list}
<1>1. \A x \in A : x \in B
  OBVIOUS
<1>2. \A x \in B : x \in A
  BY SMT
<1>3. t.arena = A
  BY Zenon DEF KeysAllocated
<1>4. u.arena = B
  <2> HIDE DEF A, B
  <2>1. A = B
    BY <1>1, <1>2
  <2> QED BY <1>3, <2>1, Zenon
<1> QED BY <1>4, Zenon DEF KeysAllocated

\* Characters that an active element uses belong to it: no other active
\* element has them, and nothing is to free them.
LEMMA OwnedOnce ==
    ASSUME NEW t, CharsOwned(t), NEW i \in DOMAIN t.list, NEW j \in DOMAIN t.list,
           t.list[i].chars = t.list[j].chars, t.list[i].active_in_map
    PROVE  (t.list[j].active_in_map => i = j) /\ ~t.list[j].free_key
  BY DEF CharsOwned

\* A copy is as a call should be.
LEMMA CopiedOK ==
    ASSUME NEW K, NEW V, NEW t, Listed(t, K, V), t.snapshot_mode,
           NEW key \in DOMAIN t.map, NEW itr, itr = t.map[key],
           NEW new \in Element(K, V), new.key = key,
           new.chars = t.list[itr].chars, new.version = t.current_version,
           new.active_in_map, ~new.free_key,
           NEW u, Copied(t, u, key, itr, new, K, V)
    PROVE  CallOK(t, u, K, V, Put(Contents(t), key, new.value))
<1>1. FieldsOK(t, K, V) /\ ListConsistent(t)
  BY DEF Listed
<1>2. itr \in DOMAIN t.list /\ t.list[itr].key = key
  BY MappedElement, SMT
<1>3. t.list[itr].active_in_map /\ ~t.list[itr].free_key
  BY MappedElement
<1>4. /\ SameMode(t, u)
      /\ u.end = t.end + 1
      /\ u.arena = t.arena
      /\ u.snapshot_mode = t.snapshot_mode
      /\ u.current_version = t.current_version
      /\ u.snapshot_up_to_version = t.snapshot_up_to_version
      /\ u.snapshot_invalid_iters = Append(t.snapshot_invalid_iters, itr)
  BY DEF Copied, SameMode
<1>5. /\ DOMAIN t.list \subseteq Nat /\ t.end \in Nat \ {0}
      /\ t.end \notin DOMAIN t.list
  BY <1>1, SMTT(30) DEF FieldsOK, ListConsistent
<1>6. /\ DOMAIN u.list = DOMAIN t.list \cup {t.end}
      /\ u.list[t.end] = new
      /\ \A i \in DOMAIN t.list \ {itr} : u.list[i] = t.list[i]
  BY DEF Copied
<1>7. ~u.list[itr].active_in_map /\ ~u.list[itr].free_key
  <2>1. IsRetired(u.list[itr], t.list[itr], FALSE)
    BY Zenon DEF Copied
  <2> QED BY <2>1 DEF IsRetired
<1>8. \A i \in DOMAIN t.list :
          /\ u.list[i].key = t.list[i].key
          /\ u.list[i].chars = t.list[i].chars
          /\ u.list[i].value = t.list[i].value
          /\ u.list[i].version = t.list[i].version
  <2> SUFFICES ASSUME NEW i \in DOMAIN t.list
               PROVE  /\ u.list[i].key = t.list[i].key
                      /\ u.list[i].chars = t.list[i].chars
                      /\ u.list[i].value = t.list[i].value
                      /\ u.list[i].version = t.list[i].version
    OBVIOUS
  <2>1. CASE i = itr
    BY <2>1 DEF Copied, IsRetired
  <2>2. CASE i # itr
    BY <1>6, <2>2
  <2> QED BY <2>1, <2>2
<1>9. \A i \in DOMAIN t.list \ {itr} :
          /\ u.list[i].active_in_map = t.list[i].active_in_map
          /\ u.list[i].free_key = t.list[i].free_key
  BY <1>6
<1>10. /\ DOMAIN u.map = DOMAIN t.map
       /\ \A k \in DOMAIN t.map \ {key} : u.map[k] = t.map[k]
       /\ u.map[key] = t.end
  BY DEF Copied
<1>11. FieldsOK(u, K, V)
  <2>1. u.list \in [DOMAIN u.list -> Element(K, V)] /\ u.map \in [DOMAIN u.map -> Nat]
    BY DEF Copied
  <2>2. u.snapshot_invalid_iters \in Seq(Nat)
    BY <1>1, <1>2, <1>4, <1>5, SMT DEF FieldsOK
  <2> QED BY <1>1, <1>4, <1>5, <1>6, <1>10, <2>1, <2>2, SMT DEF FieldsOK, SameMode
<1>12. ListConsistent(u)
  <2>1. DOMAIN u.list \subseteq 1 .. u.end - 1
    BY <1>1, <1>4, <1>5, <1>6, SMT DEF ListConsistent
  <2>2. ASSUME NEW k \in DOMAIN u.map
        PROVE  u.map[k] \in DOMAIN u.list /\ u.list[u.map[k]].key = k
    <3>1. CASE k = key
      BY <1>6, <1>10, <3>1
    <3>2. CASE k # key
      <4>1. /\ k \in DOMAIN t.map /\ u.map[k] = t.map[k]
            /\ t.map[k] \in DOMAIN t.list /\ t.list[t.map[k]].key = k
        BY <1>1, <1>10, <3>2 DEF ListConsistent
      <4> QED BY <1>6, <1>8, <4>1
    <3> QED BY <3>1, <3>2
  <2>3. ASSUME NEW i \in DOMAIN u.list
        PROVE  u.list[i].active_in_map <=>
                   u.list[i].key \in DOMAIN u.map /\ u.map[u.list[i].key] = i
    <3>1. CASE i = itr
      <4>1. u.list[i].key = key /\ itr # t.end
        BY <1>2, <1>5, <1>8, <3>1
      <4>2. u.map[u.list[i].key] # i
        BY <1>10, <3>1, <4>1
      <4> QED BY <1>7, <3>1, <4>2
    <3>2. CASE i = t.end
      BY <1>6, <1>10, <3>2
    <3>3. CASE i \in DOMAIN t.list \ {itr}
      <4>1. t.list[i].active_in_map <=>
                t.list[i].key \in DOMAIN t.map /\ t.map[t.list[i].key] = i
        BY <1>1, <3>3 DEF ListConsistent
      <4>2. u.list[i] = t.list[i] /\ i # t.end
        BY <1>5, <1>6, <3>3
      <4>3. CASE t.list[i].key = key
        <5>1. t.map[t.list[i].key] # i /\ u.map[t.list[i].key] # i
          BY <1>10, <3>3, <4>2, <4>3
        <5> QED BY <4>1, <4>2, <5>1
      <4>4. CASE t.list[i].key # key
        BY <1>10, <4>1, <4>2, <4>4
      <4> QED BY <4>3, <4>4
    <3> QED BY <1>6, <3>1, <3>2, <3>3
  <2>4. {i \in DOMAIN u.list : ~u.list[i].active_in_map}
            = {i \in DOMAIN t.list : ~t.list[i].active_in_map} \cup {itr}
    <3>1. ASSUME NEW i
          PROVE  (i \in DOMAIN u.list /\ ~u.list[i].active_in_map) <=>
                     \/ i \in DOMAIN t.list /\ ~t.list[i].active_in_map
                     \/ i = itr
      <4>1. CASE i = itr
        BY <1>2, <1>6, <1>7, <4>1
      <4>2. CASE i = t.end
        BY <1>2, <1>5, <1>6, <4>2
      <4>3. CASE i # itr /\ i # t.end
        BY <1>6, <4>3
      <4> QED BY <4>1, <4>2, <4>3
    <3> QED BY <3>1
  <2>5. /\ itr \notin Range(t.snapshot_invalid_iters)
        /\ t.snapshot_invalid_iters \in Seq(Nat) /\ itr \in Nat
    BY <1>1, <1>2, <1>3, <1>5 DEF ListConsistent, FieldsOK
  <2>6. /\ Range(u.snapshot_invalid_iters)
               = Range(t.snapshot_invalid_iters) \cup {itr}
        /\ IsInjective(u.snapshot_invalid_iters)
    BY <1>1, <1>4, <2>5, RangeAppend, SMTT(30) DEF ListConsistent
  <2> QED BY <1>1, <2>1, <2>2, <2>3, <2>4, <2>6 DEF ListConsistent
<1>13. ASSUME NEW i \in DOMAIN u.list
       PROVE  /\ u.list[i].version <= u.current_version
              /\ u.list[i].active_in_map => ~u.list[i].free_key
  <2>1. \A j \in DOMAIN t.list :
            /\ t.list[j].version <= t.current_version
            /\ t.list[j].active_in_map => ~t.list[j].free_key
    BY DEF Listed
  <2>2. t.current_version \in Nat
    BY <1>1 DEF FieldsOK
  <2>3. CASE i = t.end
    BY <1>4, <1>6, <2>2, <2>3, SMT
  <2>4. CASE i = itr
    BY <1>2, <1>4, <1>7, <1>8, <2>1, <2>4
  <2>5. CASE i \in DOMAIN t.list \ {itr}
    BY <1>4, <1>6, <2>1, <2>5
  <2> QED BY <1>6, <2>3, <2>4, <2>5
<1>14. Kept(t, u)
  <2>1. /\ u.end >= t.end
        /\ DOMAIN u.list \subseteq DOMAIN t.list \cup {i \in Nat : i >= t.end}
    BY <1>4, <1>5, <1>6, SMT
  <2>2. \A i \in DOMAIN t.list : i \in DOMAIN u.list
    BY <1>6
  <2> QED BY <1>4, <1>8, <2>1, <2>2 DEF Kept
<1>15. Reads(u, Put(Contents(t), key, new.value))
  <2>1. \A k \in DOMAIN t.map : t.map[k] \in DOMAIN t.list
    BY <1>1 DEF ListConsistent
  <2>2. \A k \in DOMAIN t.map \ {key} :
            u.list[u.map[k]].value = t.list[t.map[k]].value
    BY <1>8, <1>10, <2>1, SMT
  <2>3. u.list[u.map[key]].value = new.value
    BY <1>6, <1>10
  <2>4. DOMAIN u.map = DOMAIN t.map \cup {key}
    BY <1>10
  <2> QED BY <2>2, <2>3, <2>4, ContentsPut
<1>16. ASSUME ArenaInv(t) PROVE ArenaInv(u)
  <2>0. KeysAllocated(t) /\ CharsOwned(t)
    BY <1>16 DEF ArenaInv
  <2>1. KeysAllocated(u)
    <3>1. \A i \in DOMAIN t.list :
              i \in DOMAIN u.list /\ u.list[i].chars = t.list[i].chars
      BY <1>6, <1>8
    <3>2. \A i \in DOMAIN u.list : \E j \in DOMAIN t.list :
              u.list[i].chars = t.list[j].chars
      BY <1>2, <1>6, <1>8, SMT
    <3> QED BY <1>4, <2>0, <3>1, <3>2, SameAllocation
  <2>2. ASSUME NEW i \in DOMAIN u.list PROVE u.list[i].chars < u.end
    <3>1. \A j \in DOMAIN t.list :
              t.list[j].chars \in Nat /\ t.list[j].chars < t.end
      BY <1>1, <2>0, ElementFields DEF CharsOwned
    <3>2. PICK j \in DOMAIN t.list : u.list[i].chars = t.list[j].chars
      BY <1>2, <1>6, <1>8, SMT
    <3> QED BY <1>4, <1>5, <3>1, <3>2, SMT
  <2>3. \A j \in DOMAIN t.list \ {itr} : t.list[j].chars = t.list[itr].chars =>
            ~t.list[j].active_in_map /\ ~t.list[j].free_key
    BY <1>2, <1>3, <2>0 DEF CharsOwned
  <2>4. ASSUME NEW i \in DOMAIN u.list, NEW j \in DOMAIN u.list,
               u.list[i].chars = u.list[j].chars, u.list[i].active_in_map
        PROVE  (u.list[j].active_in_map => i = j) /\ ~u.list[j].free_key
    <3>1. CASE i \in DOMAIN t.list \ {itr}
      <4>1. u.list[i] = t.list[i] /\ t.list[i].chars # t.list[itr].chars
        BY <1>6, <2>3, <2>4, <3>1
      <4>2. j # t.end /\ j # itr
        BY <1>2, <1>6, <1>8, <2>4, <4>1, SMTT(30)
      <4>3. j \in DOMAIN t.list \ {itr} /\ u.list[j] = t.list[j]
        BY <1>6, <4>2
      <4> QED BY <2>0, <2>4, <3>1, <4>1, <4>3, OwnedOnce, SMT
    <3>2. CASE i = t.end
      <4>1. u.list[j].chars = t.list[itr].chars
        BY <1>6, <2>4, <3>2
      <4>2. CASE j = t.end
        BY <1>6, <3>2, <4>2
      <4>3. CASE j = itr
        BY <1>7, <4>3
      <4>4. CASE j \in DOMAIN t.list \ {itr}
        <5>1. u.list[j] = t.list[j]
          BY <1>6, <4>4
        <5> QED BY <2>3, <4>1, <4>4, <5>1
      <4> QED BY <1>6, <4>2, <4>3, <4>4
    <3> QED BY <1>6, <1>7, <2>4, <3>1, <3>2
  <2>5. ASSUME NEW i \in DOMAIN u.list
        PROVE  \E j \in DOMAIN u.list :
                   /\ u.list[j].chars = u.list[i].chars
                   /\ u.list[j].active_in_map \/ u.list[j].free_key
    <3>1. CASE u.list[i].chars = t.list[itr].chars
      BY <1>6, <3>1
    <3>2. CASE u.list[i].chars # t.list[itr].chars
      <4>1. i # t.end /\ i # itr
        BY <1>2, <1>6, <1>8, <3>2, SMTT(30)
      <4>2. i \in DOMAIN t.list \ {itr} /\ u.list[i] = t.list[i]
        BY <1>6, <4>1
      <4>3. PICK j \in DOMAIN t.list :
                /\ t.list[j].chars = t.list[i].chars
                /\ t.list[j].active_in_map \/ t.list[j].free_key
        BY <2>0, <4>2 DEF CharsOwned
      <4>4. j # itr /\ j \in DOMAIN u.list /\ u.list[j] = t.list[j]
        BY <1>6, <3>2, <4>2, <4>3
      <4> QED BY <4>2, <4>3, <4>4
    <3> QED BY <3>1, <3>2
  <2>6. CharsOwned(u)
    BY <2>2, <2>4, <2>5 DEF CharsOwned
  <2> QED BY <1>4, <2>1, <2>6 DEF ArenaInv
<1> QED BY <1>11, <1>12, <1>13, <1>14, <1>15, <1>16 DEF CallOK, Listed

-----------------------------------------------------------------------------
(***************************************************************************)
(* Another value, put into the element in place: only outside snapshot     *)
(* mode, or in an element newer than the snapshot.                         *)
(***************************************************************************)

\* u is t with value in the element itr.
Changed(t, u, itr, value, K, V) ==
    /\ SameMode(t, u)
    /\ DOMAIN u.list = DOMAIN t.list
    /\ u.list \in [DOMAIN t.list -> Element(K, V)]
    /\ \A i \in DOMAIN t.list \ {itr} : u.list[i] = t.list[i]
    /\ u.list[itr].key = t.list[itr].key
    /\ u.list[itr].chars = t.list[itr].chars
    /\ u.list[itr].value = value
    /\ u.list[itr].version = t.list[itr].version
    /\ u.list[itr].active_in_map = t.list[itr].active_in_map
    /\ u.list[itr].free_key = t.list[itr].free_key
    /\ u.map = t.map
    /\ u.end = t.end
    /\ u.arena = t.arena
    /\ u.snapshot_invalid_iters = t.snapshot_invalid_iters

\* An update of the value in place.
LEMMA ChangeFields ==
    ASSUME NEW K, NEW V, NEW t, FieldsOK(t, K, V), NEW itr \in DOMAIN t.list,
           NEW value \in V, NEW total
    PROVE  Changed(t, [t EXCEPT !.list[itr].value = value,
                                !.approximate_data_size = total],
                   itr, value, K, V)
<1> DEFINE u == [t EXCEPT !.list[itr].value = value,
                          !.approximate_data_size = total]
           elem == [t.list[itr] EXCEPT !.value = value]
<1>1. u = [t EXCEPT !.list[itr].value = value, !.approximate_data_size = total]
  OBVIOUS
<1> HIDE DEF u
<1>2. /\ SameMode(t, u)
      /\ u.list = [t.list EXCEPT ![itr] = elem]
      /\ u.map = t.map
      /\ u.end = t.end
      /\ u.arena = t.arena
      /\ u.snapshot_invalid_iters = t.snapshot_invalid_iters
  BY <1>1, Zenon DEF FieldsOK, IsTable, SameMode
<1>3. t.list[itr] \in Element(K, V) /\ t.list \in [DOMAIN t.list -> Element(K, V)]
  BY DEF FieldsOK
<1>4. /\ elem \in Element(K, V)
      /\ elem.key = t.list[itr].key
      /\ elem.chars = t.list[itr].chars
      /\ elem.value = value
      /\ elem.version = t.list[itr].version
      /\ elem.active_in_map = t.list[itr].active_in_map
      /\ elem.free_key = t.list[itr].free_key
  BY <1>3 DEF Element
<1> HIDE DEF elem
<1>5. Changed(t, u, itr, value, K, V)
  BY <1>2, <1>3, <1>4 DEF Changed
<1> QED BY <1>5 DEF u

\* The map and the list stay as they should be, whatever the snapshot reads.
LEMMA ChangedListed ==
    ASSUME NEW K, NEW V, NEW t, Listed(t, K, V), NEW itr \in DOMAIN t.list,
           NEW value, NEW u, Changed(t, u, itr, value, K, V)
    PROVE  Listed(u, K, V)
<1>1. /\ FieldsOK(t, K, V) /\ ListConsistent(t)
      /\ \A i \in DOMAIN t.list :
             /\ t.list[i].version <= t.current_version
             /\ t.list[i].active_in_map => ~t.list[i].free_key
  BY DEF Listed
<1>2. /\ IsTable(u)
      /\ u.snapshot_mode = t.snapshot_mode
      /\ u.current_version = t.current_version
      /\ u.snapshot_up_to_version = t.snapshot_up_to_version
      /\ u.map = t.map
      /\ u.end = t.end
      /\ u.arena = t.arena
      /\ u.snapshot_invalid_iters = t.snapshot_invalid_iters
      /\ DOMAIN u.list = DOMAIN t.list
      /\ u.list \in [DOMAIN t.list -> Element(K, V)]
  BY DEF Changed, SameMode
<1>3. \A i \in DOMAIN t.list :
          /\ u.list[i].key = t.list[i].key
          /\ u.list[i].chars = t.list[i].chars
          /\ u.list[i].version = t.list[i].version
          /\ u.list[i].active_in_map = t.list[i].active_in_map
          /\ u.list[i].free_key = t.list[i].free_key
  BY DEF Changed
<1>4. FieldsOK(u, K, V)
  BY <1>1, <1>2 DEF FieldsOK
<1>5. ListConsistent(u)
  BY <1>1, <1>2, <1>3, SMT DEF ListConsistent
<1> QED BY <1>1, <1>2, <1>3, <1>4, <1>5 DEF Listed

\* It is as a call should be.
LEMMA ChangedOK ==
    ASSUME NEW K, NEW V, NEW t, Listed(t, K, V), NEW key \in DOMAIN t.map,
           NEW itr, itr = t.map[key],
           t.snapshot_mode => ~(t.list[itr].version <= t.snapshot_up_to_version),
           NEW value, NEW u, Changed(t, u, itr, value, K, V)
    PROVE  CallOK(t, u, K, V, Put(Contents(t), key, value))
<1>1. /\ FieldsOK(t, K, V) /\ ListConsistent(t)
      /\ \A i \in DOMAIN t.list :
             /\ t.list[i].version <= t.current_version
             /\ t.list[i].active_in_map => ~t.list[i].free_key
  BY DEF Listed
<1>2. /\ IsTable(u)
      /\ u.snapshot_mode = t.snapshot_mode
      /\ u.current_version = t.current_version
      /\ u.snapshot_up_to_version = t.snapshot_up_to_version
      /\ u.map = t.map
      /\ u.end = t.end
      /\ u.arena = t.arena
      /\ u.snapshot_invalid_iters = t.snapshot_invalid_iters
      /\ DOMAIN u.list = DOMAIN t.list
      /\ u.list \in [DOMAIN t.list -> Element(K, V)]
  BY DEF Changed, SameMode
<1>3. \A i \in DOMAIN t.list :
          /\ u.list[i].key = t.list[i].key
          /\ u.list[i].chars = t.list[i].chars
          /\ u.list[i].version = t.list[i].version
          /\ u.list[i].active_in_map = t.list[i].active_in_map
          /\ u.list[i].free_key = t.list[i].free_key
  BY DEF Changed
<1>6. Listed(u, K, V)
  <2>1. itr \in DOMAIN t.list
    BY <1>1 DEF ListConsistent
  <2> QED BY <2>1, ChangedListed
<1>7. Kept(t, u)
  <2>1. t.snapshot_mode =>
            \A i \in DOMAIN t.list :
                t.list[i].version <= t.snapshot_up_to_version =>
                    u.list[i] = t.list[i]
    BY DEF Changed
  <2> QED BY <1>1, <1>2, <2>1, SMT DEF Kept, FieldsOK
<1>8. Reads(u, Put(Contents(t), key, value))
  <2>1. \A k \in DOMAIN t.map : t.map[k] \in DOMAIN t.list
    BY <1>1 DEF ListConsistent
  <2>2. \A k \in DOMAIN t.map \ {key} : t.map[k] # itr
    BY <1>1, SMT DEF ListConsistent
  <2>3. \A k \in DOMAIN t.map \ {key} :
            u.list[u.map[k]].value = t.list[t.map[k]].value
    BY <1>2, <2>1, <2>2 DEF Changed
  <2>4. u.list[u.map[key]].value = value
    BY <1>2 DEF Changed
  <2>5. DOMAIN u.map = DOMAIN t.map \cup {key}
    BY <1>2
  <2> QED BY <2>3, <2>4, <2>5, ContentsPut
<1>9. ASSUME ArenaInv(t) PROVE ArenaInv(u)
  <2>0. KeysAllocated(t) /\ CharsOwned(t)
    BY <1>9 DEF ArenaInv
  <2>1. KeysAllocated(u)
    BY <1>2, <1>3, <2>0, SameAllocation, SMT
  <2>2. \A i \in DOMAIN u.list : u.list[i].chars < u.end
    BY <1>2, <1>3, <2>0 DEF CharsOwned
  <2>3. ASSUME NEW i \in DOMAIN u.list, NEW j \in DOMAIN u.list,
               u.list[i].chars = u.list[j].chars, u.list[i].active_in_map
        PROVE  (u.list[j].active_in_map => i = j) /\ ~u.list[j].free_key
    <3>1. /\ i \in DOMAIN t.list /\ j \in DOMAIN t.list
          /\ t.list[i].chars = t.list[j].chars /\ t.list[i].active_in_map
      BY <1>2, <1>3, <2>3
    <3>2. (t.list[j].active_in_map => i = j) /\ ~t.list[j].free_key
      BY <2>0, <3>1, OwnedOnce
    <3> QED BY <1>3, <3>1, <3>2
  <2>4. ASSUME NEW i \in DOMAIN u.list
        PROVE  \E j \in DOMAIN u.list :
                   /\ u.list[j].chars = u.list[i].chars
                   /\ u.list[j].active_in_map \/ u.list[j].free_key
    <3>1. PICK j \in DOMAIN t.list :
              /\ t.list[j].chars = t.list[i].chars
              /\ t.list[j].active_in_map \/ t.list[j].free_key
      BY <1>2, <2>0 DEF CharsOwned
    <3> QED BY <1>2, <1>3, <3>1, SMT
  <2>5. CharsOwned(u)
    BY <2>2, <2>3, <2>4 DEF CharsOwned
  <2> QED BY <1>2, <1>9, <2>1, <2>5 DEF ArenaInv
<1> QED BY <1>6, <1>7, <1>8, <1>9 DEF CallOK

\* A value that is overwritten in place, whatever the snapshot reads.
LEMMA OverwrittenOK ==
    ASSUME NEW K, NEW V, NEW t, Listed(t, K, V), NEW itr \in DOMAIN t.list,
           NEW value \in V, NEW u, u = [t EXCEPT !.list[itr].value = value]
    PROVE  Listed(u, K, V) /\ u.map = t.map
<1> DEFINE w == [t EXCEPT !.list[itr].value = value,
                          !.approximate_data_size = t.approximate_data_size]
<1>1. FieldsOK(t, K, V)
  BY DEF Listed
<1>2. u = w
  BY <1>1 DEF FieldsOK, IsTable
<1>3. Changed(t, w, itr, value, K, V)
  BY <1>1, ChangeFields
<1> HIDE DEF w
<1>4. Listed(w, K, V)
  BY <1>3, ChangedListed
<1>5. w.map = t.map
  BY <1>3 DEF Changed
<1> QED BY <1>2, <1>4, <1>5

\* insertOrReplace() puts the value into the map.
LEMMA InsertOrReplaceOK ==
    ASSUME NEW K, NEW V, NEW t, Listed(t, K, V), NEW key \in K, NEW value \in V
    PROVE  CallOK(t, insertOrReplace(t, key, value), K, V,
                  Put(Contents(t), key, value))
<1> DEFINE u == insertOrReplace(t, key, value)
<1>1. CASE ~contains(t, key)
  <2>1. u = insert(t, key, value)
    BY <1>1 DEF insertOrReplace
  <2> HIDE DEF u
  <2>2. CallOK(t, u, K, V, Put(Contents(t), key, value))
    BY <1>1, <2>1, InsertOK
  <2> QED BY <2>2 DEF u
<1>2. CASE contains(t, key) /\ t.snapshot_mode
  <2> DEFINE itr == t.map[key]
             old == t.list[itr]
             new == [key |-> key, chars |-> old.chars, value |-> value,
                     version |-> t.current_version,
                     active_in_map |-> TRUE, free_key |-> FALSE]
             v == PushBack(Retire(t, itr, old.free_key), new)
             sz == v.approximate_data_size + (KeySize + sizeInBytes(value))
  <2>1. u = [v EXCEPT !.approximate_data_size = sz]
    BY <1>2 DEF insertOrReplace
  <2>2. key \in DOMAIN t.map
    BY <1>2 DEF contains
  <2>3. /\ new \in Element(K, V) /\ new.key = key /\ new.chars = old.chars
        /\ new.value = value
        /\ new.version = t.current_version /\ new.active_in_map /\ ~new.free_key
    BY <2>2, MappedElement, Zenon DEF Element, Listed, FieldsOK
  <2> HIDE DEF new, sz, u
  <2>4. Copied(t, u, key, itr, new, K, V)
    BY <2>1, <2>2, <2>3, CopyFields, Zenon
  <2> HIDE DEF itr
  <2>5. itr = t.map[key]
    BY DEF itr
  <2>6. CallOK(t, u, K, V, Put(Contents(t), key, new.value))
    BY <1>2, <2>2, <2>3, <2>4, <2>5, CopiedOK
  <2> QED BY <2>3, <2>6, Zenon DEF u
<1>3. CASE contains(t, key) /\ ~t.snapshot_mode
  <2> DEFINE itr == t.map[key]
             sz == t.approximate_data_size + (KeySize + sizeInBytes(value))
                   + KeySize - sizeInBytes(t.list[itr].value)
  <2>1. u = [t EXCEPT !.list[itr].value = value, !.approximate_data_size = sz]
    <3>1. u = [t EXCEPT !.list[itr].value = value,
                        !.approximate_data_size =
                            @ + (KeySize + sizeInBytes(value)) + KeySize
                              - sizeInBytes(t.list[itr].value)]
      BY <1>3 DEF insertOrReplace
    <3>2. [t EXCEPT !.list[itr].value = value].approximate_data_size
              = t.approximate_data_size
      BY DEF Listed, FieldsOK, IsTable
    <3> QED BY <3>1, <3>2
  <2>2. key \in DOMAIN t.map /\ itr \in DOMAIN t.list
    BY <1>3, MappedElement DEF contains
  <2>3. itr = t.map[key]
    OBVIOUS
  <2> HIDE DEF u, itr, sz
  <2>4. Changed(t, u, itr, value, K, V)
    BY <2>1, <2>2, ChangeFields, Zenon DEF Listed
  <2>5. CallOK(t, u, K, V, Put(Contents(t), key, value))
    BY <1>3, <2>2, <2>3, <2>4, ChangedOK
  <2> QED BY <2>5 DEF u
<1>4. t.snapshot_mode \in BOOLEAN
  BY DEF Listed, FieldsOK
<1> HIDE DEF u
<1> QED BY <1>1, <1>2, <1>3, <1>4 DEF u

\* updateValue() puts the value into the map.
LEMMA UpdateValueOK ==
    ASSUME NEW K, NEW V, NEW t, Listed(t, K, V), NEW key \in DOMAIN t.map,
           NEW value \in V
    PROVE  CallOK(t, updateValue(t, key, value), K, V,
                  Put(Contents(t), key, value))
<1> DEFINE itr == t.map[key]
           old == t.list[itr]
           copied == t.snapshot_mode /\ old.version <= t.snapshot_up_to_version
           u == updateValue(t, key, value)
<1>0. itr \in DOMAIN t.list /\ old \in Element(K, V) /\ old.key = key
      /\ old.active_in_map /\ ~old.free_key
  BY MappedElement, SMT
<1>1. CASE copied
  <2> DEFINE new == [old EXCEPT !.value = value, !.version = t.current_version]
             v == PushBack(Retire(t, itr, old.free_key), new)
             sz == v.approximate_data_size + KeySize + sizeInBytes(value)
                   - (IF t.snapshot_mode THEN 0 ELSE ElemSize(old))
  <2>1. u = [v EXCEPT !.approximate_data_size = sz]
    BY <1>1 DEF updateValue
  <2>2. /\ new \in Element(K, V) /\ new.key = key /\ new.chars = old.chars
        /\ new.value = value
        /\ new.version = t.current_version /\ new.active_in_map /\ ~new.free_key
    BY <1>0, Zenon DEF Element, Listed, FieldsOK
  <2> HIDE DEF new, sz, u
  <2>3. Copied(t, u, key, itr, new, K, V)
    BY <2>1, <2>2, CopyFields
  <2> HIDE DEF itr
  <2>4. itr = t.map[key]
    BY DEF itr
  <2>5. CallOK(t, u, K, V, Put(Contents(t), key, new.value))
    BY <1>1, <2>2, <2>3, <2>4, CopiedOK
  <2> QED BY <2>2, <2>5, Zenon DEF u
<1>2. CASE ~copied
  <2> DEFINE v == [t EXCEPT !.list[itr].value = value]
             sz == v.approximate_data_size + KeySize + sizeInBytes(value)
                   - (IF t.snapshot_mode THEN 0 ELSE ElemSize(old))
  <2>1. u = [t EXCEPT !.list[itr].value = value, !.approximate_data_size = sz]
    <3>1. u = [v EXCEPT !.approximate_data_size = sz]
      BY <1>2, Zenon DEF updateValue
    <3> HIDE DEF u, sz
    <3> QED BY <3>1, Zenon
  <2> HIDE DEF u, sz
  <2>2. Changed(t, u, itr, value, K, V)
    BY <1>0, <2>1, ChangeFields, Zenon DEF Listed
  <2>3. t.snapshot_mode => ~(t.list[itr].version <= t.snapshot_up_to_version)
    BY <1>2
  <2>4. itr = t.map[key]
    OBVIOUS
  <2> HIDE DEF itr, old, copied
  <2>5. CallOK(t, u, K, V, Put(Contents(t), key, value))
    BY <1>0, <2>2, <2>3, <2>4, ChangedOK
  <2> QED BY <2>5 DEF u
<1> HIDE DEF u
<1> QED BY <1>1, <1>2 DEF u

-----------------------------------------------------------------------------
(***************************************************************************)
(* erase().                                                                *)
(***************************************************************************)

\* u is t without the key in the map.
MapDropped(t, u, key) ==
    /\ SameMode(t, u)
    /\ u.list = t.list
    /\ u.map = Drop(t.map, key)
    /\ u.end = t.end
    /\ u.arena = t.arena
    /\ u.snapshot_invalid_iters = t.snapshot_invalid_iters

\* u is t without the key, its element and its characters.
ElementDropped(t, u, key, itr) ==
    /\ SameMode(t, u)
    /\ u.list = Drop(t.list, itr)
    /\ u.map = Drop(t.map, key)
    /\ u.end = t.end
    /\ u.arena = t.arena \ {t.list[itr].chars}
    /\ u.snapshot_invalid_iters = t.snapshot_invalid_iters

\* In snapshot mode the element stays in the list, retired, with free_key set,
\* and the key leaves the map.
LEMMA EraseLaterOK ==
    ASSUME NEW K, NEW V, NEW t, Listed(t, K, V), t.snapshot_mode,
           NEW key \in DOMAIN t.map, NEW itr, itr = t.map[key],
           NEW v, Retired(t, v, itr, TRUE, K, V), NEW u, MapDropped(v, u, key)
    PROVE  CallOK(t, u, K, V, Drop(Contents(t), key))
<1>1. FieldsOK(t, K, V) /\ ListConsistent(t)
  BY DEF Listed
<1>2. itr \in DOMAIN t.list /\ t.list[itr].key = key
  BY MappedElement, SMT
<1>3. t.list[itr].active_in_map
  BY MappedElement
<1>4. /\ IsTable(u)
      /\ u.list = v.list
      /\ u.map = Drop(t.map, key)
      /\ u.end = t.end
      /\ u.arena = t.arena
      /\ u.snapshot_mode = t.snapshot_mode
      /\ u.current_version = t.current_version
      /\ u.snapshot_up_to_version = t.snapshot_up_to_version
      /\ u.snapshot_invalid_iters = Append(t.snapshot_invalid_iters, itr)
  BY DEF Retired, SameMode, MapDropped
<1>5. u.list \in [DOMAIN t.list -> Element(K, V)] /\ DOMAIN t.list \subseteq Nat
  BY <1>1, <1>4 DEF Retired, FieldsOK
<1>6. /\ DOMAIN u.list = DOMAIN t.list
      /\ \A i \in DOMAIN t.list \ {itr} : u.list[i] = t.list[i]
  BY <1>4 DEF Retired
<1>7. ~u.list[itr].active_in_map /\ u.list[itr].free_key
  <2>1. IsRetired(u.list[itr], t.list[itr], TRUE)
    BY <1>4, Zenon DEF Retired
  <2>2. u.list[itr].free_key = TRUE
    BY <2>1, Zenon DEF IsRetired
  <2>3. ~u.list[itr].active_in_map
    BY <2>1, Zenon DEF IsRetired
  <2> QED BY <2>2, <2>3
<1>8. \A i \in DOMAIN t.list :
          /\ u.list[i].key = t.list[i].key
          /\ u.list[i].chars = t.list[i].chars
          /\ u.list[i].value = t.list[i].value
          /\ u.list[i].version = t.list[i].version
  <2> SUFFICES ASSUME NEW i \in DOMAIN t.list
               PROVE  /\ u.list[i].key = t.list[i].key
                      /\ u.list[i].chars = t.list[i].chars
                      /\ u.list[i].value = t.list[i].value
                      /\ u.list[i].version = t.list[i].version
    OBVIOUS
  <2>1. CASE i = itr
    <3>1. IsRetired(u.list[itr], t.list[itr], TRUE)
      BY <1>4, Zenon DEF Retired
    <3> QED BY <2>1, <3>1, Zenon DEF IsRetired
  <2>2. CASE i # itr
    BY <1>6, <2>2
  <2> QED BY <2>1, <2>2
<1>9. /\ DOMAIN u.map = DOMAIN t.map \ {key}
      /\ \A k \in DOMAIN u.map : u.map[k] = t.map[k]
  BY <1>4 DEF Drop
<1>10. /\ itr \in Nat /\ t.snapshot_invalid_iters \in Seq(Nat)
       /\ itr \notin Range(t.snapshot_invalid_iters)
  BY <1>1, <1>2, <1>3, <1>5 DEF FieldsOK, ListConsistent
<1>11. FieldsOK(u, K, V)
  <2>1. u.map \in [DOMAIN u.map -> Nat]
    BY <1>1, <1>4, <1>9 DEF FieldsOK, Drop
  <2>2. u.snapshot_invalid_iters \in Seq(Nat)
    BY <1>4, <1>10, SMT
  <2> QED BY <1>1, <1>4, <1>5, <1>6, <1>9, <2>1, <2>2 DEF FieldsOK
<1>12. ListConsistent(u)
  <2>1. ASSUME NEW k \in DOMAIN u.map
        PROVE  u.map[k] \in DOMAIN u.list /\ u.list[u.map[k]].key = k
    <3>1. k \in DOMAIN t.map /\ u.map[k] = t.map[k]
      BY <1>9
    <3>2. t.map[k] \in DOMAIN t.list /\ t.list[t.map[k]].key = k
      BY <1>1, <3>1 DEF ListConsistent
    <3> QED BY <1>6, <1>8, <3>1, <3>2
  <2>2. ASSUME NEW i \in DOMAIN u.list
        PROVE  u.list[i].active_in_map <=>
                   u.list[i].key \in DOMAIN u.map /\ u.map[u.list[i].key] = i
    <3>1. CASE i = itr
      <4>1. u.list[i].key \notin DOMAIN u.map
        BY <1>2, <1>8, <1>9, <3>1
      <4> QED BY <1>7, <3>1, <4>1
    <3>2. CASE i # itr
      <4>1. i \in DOMAIN t.list /\ u.list[i] = t.list[i]
        BY <1>6, <3>2
      <4>2. t.list[i].active_in_map <=>
                t.list[i].key \in DOMAIN t.map /\ t.map[t.list[i].key] = i
        BY <1>1, <4>1 DEF ListConsistent
      <4>3. CASE t.list[i].key = key
        <5>1. t.map[t.list[i].key] # i /\ t.list[i].key \notin DOMAIN u.map
          BY <1>9, <3>2, <4>3
        <5> QED BY <4>1, <4>2, <5>1
      <4>4. CASE t.list[i].key # key
        <5>1. \/ t.list[i].key \in DOMAIN t.map /\ t.list[i].key \in DOMAIN u.map
                 /\ u.map[t.list[i].key] = t.map[t.list[i].key]
              \/ t.list[i].key \notin DOMAIN t.map /\ t.list[i].key \notin DOMAIN u.map
          BY <1>9, <4>4
        <5> QED BY <4>1, <4>2, <5>1
      <4> QED BY <4>3, <4>4
    <3> QED BY <3>1, <3>2
  <2>3. {i \in DOMAIN u.list : ~u.list[i].active_in_map}
            = {i \in DOMAIN t.list : ~t.list[i].active_in_map} \cup {itr}
    <3>1. ASSUME NEW i
          PROVE  (i \in DOMAIN u.list /\ ~u.list[i].active_in_map) <=>
                     \/ i \in DOMAIN t.list /\ ~t.list[i].active_in_map
                     \/ i = itr
      <4>1. CASE i = itr
        BY <1>2, <1>6, <1>7, <4>1
      <4>2. CASE i # itr
        BY <1>6, <4>2
      <4> QED BY <4>1, <4>2
    <3> QED BY <3>1
  <2>4. /\ Range(u.snapshot_invalid_iters)
               = Range(t.snapshot_invalid_iters) \cup {itr}
        /\ IsInjective(u.snapshot_invalid_iters)
    BY <1>1, <1>4, <1>10, RangeAppend, SMT DEF ListConsistent
  <2>5. DOMAIN u.list \subseteq 1 .. u.end - 1
    BY <1>1, <1>4, <1>6 DEF ListConsistent
  <2> QED BY <1>1, <2>1, <2>2, <2>3, <2>4, <2>5 DEF ListConsistent
<1>13. ASSUME NEW i \in DOMAIN u.list
       PROVE  /\ u.list[i].version <= u.current_version
              /\ u.list[i].active_in_map => ~u.list[i].free_key
  <2>1. /\ i \in DOMAIN t.list /\ t.list[i].version <= t.current_version
        /\ t.list[i].active_in_map => ~t.list[i].free_key
    BY <1>6 DEF Listed
  <2>2. i # itr => u.list[i] = t.list[i]
    BY <1>6
  <2> QED BY <1>4, <1>7, <1>8, <2>1, <2>2
<1>14. Kept(t, u)
  <2>1. u.end >= t.end
    BY <1>1, <1>4, SMT DEF FieldsOK
  <2> QED BY <1>4, <1>6, <1>8, <2>1 DEF Kept
<1>15. Reads(u, Drop(Contents(t), key))
  <2>1. \A k \in DOMAIN t.map : t.map[k] \in DOMAIN t.list
    BY <1>1 DEF ListConsistent
  <2>2. \A k \in DOMAIN u.map : u.list[u.map[k]].value = t.list[t.map[k]].value
    BY <1>8, <1>9, <2>1
  <2> QED BY <1>9, <2>2, ContentsDrop
<1>16. ASSUME ArenaInv(t) PROVE ArenaInv(u)
  <2>0. KeysAllocated(t) /\ CharsOwned(t)
    BY <1>16 DEF ArenaInv
  <2>1. KeysAllocated(u)
    <3>1. \A i \in DOMAIN t.list :
              i \in DOMAIN u.list /\ u.list[i].chars = t.list[i].chars
      BY <1>6, <1>8
    <3>2. \A i \in DOMAIN u.list : \E j \in DOMAIN t.list :
              u.list[i].chars = t.list[j].chars
      BY <1>6, <1>8
    <3> QED BY <1>4, <2>0, <3>1, <3>2, SameAllocation
  <2>2. ASSUME NEW i \in DOMAIN u.list PROVE u.list[i].chars < u.end
    <3>1. i \in DOMAIN t.list /\ t.list[i].chars < t.end
      BY <1>6, <2>0 DEF CharsOwned
    <3> QED BY <1>4, <1>8, <3>1
  <2>3. \A j \in DOMAIN t.list \ {itr} :
            t.list[j].chars = t.list[itr].chars => ~t.list[j].active_in_map
    BY <1>2, <1>3, <2>0 DEF CharsOwned
  <2>4. ASSUME NEW i \in DOMAIN u.list, NEW j \in DOMAIN u.list,
               u.list[i].chars = u.list[j].chars, u.list[i].active_in_map
        PROVE  (u.list[j].active_in_map => i = j) /\ ~u.list[j].free_key
    <3>1. i # itr
      BY <1>7, <2>4
    <3>2. i \in DOMAIN t.list \ {itr} /\ u.list[i] = t.list[i]
      BY <1>6, <3>1
    <3>3. t.list[i].chars # t.list[itr].chars
      BY <2>3, <2>4, <3>2
    <3>4. j # itr
      BY <1>2, <1>8, <2>4, <3>2, <3>3, SMT
    <3>5. j \in DOMAIN t.list /\ u.list[j] = t.list[j]
      BY <1>6, <3>4
    <3> QED BY <2>0, <2>4, <3>2, <3>5, OwnedOnce
  <2>5. ASSUME NEW i \in DOMAIN u.list
        PROVE  \E j \in DOMAIN u.list :
                   /\ u.list[j].chars = u.list[i].chars
                   /\ u.list[j].active_in_map \/ u.list[j].free_key
    <3>1. CASE u.list[i].chars = t.list[itr].chars
      BY <1>2, <1>6, <1>7, <1>8, <3>1
    <3>2. CASE u.list[i].chars # t.list[itr].chars
      <4>1. i \in DOMAIN t.list /\ u.list[i].chars = t.list[i].chars
        BY <1>6, <1>8
      <4>2. PICK j \in DOMAIN t.list :
                /\ t.list[j].chars = t.list[i].chars
                /\ t.list[j].active_in_map \/ t.list[j].free_key
        BY <2>0, <4>1 DEF CharsOwned
      <4>3. j \in DOMAIN u.list /\ u.list[j] = t.list[j]
        BY <1>6, <3>2, <4>1, <4>2
      <4> QED BY <4>1, <4>2, <4>3
    <3> QED BY <3>1, <3>2
  <2>6. CharsOwned(u)
    BY <2>2, <2>4, <2>5 DEF CharsOwned
  <2> QED BY <1>4, <2>1, <2>6 DEF ArenaInv
<1> QED BY <1>11, <1>12, <1>13, <1>14, <1>15, <1>16 DEF CallOK, Listed

\* Outside snapshot mode the element and its characters go.
LEMMA EraseNowOK ==
    ASSUME NEW K, NEW V, NEW t, Listed(t, K, V), ~t.snapshot_mode,
           NEW key \in DOMAIN t.map, NEW itr, itr = t.map[key],
           NEW u, ElementDropped(t, u, key, itr)
    PROVE  CallOK(t, u, K, V, Drop(Contents(t), key))
<1>1. /\ FieldsOK(t, K, V) /\ ListConsistent(t)
      /\ \A i \in DOMAIN t.list :
             /\ t.list[i].version <= t.current_version
             /\ t.list[i].active_in_map => ~t.list[i].free_key
      /\ itr \in DOMAIN t.list /\ t.list[itr].key = key
      /\ t.list[itr].active_in_map
  BY MappedElement, SMT DEF Listed
<1>2. /\ IsTable(u)
      /\ u.list = Drop(t.list, itr)
      /\ u.map = Drop(t.map, key)
      /\ u.end = t.end
      /\ u.arena = t.arena \ {t.list[itr].chars}
      /\ u.snapshot_mode = t.snapshot_mode
      /\ u.current_version = t.current_version
      /\ u.snapshot_up_to_version = t.snapshot_up_to_version
      /\ u.snapshot_invalid_iters = t.snapshot_invalid_iters
  BY DEF ElementDropped, SameMode
<1>3. /\ DOMAIN u.list = DOMAIN t.list \ {itr}
      /\ \A i \in DOMAIN u.list : u.list[i] = t.list[i]
      /\ DOMAIN u.map = DOMAIN t.map \ {key}
      /\ \A k \in DOMAIN u.map : u.map[k] = t.map[k]
  BY <1>2 DEF Drop
<1>4. FieldsOK(u, K, V)
  BY <1>1, <1>2, <1>3, SMTT(30) DEF FieldsOK, Drop
<1>5. ListConsistent(u)
  <2>1. \A k \in DOMAIN u.map :
            u.map[k] \in DOMAIN u.list /\ u.list[u.map[k]].key = k
    BY <1>1, <1>3, SMTT(30) DEF ListConsistent
  <2>2. ASSUME NEW i \in DOMAIN u.list
        PROVE  u.list[i].active_in_map <=>
                   u.list[i].key \in DOMAIN u.map /\ u.map[u.list[i].key] = i
    <3>1. i \in DOMAIN t.list /\ i # itr /\ u.list[i] = t.list[i]
      BY <1>3
    <3>2. t.list[i].active_in_map <=>
              t.list[i].key \in DOMAIN t.map /\ t.map[t.list[i].key] = i
      BY <1>1, <3>1 DEF ListConsistent
    <3>3. CASE t.list[i].key = key
      <4>1. t.map[t.list[i].key] # i /\ t.list[i].key \notin DOMAIN u.map
        BY <1>3, <3>1, <3>3
      <4> QED BY <3>1, <3>2, <4>1
    <3>4. CASE t.list[i].key # key
      <4>1. \/ t.list[i].key \in DOMAIN t.map /\ t.list[i].key \in DOMAIN u.map
               /\ u.map[t.list[i].key] = t.map[t.list[i].key]
            \/ t.list[i].key \notin DOMAIN t.map /\ t.list[i].key \notin DOMAIN u.map
        BY <1>3, <3>4
      <4> QED BY <3>1, <3>2, <4>1
    <3> QED BY <3>3, <3>4
  <2>3. DOMAIN u.list \subseteq 1 .. u.end - 1
    BY <1>1, <1>2, <1>3 DEF ListConsistent
  <2>4. {i \in DOMAIN u.list : ~u.list[i].active_in_map}
            = {i \in DOMAIN t.list : ~t.list[i].active_in_map}
    BY <1>1, <1>3
  <2> QED BY <1>1, <1>2, <2>1, <2>2, <2>3, <2>4 DEF ListConsistent
<1>6. \A i \in DOMAIN u.list :
          /\ u.list[i].version <= u.current_version
          /\ u.list[i].active_in_map => ~u.list[i].free_key
  BY <1>1, <1>2, <1>3
<1>7. Kept(t, u)
  BY <1>1, <1>2, <1>3, SMTT(30) DEF Kept, FieldsOK
<1>8. Reads(u, Drop(Contents(t), key))
  <2>1. \A k \in DOMAIN u.map : u.map[k] \in DOMAIN u.list
    BY <1>5 DEF ListConsistent
  <2>2. \A k \in DOMAIN u.map : u.list[u.map[k]].value = t.list[t.map[k]].value
    BY <1>3, <2>1
  <2> QED BY <1>3, <2>2, ContentsDrop
<1>9. ASSUME ArenaInv(t) PROVE ArenaInv(u)
  <2>0. /\ KeysAllocated(t) /\ CharsOwned(t)
        /\ t.snapshot_invalid_iters = <<>>
    BY <1>9 DEF ArenaInv
  <2>1. \A i \in DOMAIN t.list : t.list[i].active_in_map
    <3>1. Range(t.snapshot_invalid_iters) = {}
      BY <2>0, SMT DEF Range
    <3>2. {i \in DOMAIN t.list : ~t.list[i].active_in_map} = {}
      BY <1>1, <3>1 DEF ListConsistent
    <3> QED BY <3>2
  <2>2. \A i \in DOMAIN t.list \ {itr} : t.list[i].chars # t.list[itr].chars
    BY <1>1, <2>0, <2>1 DEF CharsOwned
  <2>3. KeysAllocated(u)
    <3> DEFINE A == {t.list[i].chars : i \in DOMAIN t.list}
               B == {u.list[i].chars : i \in DOMAIN u.list}
               x == t.list[itr].chars
    <3>1. \A y \in A : y \in B \/ y = x
      BY <1>3
    <3>2. \A y \in B : y \in A /\ y # x
      BY <1>3, <2>2, SMT
    <3>3. t.arena = A /\ u.arena = t.arena \ {x}
      BY <1>2, <2>0, Zenon DEF KeysAllocated
    <3>4. u.arena = B
      <4> HIDE DEF A, B, x
      <4>1. A \ {x} = B
        BY <3>1, <3>2
      <4> QED BY <3>3, <4>1, Zenon
    <3> QED BY <3>4, Zenon DEF KeysAllocated
  <2>4. CharsOwned(u)
    <3>1. \A i \in DOMAIN u.list : u.list[i].chars < u.end
      BY <1>2, <1>3, <2>0 DEF CharsOwned
    <3>2. \A i \in DOMAIN u.list : u.list[i].active_in_map /\ ~u.list[i].free_key
      BY <1>1, <1>3, <2>1
    <3>3. ASSUME NEW i \in DOMAIN u.list, NEW j \in DOMAIN u.list,
                 u.list[i].chars = u.list[j].chars
          PROVE  i = j
      <4>1. i \in DOMAIN t.list /\ u.list[i] = t.list[i] /\ t.list[i].active_in_map
        BY <1>3, <2>1
      <4>2. j \in DOMAIN t.list /\ u.list[j] = t.list[j] /\ t.list[j].active_in_map
        BY <1>3, <2>1
      <4> QED BY <2>0, <3>3, <4>1, <4>2, OwnedOnce
    <3> QED BY <3>1, <3>2, <3>3 DEF CharsOwned
  <2> QED BY <1>2, <2>0, <2>3, <2>4 DEF ArenaInv
<1> QED BY <1>4, <1>5, <1>6, <1>7, <1>8, <1>9 DEF CallOK, Listed

\* erase() takes the key out of the map.
LEMMA EraseOK ==
    ASSUME NEW K, NEW V, NEW t, Listed(t, K, V), NEW key
    PROVE  CallOK(t, erase(t, key), K, V, Drop(Contents(t), key))
<1> DEFINE u == erase(t, key)
           itr == t.map[key]
           old == t.list[itr]
<1>1. CASE ~contains(t, key)
  <2>1. u = t
    BY <1>1 DEF erase
  <2>2. CallOK(t, t, K, V, Contents(t))
    BY NothingDone
  <2>3. Drop(Contents(t), key) = Contents(t)
    BY <1>1 DEF contains, Contents, Drop
  <2> HIDE DEF u
  <2> QED BY <2>1, <2>2, <2>3 DEF u
<1>2. CASE contains(t, key) /\ t.snapshot_mode
  <2> DEFINE v == Retire(t, itr, TRUE)
  <2>1. u = [v EXCEPT !.map = Drop(v.map, key)]
    BY <1>2 DEF erase
  <2>2. key \in DOMAIN t.map /\ itr \in DOMAIN t.list
    BY <1>2, MappedElement DEF contains
  <2>3. Retired(t, v, itr, TRUE, K, V)
    BY <2>2, RetireFields, Zenon DEF Listed
  <2>4. itr = t.map[key]
    OBVIOUS
  <2> HIDE DEF u, v, itr
  <2>5. MapDropped(v, u, key)
    BY <2>1, <2>3 DEF MapDropped, SameMode, IsTable, Retired
  <2> QED BY <1>2, <2>2, <2>3, <2>4, <2>5, EraseLaterOK, Zenon DEF u
<1>3. CASE contains(t, key) /\ ~t.snapshot_mode
  <2>1. u = [t EXCEPT !.map = Drop(@, key), !.arena = @ \ {old.chars},
                      !.list = Drop(@, itr),
                      !.approximate_data_size = @ - ElemSize(old)]
    BY <1>3 DEF erase
  <2>2. key \in DOMAIN t.map
    BY <1>3 DEF contains
  <2>3. itr = t.map[key] /\ old = t.list[itr]
    OBVIOUS
  <2> HIDE DEF u, itr, old
  <2>4. ElementDropped(t, u, key, itr)
    BY <2>1, <2>3, Zenon DEF ElementDropped, SameMode, Listed, FieldsOK, IsTable
  <2>5. CallOK(t, u, K, V, Drop(Contents(t), key))
    BY <1>3, <2>2, <2>3, <2>4, EraseNowOK
  <2> QED BY <2>5 DEF u
<1>4. t.snapshot_mode \in BOOLEAN
  BY DEF Listed, FieldsOK
<1> HIDE DEF u
<1> QED BY <1>1, <1>2, <1>3, <1>4 DEF u

-----------------------------------------------------------------------------
(***************************************************************************)
(* Snapshot mode begins and ends.                                          *)
(***************************************************************************)

\* u is t after clearOutdatedNodes and disableSnapshotMode.
Cleared(t, u, K, V) ==
    /\ IsTable(u)
    /\ DOMAIN u.list = DOMAIN t.list \ Range(t.snapshot_invalid_iters)
    /\ \A i \in DOMAIN u.list : u.list[i] = t.list[i]
    /\ u.list \in [DOMAIN u.list -> Element(K, V)]
    /\ u.map = t.map
    /\ u.end = t.end
    /\ u.arena = t.arena \
           {t.list[i].chars :
                i \in {j \in Range(t.snapshot_invalid_iters) : t.list[j].free_key}}
    /\ u.snapshot_mode = FALSE
    /\ u.current_version = t.current_version
    /\ u.snapshot_up_to_version = t.snapshot_up_to_version
    /\ u.snapshot_invalid_iters = <<>>

\* The destructor of the snapshot does just that.
LEMMA DestroyFields ==
    ASSUME NEW K, NEW V, NEW t, FieldsOK(t, K, V)
    PROVE  Cleared(t, DestroySnapshot(t), K, V)
<1> DEFINE v == clearOutdatedNodes(t)
           u == DestroySnapshot(t)
           invalid == Range(t.snapshot_invalid_iters)
<1>1. v = clearOutdatedNodes(t)
  OBVIOUS
<1>2. u = disableSnapshotMode(v)
  BY DEF DestroySnapshot
<1> HIDE DEF v, u
<1>3. /\ IsTable(v)
      /\ v.list = [i \in DOMAIN t.list \ invalid |-> t.list[i]]
      /\ v.map = t.map
      /\ v.end = t.end
      /\ v.arena = t.arena \
             {t.list[i].chars : i \in {j \in invalid : t.list[j].free_key}}
      /\ v.current_version = t.current_version
      /\ v.snapshot_up_to_version = t.snapshot_up_to_version
      /\ v.snapshot_invalid_iters = <<>>
  BY <1>1, Zenon DEF clearOutdatedNodes, FieldsOK, IsTable
<1>4. /\ IsTable(u)
      /\ u.list = v.list
      /\ u.map = v.map
      /\ u.end = v.end
      /\ u.arena = v.arena
      /\ u.snapshot_mode = FALSE
      /\ u.current_version = v.current_version
      /\ u.snapshot_up_to_version = v.snapshot_up_to_version
      /\ u.snapshot_invalid_iters = v.snapshot_invalid_iters
  BY <1>2, <1>3, Zenon DEF disableSnapshotMode, IsTable
<1>5. /\ DOMAIN u.list = DOMAIN t.list \ invalid
      /\ \A i \in DOMAIN u.list : u.list[i] = t.list[i]
      /\ u.list \in [DOMAIN u.list -> Element(K, V)]
  BY <1>3, <1>4, SMT DEF FieldsOK
<1>6. Cleared(t, u, K, V)
  BY <1>3, <1>4, <1>5 DEF Cleared
<1> QED BY <1>6 DEF u

\* It leaves exactly the active elements, with their characters, and a reader
\* of the map sees no difference.
LEMMA DestroyOK ==
    ASSUME NEW K, NEW V, NEW t, Listed(t, K, V)
    PROVE  LET u == DestroySnapshot(t)
           IN  /\ Listed(u, K, V)
               /\ ~u.snapshot_mode /\ u.snapshot_invalid_iters = <<>>
               /\ u.current_version = t.current_version
               /\ ArenaInv(t) => ArenaInv(u)
               /\ Reads(u, Contents(t))
<1> DEFINE u == DestroySnapshot(t)
<1>0. Cleared(t, u, K, V)
  BY DestroyFields DEF Listed
<1> HIDE DEF u
<1>1. /\ FieldsOK(t, K, V) /\ ListConsistent(t)
      /\ \A i \in DOMAIN t.list :
             /\ t.list[i].version <= t.current_version
             /\ t.list[i].active_in_map => ~t.list[i].free_key
  BY DEF Listed
<1>2. /\ IsTable(u)
      /\ \A i \in DOMAIN u.list : u.list[i] = t.list[i]
      /\ u.list \in [DOMAIN u.list -> Element(K, V)]
      /\ u.map = t.map
      /\ u.end = t.end
      /\ u.snapshot_mode = FALSE
      /\ u.current_version = t.current_version
      /\ u.snapshot_up_to_version = t.snapshot_up_to_version
      /\ u.snapshot_invalid_iters = <<>>
  BY <1>0 DEF Cleared
<1>3. DOMAIN u.list = {i \in DOMAIN t.list : t.list[i].active_in_map}
  BY <1>0, <1>1 DEF Cleared, ListConsistent
<1>4. FieldsOK(u, K, V)
  <2>1. DOMAIN u.list \subseteq Nat /\ u.snapshot_invalid_iters \in Seq(Nat)
    BY <1>1, <1>2, <1>3, SMT DEF FieldsOK
  <2>2. u.snapshot_mode \in BOOLEAN
    BY <1>2, Zenon
  <2> QED BY <1>1, <1>2, <2>1, <2>2 DEF FieldsOK
<1>5. \A i \in DOMAIN u.list : u.list[i].active_in_map
  BY <1>2, <1>3
<1>6. ListConsistent(u)
  <2>1. DOMAIN u.list \subseteq 1 .. u.end - 1
    BY <1>1, <1>2, <1>3 DEF ListConsistent
  <2>2. \A k \in DOMAIN u.map :
            u.map[k] \in DOMAIN u.list /\ u.list[u.map[k]].key = k
    BY <1>1, <1>2, <1>3, SMTT(30) DEF ListConsistent
  <2>3. \A i \in DOMAIN u.list :
            u.list[i].key \in DOMAIN u.map /\ u.map[u.list[i].key] = i
    BY <1>1, <1>2, <1>3, SMTT(30) DEF ListConsistent
  <2>4. {i \in DOMAIN u.list : ~u.list[i].active_in_map} = {}
    BY <1>5
  <2>5. Range(u.snapshot_invalid_iters) = {} /\ IsInjective(u.snapshot_invalid_iters)
    BY <1>2, SMTT(30) DEF Range, IsInjective
  <2> QED BY <1>5, <2>1, <2>2, <2>3, <2>4, <2>5 DEF ListConsistent
<1>7. Listed(u, K, V)
  BY <1>1, <1>2, <1>3, <1>4, <1>6 DEF Listed
<1>8. Reads(u, Contents(t))
  <2>1. \A k \in DOMAIN u.map : u.map[k] \in DOMAIN u.list
    BY <1>6 DEF ListConsistent
  <2>2. \A k \in DOMAIN t.map : u.list[u.map[k]].value = t.list[t.map[k]].value
    BY <1>2, <2>1
  <2> QED BY <1>2, <2>2, ContentsSame
<1>9. ASSUME KeysAllocated(t), CharsOwned(t) PROVE ArenaInv(u)
  <2>1. KeysAllocated(u)
    <3> DEFINE freed == {t.list[i].chars :
                             i \in {j \in Range(t.snapshot_invalid_iters) :
                                        t.list[j].free_key}}
    <3>1. u.arena = {t.list[i].chars : i \in DOMAIN t.list} \ freed
      BY <1>0, <1>9 DEF Cleared, KeysAllocated
    <3>2. \A i \in DOMAIN u.list : t.list[i].chars \notin freed
      BY <1>1, <1>3, <1>9 DEF CharsOwned, ListConsistent
    <3>3. ASSUME NEW i \in DOMAIN t.list, t.list[i].chars \notin freed
          PROVE  \E j \in DOMAIN u.list : t.list[j].chars = t.list[i].chars
      <4>1. PICK j \in DOMAIN t.list :
                /\ t.list[j].chars = t.list[i].chars
                /\ t.list[j].active_in_map \/ t.list[j].free_key
        BY <1>9 DEF CharsOwned
      <4>2. t.list[j].active_in_map
        BY <1>1, <3>3, <4>1, SMTT(30) DEF ListConsistent
      <4> QED BY <1>3, <4>1, <4>2
    <3> HIDE DEF freed
    <3>4. {u.list[i].chars : i \in DOMAIN u.list}
              = {t.list[i].chars : i \in DOMAIN t.list} \ freed
      BY <1>2, <1>3, <3>2, <3>3, SMT
    <3> QED BY <3>1, <3>4 DEF KeysAllocated
  <2>2. \A i \in DOMAIN u.list : u.list[i].chars < u.end
    BY <1>2, <1>3, <1>9 DEF CharsOwned
  <2>3. \A i \in DOMAIN u.list : ~u.list[i].free_key
    BY <1>1, <1>2, <1>3
  <2>4. \A i, j \in DOMAIN u.list : u.list[i].chars = u.list[j].chars => i = j
    BY <1>2, <1>3, <1>9, OwnedOnce, SMTT(30)
  <2>5. CharsOwned(u)
    BY <1>5, <2>2, <2>3, <2>4 DEF CharsOwned
  <2> QED BY <1>2, <2>1, <2>5 DEF ArenaInv
<1>10. ArenaInv(t) => ArenaInv(u)
  BY <1>9 DEF ArenaInv
<1> QED BY <1>2, <1>7, <1>8, <1>9, <1>10 DEF u

\* clearOutdatedNodes() alone, as after the storage was replaced under a
\* snapshot of it.
LEMMA ClearOK ==
    ASSUME NEW K, NEW V, NEW t, Listed(t, K, V)
    PROVE  LET u == clearOutdatedNodes(t)
           IN  Listed(u, K, V) /\ Reads(u, Contents(t))
<1> DEFINE u == clearOutdatedNodes(t)
           d == DestroySnapshot(t)
<1>1. Listed(d, K, V) /\ Reads(d, Contents(t))
  BY DestroyOK
<1>2. u = clearOutdatedNodes(t) /\ d = disableSnapshotMode(u)
  BY DEF DestroySnapshot
<1> HIDE DEF u, d
<1>3. FieldsOK(t, K, V) /\ t.snapshot_mode \in BOOLEAN
  BY DEF Listed, FieldsOK
<1>4. IsTable(u) /\ u.snapshot_mode = t.snapshot_mode
  BY <1>2, <1>3, Zenon DEF clearOutdatedNodes, FieldsOK, IsTable
<1>5. /\ d.list = u.list
      /\ d.map = u.map
      /\ d.end = u.end
      /\ d.current_version = u.current_version
      /\ d.snapshot_up_to_version = u.snapshot_up_to_version
      /\ d.snapshot_invalid_iters = u.snapshot_invalid_iters
  BY <1>2, <1>4, Zenon DEF disableSnapshotMode, IsTable
<1>6. FieldsOK(u, K, V)
  BY <1>1, <1>3, <1>4, <1>5 DEF Listed, FieldsOK
<1>7. ListConsistent(u)
  BY <1>1, <1>5, SMTT(30) DEF Listed, ListConsistent
<1>8. Listed(u, K, V)
  BY <1>1, <1>5, <1>6, <1>7 DEF Listed
<1>9. Reads(u, Contents(d))
  BY <1>5, ContentsSame
<1> QED BY <1>1, <1>8, <1>9 DEF u, Reads

\* Snapshot mode begins with a version that no element is newer than.
LEMMA TurnOnOK ==
    ASSUME NEW K, NEW V, NEW t, Listed(t, K, V)
    PROVE  LET u == TurnOn(t)
           IN  /\ Listed(u, K, V)
               /\ u.list = t.list /\ u.map = t.map /\ u.end = t.end
               /\ u.snapshot_mode
               /\ u.current_version = t.current_version + 1
               /\ u.snapshot_up_to_version = t.current_version
               /\ u.snapshot_invalid_iters = t.snapshot_invalid_iters
               /\ u.approximate_data_size = t.approximate_data_size
               /\ ArenaInv(t) => ArenaInv(u)
               /\ Reads(u, Contents(t))
<1> DEFINE u == TurnOn(t)
<1>1. u = enableSnapshotMode(t, t.current_version)
  BY DEF TurnOn
<1> HIDE DEF u
<1>2. FieldsOK(t, K, V) /\ ListConsistent(t)
  BY DEF Listed
<1>3. /\ IsTable(u)
      /\ u.list = t.list
      /\ u.map = t.map
      /\ u.end = t.end
      /\ u.arena = t.arena
      /\ u.snapshot_mode = TRUE
      /\ u.current_version = t.current_version + 1
      /\ u.snapshot_up_to_version = t.current_version
      /\ u.snapshot_invalid_iters = t.snapshot_invalid_iters
      /\ u.approximate_data_size = t.approximate_data_size
  BY <1>1, <1>2, Zenon DEF enableSnapshotMode, FieldsOK, IsTable
<1>4. FieldsOK(u, K, V)
  <2>1. u.snapshot_mode \in BOOLEAN
    BY <1>3, Zenon
  <2>2. u.current_version \in Nat /\ u.snapshot_up_to_version \in Nat
    BY <1>2, <1>3, SMT DEF FieldsOK
  <2> QED BY <1>2, <1>3, <2>1, <2>2 DEF FieldsOK
<1>5. ListConsistent(u)
  BY <1>2, <1>3, SMTT(30) DEF ListConsistent
<1>6. \A i \in DOMAIN u.list :
          /\ u.list[i].version <= u.current_version
          /\ u.list[i].active_in_map => ~u.list[i].free_key
  <2>1. \A i \in DOMAIN t.list : t.list[i].version \in Nat
    BY <1>2, ElementFields
  <2> QED BY <1>2, <1>3, <2>1, SMTT(30) DEF Listed, FieldsOK
<1>7. ASSUME ArenaInv(t) PROVE ArenaInv(u)
  <2>1. KeysAllocated(u)
    BY <1>3, <1>7, Zenon DEF ArenaInv, KeysAllocated
  <2>2. CharsOwned(u)
    BY <1>3, <1>7, SMTT(30) DEF ArenaInv, CharsOwned
  <2> QED BY <1>3, <2>1, <2>2 DEF ArenaInv
<1>8. Reads(u, Contents(t))
  BY <1>3, ContentsSame
<1> QED BY <1>3, <1>4, <1>5, <1>6, <1>7, <1>8 DEF Listed, u

\* disableSnapshotMode() alone, as after a snapshot that failed.
LEMMA DisableOK ==
    ASSUME NEW K, NEW V, NEW t, Listed(t, K, V)
    PROVE  LET u == disableSnapshotMode(t)
           IN  /\ Listed(u, K, V)
               /\ u.list = t.list /\ u.map = t.map /\ u.end = t.end
               /\ ~u.snapshot_mode
               /\ u.current_version = t.current_version
               /\ u.snapshot_invalid_iters = t.snapshot_invalid_iters
               /\ Reads(u, Contents(t))
<1> DEFINE u == disableSnapshotMode(t)
<1>1. u = disableSnapshotMode(t)
  OBVIOUS
<1> HIDE DEF u
<1>2. FieldsOK(t, K, V) /\ ListConsistent(t)
  BY DEF Listed
<1>3. /\ IsTable(u)
      /\ u.list = t.list
      /\ u.map = t.map
      /\ u.end = t.end
      /\ u.snapshot_mode = FALSE
      /\ u.current_version = t.current_version
      /\ u.snapshot_up_to_version = t.snapshot_up_to_version
      /\ u.snapshot_invalid_iters = t.snapshot_invalid_iters
  BY <1>1, <1>2, Zenon DEF disableSnapshotMode, FieldsOK, IsTable
<1>4. FieldsOK(u, K, V)
  <2>1. u.snapshot_mode \in BOOLEAN
    BY <1>3, Zenon
  <2> QED BY <1>2, <1>3, <2>1 DEF FieldsOK
<1>5. ListConsistent(u)
  BY <1>2, <1>3, SMTT(30) DEF ListConsistent
<1>6. Listed(u, K, V)
  BY <1>3, <1>4, <1>5 DEF Listed
<1>7. Reads(u, Contents(t))
  BY <1>3, ContentsSame
<1> QED BY <1>3, <1>6, <1>7 DEF u

\* A new table is empty.
LEMMA EmptyTableOK ==
    ASSUME NEW K, NEW V
    PROVE  /\ Listed(EmptyTable, K, V) /\ ArenaInv(EmptyTable)
           /\ DOMAIN EmptyTable.list = {} /\ DOMAIN EmptyTable.map = {}
           /\ ~EmptyTable.snapshot_mode
           /\ EmptyTable.snapshot_invalid_iters = <<>>
<1> DEFINE t == EmptyTable
<1>1. /\ IsTable(t) /\ t.list = <<>> /\ t.map = <<>> /\ t.arena = {}
      /\ t.snapshot_mode = FALSE /\ t.current_version = 0
      /\ t.snapshot_up_to_version = 0 /\ t.snapshot_invalid_iters = <<>>
      /\ t.end = 1
  BY DEF EmptyTable, IsTable
<1> HIDE DEF t
<1>2. DOMAIN t.list = {} /\ DOMAIN t.map = {}
  BY <1>1, SMT
<1>3. FieldsOK(t, K, V)
  <2>1. /\ t.list \in [DOMAIN t.list -> Element(K, V)]
        /\ t.map \in [DOMAIN t.map -> Nat]
    <3>1. \A T : <<>> \in [DOMAIN <<>> -> T]
      BY SMT
    <3> QED BY <1>1, <3>1, Zenon
  <2>2. t.snapshot_mode \in BOOLEAN
    BY <1>1, Zenon
  <2>3. t.snapshot_invalid_iters \in Seq(Nat)
    BY <1>1, SMT
  <2> QED BY <1>1, <1>2, <2>1, <2>2, <2>3, SMT DEF FieldsOK
<1>4. ListConsistent(t)
  BY <1>1, <1>2 DEF ListConsistent, Range, IsInjective
<1>5. KeysAllocated(t) /\ CharsOwned(t)
  BY <1>1, <1>2 DEF KeysAllocated, CharsOwned
<1> QED BY <1>1, <1>2, <1>3, <1>4, <1>5 DEF Listed, ArenaInv, t

-----------------------------------------------------------------------------
(***************************************************************************)
(* Induction, for a set of numbers or of finite sets.                      *)
(***************************************************************************)

\* begin() and ++itr find the first element: a set of positions has a least.
LEMMA MinOfNats ==
    ASSUME NEW S \in SUBSET Nat, S # {}
    PROVE  Min(S) \in S /\ \A n \in S : Min(S) <= n
<1>1. PICK x \in S : \A y \in S : ~ (<<y, x>> \in OpToRel(<, Nat))
  BY WFMin, NatLessThanWellFounded, Zenon
<1>2. \A y \in S : x <= y
  <2> TAKE y \in S
  <2>1. x \in Nat /\ y \in Nat
    OBVIOUS
  <2>2. ~(y < x)
    BY <1>1, <2>1, Zenon DEF OpToRel
  <2> QED BY <2>1, <2>2, SMT
<1> QED BY <1>2, Zenon DEF Min

\* A set with 0 and with the successor of every number below n has them all.
LEMMA UpTo ==
    ASSUME NEW n \in Nat, NEW G, 0 \in G,
           \A i \in 0 .. n - 1 : i \in G => i + 1 \in G
    PROVE  \A i \in 0 .. n : i \in G
<1> SUFFICES ASSUME NEW j \in 0 .. n, j \notin G PROVE FALSE
  OBVIOUS
<1> DEFINE S == {i \in 0 .. n : i \notin G}
           k == Min(S)
<1>1. S \in SUBSET Nat /\ S # {}
  BY SMT
<1>2. k \in S /\ \A i \in S : k <= i
  BY <1>1, MinOfNats
<1> HIDE DEF k
<1>3. k \in 1 .. n
  BY <1>2, SMT
<1>4. k - 1 \in 0 .. n - 1 /\ k - 1 \notin S
  BY <1>2, <1>3, SMT
<1>5. k - 1 \in G
  BY <1>4, SMT
<1>6. (k - 1) + 1 \in G /\ (k - 1) + 1 = k
  BY <1>3, <1>4, <1>5, SMT
<1> QED BY <1>2, <1>6

\* A set with a finite set whenever it has what is left of it without any one
\* element has all subsets of a finite set.
LEMMA FiniteInduction ==
    ASSUME NEW U, IsFiniteSet(U), NEW G,
           \A S \in SUBSET U : (\A x \in S : S \ {x} \in G) => S \in G
    PROVE  \A S \in SUBSET U : S \in G
<1> SUFFICES ASSUME NEW B \in SUBSET U, B \notin G PROVE FALSE
  OBVIOUS
<1> DEFINE Bad == {S \in SUBSET U : S \notin G}
           N == {Cardinality(S) : S \in Bad}
           k == Min(N)
<1>1. \A S \in SUBSET U : IsFiniteSet(S) /\ Cardinality(S) \in Nat
  BY FS_Subset, FS_CardinalityType
<1>2. N \in SUBSET Nat /\ N # {}
  BY <1>1, SMT
<1>3. k \in N /\ \A i \in N : k <= i
  BY <1>2, MinOfNats
<1> HIDE DEF k
<1>4. PICK S \in Bad : k = Cardinality(S)
  BY <1>3, SMT
<1>5. ASSUME NEW x \in S PROVE S \ {x} \in G
  <2>1. /\ S \ {x} \in SUBSET U
        /\ Cardinality(S \ {x}) = Cardinality(S) - 1
    BY <1>1, <1>4, FS_RemoveElement
  <2>2. k \in Nat
    BY <1>2, <1>3
  <2>3. Cardinality(S \ {x}) \notin N
    <3>1. ~(k <= k - 1)
      BY <2>2, SMT
    <3> QED BY <1>3, <1>4, <2>1, <3>1, SMT
  <2> QED BY <2>1, <2>3
<1> QED BY <1>4, <1>5

-----------------------------------------------------------------------------
(***************************************************************************)
(* The snapshot thread.                                                    *)
(***************************************************************************)

\* What there is of the table f, of which the snapshot was taken, in the table
\* t now: its elements are in the list unchanged, too old to be updated in
\* place, and what came into the list later stands behind them.
Frozen(t, f, K, V) ==
    /\ Listed(f, K, V)
    /\ \A i \in DOMAIN f.list : f.list[i].active_in_map
    /\ t.snapshot_mode
    /\ \A i \in DOMAIN f.list :
           /\ i \in DOMAIN t.list
           /\ t.list[i].key = f.list[i].key
           /\ t.list[i].value = f.list[i].value
           /\ t.list[i].version <= t.snapshot_up_to_version
    /\ \A i \in DOMAIN t.list \ DOMAIN f.list : \A j \in DOMAIN f.list : j < i

\* No call disturbs it.
LEMMA FrozenKept ==
    ASSUME NEW K, NEW V, NEW t, Listed(t, K, V), NEW f, Frozen(t, f, K, V),
           NEW u, Kept(t, u)
    PROVE  Frozen(u, f, K, V)
<1> DEFINE D == DOMAIN f.list
<1>1. \A i \in D :
          /\ i \in DOMAIN u.list
          /\ u.list[i].key = f.list[i].key
          /\ u.list[i].value = f.list[i].value
          /\ u.list[i].version <= u.snapshot_up_to_version
  BY DEF Frozen, Kept
<1>2. ASSUME NEW i \in DOMAIN u.list \ D, NEW j \in D PROVE j < i
  <2>1. j \in DOMAIN t.list
    BY DEF Frozen
  <2>2. j \in Nat /\ j < t.end /\ t.end \in Nat
    BY <2>1, SMTT(30) DEF Listed, ListConsistent, FieldsOK
  <2>3. CASE i \in DOMAIN t.list
    BY <2>3 DEF Frozen
  <2>4. CASE i \in Nat /\ i >= t.end
    BY <2>2, <2>4, SMT
  <2> QED BY <2>3, <2>4 DEF Kept
<1> QED BY <1>1, <1>2 DEF Frozen, Kept

\* The snapshot has a list without outdated elements to read.
LEMMA FrozenTaken ==
    ASSUME NEW K, NEW V, NEW t, Listed(t, K, V), t.snapshot_invalid_iters = <<>>
    PROVE  Frozen(TurnOn(t), t, K, V)
<1> DEFINE u == TurnOn(t)
<1>1. /\ u.list = t.list /\ u.snapshot_mode
      /\ u.snapshot_up_to_version = t.current_version
  BY TurnOnOK
<1> HIDE DEF u
<1>2. \A i \in DOMAIN t.list : t.list[i].version <= t.current_version
  BY DEF Listed
<1>3. \A i \in DOMAIN t.list : t.list[i].active_in_map
  <2>1. Range(t.snapshot_invalid_iters) = {}
    BY SMT DEF Range
  <2>2. {i \in DOMAIN t.list : ~t.list[i].active_in_map} = {}
    BY <2>1 DEF Listed, ListConsistent
  <2> QED BY <2>2
<1>4. Frozen(u, t, K, V)
  BY <1>1, <1>2, <1>3 DEF Frozen
<1> QED BY <1>4 DEF u

\* The elements of a sequence.
LEMMA SeqElements ==
    ASSUME NEW S, NEW q \in Seq(S)
    PROVE  Len(q) \in Nat /\ \A n \in 1 .. Len(q) : q[n] \in S
  BY SMT

\* Appending to a sequence.
LEMMA AppendElements ==
    ASSUME NEW S, NEW q \in Seq(S), NEW e \in S
    PROVE  /\ Append(q, e) \in Seq(S) /\ Len(Append(q, e)) = Len(q) + 1
           /\ \A n \in 1 .. Len(q) : Append(q, e)[n] = q[n]
           /\ Append(q, e)[Len(q) + 1] = e
  BY SMT

\* The node of an element as it stands in the file.
NodeOf(elem) == [key |-> elem.key, value |-> elem.value]

\* The fields of a snapshot.
IsSnapshot(s) ==
    s = [last_log_idx |-> s.last_log_idx, container_size |-> s.container_size,
         counter |-> s.counter, it |-> s.it, nodes |-> s.nodes,
         writing |-> s.writing]

\* The iterator stands on an element of the snapshot, the nodes are those of
\* the elements before it, and the counter counts them: so there is a next one
\* until the counter is at the end.
Cursor(s, f, K, V) ==
    /\ s \in Snapshot(K, V)
    /\ s.container_size = Cardinality(DOMAIN f.list)
    /\ s.counter = Len(s.nodes)
    /\ \A n \in 1 .. Len(s.nodes) :
           \E i \in DOMAIN f.list : s.nodes[n] = NodeOf(f.list[i])
    /\ \A i \in DOMAIN f.list :
           (s.writing => i < s.it) =>
               \E n \in 1 .. Len(s.nodes) : s.nodes[n] = NodeOf(f.list[i])
    /\ s.writing =>
           /\ s.it \in DOMAIN f.list
           /\ s.counter = Cardinality({i \in DOMAIN f.list : i < s.it})
    /\ ~s.writing => s.counter = s.container_size

\* A list is finite.
LEMMA ListFinite ==
    ASSUME NEW K, NEW V, NEW t, Listed(t, K, V)
    PROVE  /\ IsFiniteSet(DOMAIN t.list) /\ Cardinality(DOMAIN t.list) \in Nat
           /\ DOMAIN t.list \subseteq 1 .. t.end - 1 /\ t.end \in Nat
           /\ DOMAIN t.list \subseteq Nat
<1>1. DOMAIN t.list \subseteq 1 .. t.end - 1 /\ t.end \in Nat
  BY DEF Listed, ListConsistent, FieldsOK
<1>4. 1 .. t.end - 1 \subseteq Nat
  BY <1>1, SMT
<1>2. IsFiniteSet(1 .. t.end - 1)
  BY <1>1, FS_Interval, SMT
<1>3. IsFiniteSet(DOMAIN t.list)
  BY <1>1, <1>2, FS_Subset
<1> QED BY <1>1, <1>3, <1>4, FS_CardinalityType

\* The constructor of KeeperStorageSnapshot.
LEMMA CursorBegin ==
    ASSUME NEW K, NEW V, NEW t, Listed(t, K, V), NEW last_log_idx \in Nat
    PROVE  /\ Cursor(NewSnapshot(t, last_log_idx), t, K, V)
           /\ NewSnapshot(t, last_log_idx).last_log_idx = last_log_idx
<1> DEFINE s == NewSnapshot(t, last_log_idx)
           D == DOMAIN t.list
<1>1. /\ IsFiniteSet(D) /\ Cardinality(D) \in Nat
      /\ D \subseteq 1 .. t.end - 1 /\ t.end \in Nat /\ D \subseteq Nat
  BY ListFinite
<1>2. /\ IsSnapshot(s) /\ s.last_log_idx = last_log_idx
      /\ s.container_size = Cardinality(D) /\ s.counter = 0
      /\ s.it = Min(D \cup {t.end}) /\ s.nodes = <<>>
      /\ s.writing = (Cardinality(D) # 0)
  BY Zenon DEF NewSnapshot, IsSnapshot, size, begin
<1> HIDE DEF s, D
<1>3. ASSUME s.writing PROVE s.it \in D /\ {i \in D : i < s.it} = {}
  <2>1. D # {}
    BY <1>2, <1>3, FS_EmptySet
  <2>2. D \cup {t.end} \in SUBSET Nat
    BY <1>1
  <2>3. s.it \in D \cup {t.end} /\ \A n \in D \cup {t.end} : s.it <= n
    BY <1>2, <2>2, MinOfNats
  <2>4. PICK d \in D : TRUE
    BY <2>1
  <2>5. s.it \in D
    BY <1>1, <2>3, <2>4, SMT
  <2>6. \A i \in D : ~(i < s.it)
    <3> SUFFICES ASSUME NEW i \in D PROVE ~(i < s.it)
      OBVIOUS
    <3>1. i \in Nat /\ s.it \in Nat
      BY <2>2, <2>5, Zenon
    <3>2. s.it <= i
      BY <2>3
    <3> QED BY <3>1, <3>2, SMT
  <2> QED BY <2>5, <2>6
<1>4. ~s.writing => D = {}
  BY <1>1, <1>2, FS_EmptySet
<1>5. \A i \in D : s.writing /\ ~(i < s.it)
  BY <1>3, <1>4
<1>6. s \in Snapshot(K, V) /\ Len(s.nodes) = 0
  <2>1. s.nodes \in Seq([key : K, value : V]) /\ Len(s.nodes) = 0
    BY <1>2, SMT
  <2>2. s.it \in Nat
    <3>1. D \cup {t.end} \in SUBSET Nat
      BY <1>1
    <3> QED BY <1>2, <3>1, MinOfNats
  <2>3. s.writing \in BOOLEAN
    BY <1>2
  <2>4. s.last_log_idx \in Nat /\ s.container_size \in Nat /\ s.counter \in Nat
    BY <1>1, <1>2, SMT
  <2>5. IsSnapshot(s)
    BY <1>2
  <2> QED BY <2>1, <2>2, <2>3, <2>4, <2>5 DEF IsSnapshot, Snapshot
<1>7. s.writing => s.counter = Cardinality({i \in D : i < s.it})
  BY <1>2, <1>3, FS_EmptySet
<1>8. Cursor(s, t, K, V)
  <2>1. s.container_size = Cardinality(D) /\ s.counter = Len(s.nodes)
    BY <1>2, <1>6
  <2>2. 1 .. Len(s.nodes) = {}
    BY <1>6, SMT
  <2>3. ~s.writing => s.counter = s.container_size
    BY <1>2
  <2> QED BY <1>3, <1>5, <1>6, <1>7, <2>1, <2>2, <2>3 DEF Cursor, D
<1> QED BY <1>2, <1>8 DEF s

\* One turn of the loop of serialize(): if it is not the last, there is
\* another element of the snapshot, and the next element of the list is one.
LEMMA CursorNext ==
    ASSUME NEW K, NEW V, NEW t, Listed(t, K, V), NEW f, Frozen(t, f, K, V),
           NEW s, Cursor(s, f, K, V), s.writing,
           \A i \in DOMAIN f.list : ~(mzxid(f.list[i].value) > s.last_log_idx)
    PROVE  /\ s.it \in DOMAIN t.list
           /\ Cursor(SerializeNode(s, t), f, K, V)
           /\ SerializeNode(s, t).last_log_idx = s.last_log_idx
<1> DEFINE D == DOMAIN f.list
           n == SerializeNode(s, t)
           elem == t.list[s.it]
           last == s.counter = s.container_size - 1
           node == NodeOf(f.list[s.it])
           it == IF last THEN s.it ELSE NextIter(t, s.it)
<1>1. /\ IsFiniteSet(D) /\ Cardinality(D) \in Nat
      /\ D \subseteq DOMAIN t.list
      /\ DOMAIN t.list \subseteq 1 .. t.end - 1 /\ t.end \in Nat
      /\ DOMAIN t.list \subseteq Nat
  <2>1. IsFiniteSet(D) /\ Cardinality(D) \in Nat
    BY ListFinite DEF Frozen
  <2>2. /\ DOMAIN t.list \subseteq 1 .. t.end - 1 /\ t.end \in Nat
        /\ DOMAIN t.list \subseteq Nat
    BY ListFinite
  <2> QED BY <2>1, <2>2 DEF Frozen
<1>2. /\ s \in Snapshot(K, V) /\ s.container_size = Cardinality(D)
      /\ s.nodes \in Seq([key : K, value : V])
      /\ s.counter = Len(s.nodes)
      /\ s.it \in D
      /\ s.counter = Cardinality({i \in D : i < s.it})
  BY DEF Cursor, Snapshot
<1>3. elem.key = f.list[s.it].key /\ elem.value = f.list[s.it].value
  BY <1>2 DEF Frozen
<1>4. ~(mzxid(elem.value) > s.last_log_idx)
  BY <1>2, <1>3
<1>5. n = [s EXCEPT !.nodes = Append(s.nodes, node), !.counter = s.counter + 1,
                    !.it = it, !.writing = ~last]
  <2>1. node = [key |-> elem.key, value |-> elem.value]
    BY <1>3 DEF NodeOf
  <2> HIDE DEF node
  <2> QED BY <1>4, <2>1 DEF SerializeNode
<1>6. node \in [key : K, value : V]
  <2>1. f.list[s.it].key \in K /\ f.list[s.it].value \in V
    BY <1>2, ElementFields DEF Frozen, Listed
  <2> QED BY <2>1 DEF NodeOf
<1> HIDE DEF it, last, n, node
<1>7. /\ IsSnapshot(n) /\ n.last_log_idx = s.last_log_idx
      /\ n.container_size = s.container_size
      /\ n.counter = s.counter + 1 /\ n.it = it
      /\ n.nodes = Append(s.nodes, node)
      /\ n.writing = ~last
  BY <1>2, <1>5, Zenon DEF IsSnapshot, Snapshot
<1>8. /\ n.nodes \in Seq([key : K, value : V]) /\ Len(n.nodes) = Len(s.nodes) + 1
      /\ \A j \in 1 .. Len(s.nodes) : n.nodes[j] = s.nodes[j]
      /\ n.nodes[Len(n.nodes)] = node
      /\ Len(s.nodes) \in Nat
  <2> DEFINE R == [key : K, value : V]
             q == s.nodes
  <2>1. q \in Seq(R) /\ node \in R /\ n.nodes = Append(q, node)
    BY <1>2, <1>6, <1>7
  <2> HIDE DEF R, q
  <2>2. /\ Append(q, node) \in Seq(R) /\ Len(Append(q, node)) = Len(q) + 1
        /\ \A j \in 1 .. Len(q) : Append(q, node)[j] = q[j]
        /\ Append(q, node)[Len(q) + 1] = node
        /\ Len(q) \in Nat
    BY <2>1, AppendElements, SeqElements, SMT
  <2> QED BY <2>1, <2>2 DEF R, q
<1> DEFINE B == {i \in D : i < s.it}
<1>9. IsFiniteSet(B) /\ Cardinality(B) \in Nat /\ s.it \notin B
  BY <1>1, <1>2, FS_Subset, FS_CardinalityType, SMT
<1>10. Cardinality(B \cup {s.it}) = s.counter + 1
  <2>1. Cardinality(B) = s.counter
    BY <1>2
  <2> HIDE DEF B
  <2> QED BY <1>9, <2>1, FS_AddElement
<1>11. last => B \cup {s.it} = D
  <2> SUFFICES ASSUME last PROVE B \cup {s.it} = D
    OBVIOUS
  <2>1. B \cup {s.it} \subseteq D
    BY <1>2
  <2>2. Cardinality(B \cup {s.it}) = Cardinality(D)
    <3>1. Cardinality(B) = s.counter
      BY <1>2
    <3> HIDE DEF B
    <3>2. s.counter = Cardinality(D) - 1 /\ s.counter \in Nat
      BY <1>2, <1>9, <3>1 DEF last
    <3> QED BY <1>1, <1>10, <3>2, SMT
  <2> HIDE DEF B
  <2> QED BY <1>1, <2>1, <2>2, FS_Subset
<1>12. ASSUME ~last
       PROVE  it \in D /\ {i \in D : i < it} = B \cup {s.it}
  <2> DEFINE After == {i \in DOMAIN t.list : i > s.it} \cup {t.end}
  <2>1. PICK g \in D : g > s.it
    <3>1. B \cup {s.it} # D
      <4>1. s.counter # s.container_size - 1 /\ s.counter \in Nat
        BY <1>2, <1>9, <1>12 DEF last
      <4>2. SUFFICES ASSUME B \cup {s.it} = D PROVE FALSE
        OBVIOUS
      <4>3. s.container_size = s.counter + 1
        BY <1>2, <1>10, <4>2
      <4> QED BY <4>1, <4>3, SMT
    <3> QED BY <1>1, <1>2, <3>1, SMT
  <2>2. it = Min(After)
    BY <1>12 DEF it, NextIter
  <2>3. it \in After /\ \A a \in After : it <= a
    <3>1. After \in SUBSET Nat /\ After # {}
      BY <1>1
    <3> QED BY <2>2, <3>1, MinOfNats
  <2> HIDE DEF it
  <2>4. it <= g /\ it \in DOMAIN t.list /\ it > s.it
    BY <1>1, <2>1, <2>3, SMT
  <2>5. it \in D
    BY <1>1, <2>1, <2>4, SMT DEF Frozen
  <2>6. {i \in D : i < it} = B \cup {s.it}
    BY <1>1, <1>2, <2>3, <2>4, <2>5, SMT
  <2> QED BY <2>5, <2>6
<1>13. \A i \in D : (n.writing => i < n.it) => i \in B \cup {s.it}
  BY <1>7, <1>11, <1>12
<1>14. ASSUME NEW j \in 1 .. Len(n.nodes)
       PROVE  \E i \in D : n.nodes[j] = NodeOf(f.list[i])
  <2>1. CASE j = Len(n.nodes)
    BY <1>2, <1>8, <2>1 DEF node
  <2>2. CASE j \in 1 .. Len(s.nodes)
    BY <1>8, <2>2 DEF Cursor
  <2> QED BY <1>8, <2>1, <2>2, SMT
<1>15. ASSUME NEW i \in D, n.writing => i < n.it
       PROVE  \E j \in 1 .. Len(n.nodes) : n.nodes[j] = NodeOf(f.list[i])
  <2>1. CASE i = s.it
    <3>1. n.nodes[Len(n.nodes)] = NodeOf(f.list[i])
      BY <1>8, <2>1 DEF node
    <3>2. Len(n.nodes) \in 1 .. Len(n.nodes)
      BY <1>8, SMT
    <3> QED BY <3>1, <3>2
  <2>2. CASE i \in B
    <3>1. PICK j \in 1 .. Len(s.nodes) : s.nodes[j] = NodeOf(f.list[i])
      BY <2>2 DEF Cursor
    <3>2. j \in 1 .. Len(n.nodes) /\ n.nodes[j] = NodeOf(f.list[i])
      BY <1>8, <3>1, SMT
    <3> QED BY <3>2
  <2> QED BY <1>13, <1>15, <2>1, <2>2
<1>16. n.writing => n.it \in D /\ n.counter = Cardinality({i \in D : i < n.it})
  BY <1>7, <1>10, <1>12
<1>17. ~n.writing => n.counter = n.container_size
  <2> SUFFICES ASSUME ~n.writing PROVE n.counter = n.container_size
    OBVIOUS
  <2>1. s.counter = s.container_size - 1
    BY <1>7 DEF last
  <2> QED BY <1>1, <1>2, <1>7, <2>1, SMT
<1>18. n \in Snapshot(K, V)
  <2>1. n.it \in Nat
    BY <1>1, <1>2, <1>7, <1>12 DEF it
  <2>2. n.writing \in BOOLEAN
    BY <1>7
  <2>3. n.last_log_idx \in Nat /\ n.container_size \in Nat /\ n.counter \in Nat
    BY <1>2, <1>7, <1>8, SMT DEF Snapshot
  <2> QED BY <1>7, <1>8, <2>1, <2>2, <2>3 DEF IsSnapshot, Snapshot
<1>19. Cursor(n, f, K, V)
  BY <1>2, <1>7, <1>8, <1>18, <1>14, <1>15, <1>16, <1>17 DEF Cursor
<1> QED BY <1>1, <1>2, <1>7, <1>19 DEF n

-----------------------------------------------------------------------------
(***************************************************************************)
(* What is written is read back.                                           *)
(***************************************************************************)

\* The file holds the nodes of the map m, each with its value.
Written(file, m, K, V) ==
    /\ file.nodes \in Seq([key : K, value : V])
    /\ Len(file.nodes) = file.container_size
    /\ \A n \in 1 .. Len(file.nodes) :
           /\ file.nodes[n].key \in DOMAIN m
           /\ file.nodes[n].value = m[file.nodes[n].key]
    /\ \A k \in DOMAIN m :
           \E n \in 1 .. Len(file.nodes) : file.nodes[n].key = k

\* When the loop of serialize() has ended the file holds what was frozen.
LEMMA CursorEnd ==
    ASSUME NEW K, NEW V, NEW t, NEW f, Frozen(t, f, K, V),
           NEW s, Cursor(s, f, K, V), ~s.writing
    PROVE  Written(FileOf(s), Contents(f), K, V)
<1> DEFINE file == FileOf(s)
           m == Contents(f)
           D == DOMAIN f.list
<1>1. file.nodes = s.nodes /\ file.container_size = s.container_size
  BY DEF FileOf
<1>2. ASSUME NEW i \in D
      PROVE  /\ f.list[i].key \in DOMAIN m
             /\ f.list[i].value = m[f.list[i].key]
  <2>1. f.list[i].key \in DOMAIN f.map /\ f.map[f.list[i].key] = i
    BY DEF Frozen, Listed, ListConsistent
  <2> QED BY <2>1 DEF Contents, getValue
<1>3. ASSUME NEW k \in DOMAIN m
      PROVE  \E i \in D : f.list[i].key = k
  <2>1. k \in DOMAIN f.map
    BY DEF Contents
  <2> QED BY <2>1 DEF Frozen, Listed, ListConsistent
<1> HIDE DEF file, m
<1>4. ASSUME NEW n \in 1 .. Len(s.nodes)
      PROVE  s.nodes[n].key \in DOMAIN m /\ s.nodes[n].value = m[s.nodes[n].key]
  <2>1. PICK i \in D : s.nodes[n] = NodeOf(f.list[i])
    BY DEF Cursor
  <2>2. s.nodes[n].key = f.list[i].key /\ s.nodes[n].value = f.list[i].value
    BY <2>1, SMT DEF NodeOf
  <2> QED BY <1>2, <2>2
<1>5. ASSUME NEW k \in DOMAIN m
      PROVE  \E n \in 1 .. Len(s.nodes) : s.nodes[n].key = k
  <2>1. PICK i \in D : f.list[i].key = k
    BY <1>3
  <2>2. PICK n \in 1 .. Len(s.nodes) : s.nodes[n] = NodeOf(f.list[i])
    BY DEF Cursor
  <2> QED BY <2>1, <2>2, SMT DEF NodeOf
<1>6. s.nodes \in Seq([key : K, value : V]) /\ Len(s.nodes) = s.container_size
  BY DEF Cursor, Snapshot
<1>7. Written(file, m, K, V)
  BY <1>1, <1>4, <1>5, <1>6 DEF Written
<1> QED BY <1>7 DEF file, m

\* The tables of deserialize(), after 0 to n nodes.
Loading(g, t, nodes, n) ==
    g = [i \in 0 .. n |->
             IF i = 0
             THEN t
             ELSE insertOrReplace(g[i - 1], nodes[i].key, nodes[i].value)]

\* There are such tables, ...
LEMMA LoadingExists ==
    ASSUME NEW t, NEW nodes, NEW n \in Nat
    PROVE  \E g : Loading(g, t, nodes, n)
<1> DEFINE G == {i \in 0 .. n : \E g : Loading(g, t, nodes, i)}
<1>1. 0 \in G
  <2> DEFINE g == [i \in 0 .. 0 |-> t]
  <2>1. g = [i \in 0 .. 0 |->
                 IF i = 0
                 THEN t
                 ELSE insertOrReplace(g[i - 1], nodes[i].key, nodes[i].value)]
    BY SMT
  <2>2. Loading(g, t, nodes, 0)
    BY <2>1, Zenon DEF Loading
  <2>3. 0 \in 0 .. n
    BY SMT
  <2> QED BY <2>2, <2>3
<1>2. ASSUME NEW i \in 0 .. n - 1, i \in G PROVE i + 1 \in G
  <2>1. PICK g : Loading(g, t, nodes, i)
    BY <1>2
  <2> DEFINE next == insertOrReplace(g[i], nodes[i + 1].key, nodes[i + 1].value)
             h == [j \in 0 .. i + 1 |-> IF j = i + 1 THEN next ELSE g[j]]
  <2>2. ASSUME NEW j \in 0 .. i + 1
        PROVE  h[j] = IF j = 0
                      THEN t
                      ELSE insertOrReplace(h[j - 1], nodes[j].key, nodes[j].value)
    <3>1. CASE j = 0
      <4>1. h[j] = g[0] /\ g[0] = t
        BY <2>1, <3>1, SMT DEF Loading
      <4> QED BY <3>1, <4>1
    <3>2. CASE j = i + 1
      <4>1. h[j] = next /\ h[j - 1] = g[i] /\ j # 0
        BY <3>2, SMT
      <4> QED BY <3>2, <4>1
    <3>3. CASE j \in 1 .. i
      <4>1. h[j] = g[j] /\ h[j - 1] = g[j - 1] /\ j # 0 /\ j \in 0 .. i
        BY <3>3, SMT
      <4>2. g[j] = insertOrReplace(g[j - 1], nodes[j].key, nodes[j].value)
        BY <2>1, <4>1 DEF Loading
      <4> QED BY <4>1, <4>2
    <3> QED BY <3>1, <3>2, <3>3, SMT
  <2>3. h = [j \in 0 .. i + 1 |-> h[j]]
    OBVIOUS
  <2> HIDE DEF h
  <2>4. Loading(h, t, nodes, i + 1)
    BY <2>2, <2>3, Zenon DEF Loading
  <2>5. i + 1 \in 0 .. n
    BY SMT
  <2> QED BY <2>4, <2>5
<1> HIDE DEF G
<1>3. \A i \in 0 .. n : i \in G
  BY <1>1, <1>2, UpTo
<1>4. n \in G
  BY <1>3, SMT
<1> QED BY <1>4 DEF G

\* ... and deserialize() ends with the last of them.
LEMMA DeserializeLoads ==
    ASSUME NEW t, NEW file, Len(file.nodes) \in Nat
    PROVE  \E g : /\ Loading(g, t, file.nodes, Len(file.nodes))
                  /\ deserialize(t, file) = g[Len(file.nodes)]
<1> DEFINE N == Len(file.nodes)
           h == CHOOSE g : g = [i \in 0 .. N |->
                                    IF i = 0
                                    THEN t
                                    ELSE insertOrReplace(g[i - 1],
                                                         file.nodes[i].key,
                                                         file.nodes[i].value)]
<1>1. deserialize(t, file) = h[N]
  BY DEF deserialize
<1>2. PICK g : Loading(g, t, file.nodes, N)
  BY LoadingExists
<1>3. Loading(h, t, file.nodes, N)
  BY <1>2, Zenon DEF Loading
<1> HIDE DEF h
<1> QED BY <1>1, <1>3

\* A table that no snapshot is taken of.
Fresh(t) == ~t.snapshot_mode /\ t.snapshot_invalid_iters = <<>>

\* A table read from a file that holds the map m reads as m.
LEMMA DeserializeOK ==
    ASSUME NEW K, NEW V, NEW t, Listed(t, K, V), Fresh(t),
           NEW m, m = [k \in DOMAIN m |-> m[k]], DOMAIN t.map \subseteq DOMAIN m,
           NEW file, Written(file, m, K, V)
    PROVE  /\ Listed(deserialize(t, file), K, V)
           /\ Fresh(deserialize(t, file))
           /\ Reads(deserialize(t, file), m)
<1> DEFINE nodes == file.nodes
           N == Len(nodes)
<1>1. /\ nodes \in Seq([key : K, value : V]) /\ N \in Nat
      /\ \A n \in 1 .. N :
             /\ nodes[n].key \in K /\ nodes[n].value \in V
             /\ nodes[n].key \in DOMAIN m
             /\ nodes[n].value = m[nodes[n].key]
      /\ \A k \in DOMAIN m : \E n \in 1 .. N : nodes[n].key = k
  <2>1. nodes \in Seq([key : K, value : V])
    BY DEF Written
  <2>2. N \in Nat /\ \A n \in 1 .. N : nodes[n] \in [key : K, value : V]
    BY <2>1, SeqElements
  <2> QED BY <2>1, <2>2 DEF Written
<1>2. PICK g : Loading(g, t, nodes, N) /\ deserialize(t, file) = g[N]
  BY <1>1, DeserializeLoads, SMT
<1>3. /\ g[0] = t
      /\ \A n \in 1 .. N :
             g[n] = insertOrReplace(g[n - 1], nodes[n].key, nodes[n].value)
  <2>1. 0 \in 0 .. N /\ \A n \in 1 .. N : n \in 0 .. N /\ n # 0
    BY <1>1, SMT
  <2> QED BY <1>2, <2>1 DEF Loading
<1> HIDE DEF nodes
<1> DEFINE G == {n \in 0 .. N :
                     /\ Listed(g[n], K, V)
                     /\ Fresh(g[n])
                     /\ DOMAIN Contents(g[n]) \subseteq DOMAIN m
                     /\ \A i \in 1 .. n :
                            /\ nodes[i].key \in DOMAIN Contents(g[n])
                            /\ Contents(g[n])[nodes[i].key] = m[nodes[i].key]}
<1>4. 0 \in G
  <2>1. DOMAIN Contents(t) \subseteq DOMAIN m
    BY DEF Contents
  <2> QED BY <1>1, <1>3, <2>1, SMT
<1>5. ASSUME NEW n \in 0 .. N - 1, n \in G PROVE n + 1 \in G
  <2> DEFINE r == g[n]
             u == g[n + 1]
             key == nodes[n + 1].key
             value == nodes[n + 1].value
  <2>1. /\ Listed(r, K, V) /\ Fresh(r)
        /\ DOMAIN Contents(r) \subseteq DOMAIN m
        /\ \A i \in 1 .. n :
               /\ nodes[i].key \in DOMAIN Contents(r)
               /\ Contents(r)[nodes[i].key] = m[nodes[i].key]
    BY <1>5
  <2>2. n + 1 \in 1 .. N /\ n + 1 \in 0 .. N
    BY <1>1, SMT
  <2>3. key \in K /\ value \in V /\ key \in DOMAIN m /\ value = m[key]
    BY <1>1, <2>2
  <2>4. u = insertOrReplace(r, key, value)
    <3>1. (n + 1) - 1 = n
      BY SMT
    <3> QED BY <1>3, <2>2, <3>1
  <2> HIDE DEF G
  <2> HIDE DEF r, u, key, value
  <2>5. CallOK(r, u, K, V, Put(Contents(r), key, value))
    BY <2>1, <2>3, <2>4, InsertOrReplaceOK
  <2>6. Listed(u, K, V) /\ Kept(r, u) /\ Contents(u) = Put(Contents(r), key, value)
    BY <2>5 DEF CallOK, Reads
  <2>7. Fresh(u)
    BY <2>1, <2>6 DEF Fresh, Kept
  <2>8. /\ DOMAIN Contents(u) = DOMAIN Contents(r) \cup {key}
        /\ Contents(u)[key] = value
        /\ \A k \in DOMAIN Contents(r) \ {key} : Contents(u)[k] = Contents(r)[k]
    BY <2>6 DEF Put
  <2>9. DOMAIN Contents(u) \subseteq DOMAIN m
    BY <2>1, <2>3, <2>8
  <2>10. ASSUME NEW i \in 1 .. n + 1
         PROVE  /\ nodes[i].key \in DOMAIN Contents(u)
                /\ Contents(u)[nodes[i].key] = m[nodes[i].key]
    <3>1. CASE nodes[i].key = key
      BY <2>3, <2>8, <3>1
    <3>2. CASE nodes[i].key # key
      <4>1. i \in 1 .. n
        BY <3>2, SMT DEF key
      <4> QED BY <2>1, <2>8, <3>2, <4>1
    <3> QED BY <3>1, <3>2
  <2> QED BY <2>2, <2>6, <2>7, <2>9, <2>10 DEF G, u
<1> HIDE DEF G
<1>6. \A n \in 0 .. N : n \in G
  BY <1>1, <1>4, <1>5, UpTo
<1>7. N \in G
  BY <1>1, <1>6, SMT
<1> DEFINE d == g[N]
<1>8. /\ Listed(d, K, V) /\ Fresh(d)
      /\ DOMAIN Contents(d) \subseteq DOMAIN m
      /\ \A i \in 1 .. N :
             /\ nodes[i].key \in DOMAIN Contents(d)
             /\ Contents(d)[nodes[i].key] = m[nodes[i].key]
  BY <1>7 DEF G
<1> HIDE DEF d
<1>9. /\ DOMAIN Contents(d) = DOMAIN m
      /\ \A k \in DOMAIN m : Contents(d)[k] = m[k]
  <2>1. ASSUME NEW k \in DOMAIN m
        PROVE  k \in DOMAIN Contents(d) /\ Contents(d)[k] = m[k]
    <3>1. PICK i \in 1 .. N : nodes[i].key = k
      BY <1>1
    <3> QED BY <1>8, <3>1
  <2> QED BY <1>8, <2>1
<1>10. Contents(d) = [k \in DOMAIN Contents(d) |-> Contents(d)[k]]
  BY DEF Contents
<1>11. Reads(d, m)
  <2> DEFINE c == Contents(d)
  <2>1. /\ c = [k \in DOMAIN c |-> c[k]] /\ DOMAIN c = DOMAIN m
        /\ \A k \in DOMAIN m : c[k] = m[k]
    BY <1>9, <1>10
  <2> HIDE DEF c
  <2>2. c = m
    BY <2>1
  <2> QED BY <2>2 DEF Reads, c
<1> QED BY <1>2, <1>8, <1>11 DEF d

=============================================================================
