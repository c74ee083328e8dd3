--------------------------- MODULE AtomicSnapshot ---------------------------
(***************************************************************************)
(* What a snapshot of a map promises, without threads, versions or lists:  *)
(* the map changes, and a snapshot is a copy of the whole map made in one  *)
(* step and saved later, whatever happened to the map meanwhile.           *)
(***************************************************************************)
CONSTANTS Map,    \* all values of the map
          None    \* no snapshot is being made

VARIABLES contents,   \* the map
          pending,    \* the copy being saved, or None
          saved       \* the last copy saved, or None

vars == <<contents, pending, saved>>

Init ==
    /\ contents \in Map
    /\ pending = None
    /\ saved = None

Change ==
    /\ contents' \in Map
    /\ UNCHANGED <<pending, saved>>

Copy ==
    /\ pending = None
    /\ pending' = contents
    /\ UNCHANGED <<contents, saved>>

Save ==
    /\ pending # None
    /\ saved' = pending
    /\ pending' = None
    /\ UNCHANGED contents

Next == Change \/ Copy \/ Save

Spec == Init /\ [][Next]_vars
=============================================================================
