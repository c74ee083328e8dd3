------------------------ MODULE MCSessionExpiryQueue ------------------------
(***************************************************************************)
(* Instance of SessionExpiryQueue for TLC: three interchangeable sessions. *)
(***************************************************************************)
EXTENDS SessionExpiryQueue, TLC

Symmetry == Permutations(Session)
=============================================================================
