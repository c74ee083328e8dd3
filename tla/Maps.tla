-------------------------------- MODULE Maps --------------------------------
(***************************************************************************)
(* Updates of partial functions: what insertion into and erasure from a    *)
(* std::map or std::unordered_map do to the mapping it holds.              *)
(***************************************************************************)

\* f with f[x] = v, whether or not x was a key.
Put(f, x, v) == [y \in DOMAIN f \cup {x} |-> IF y = x THEN v ELSE f[y]]

\* f without the key x.
Drop(f, x) == [y \in DOMAIN f \ {x} |-> f[y]]

\* f[x], or d when x is not a key.
Get(f, x, d) == IF x \in DOMAIN f THEN f[x] ELSE d
=============================================================================
