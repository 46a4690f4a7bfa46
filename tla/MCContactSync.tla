--------------------------- MODULE MCContactSync ---------------------------
(* ContactSync on two friends. *)
EXTENDS ContactSync, TLC

Symmetry == Permutations(Friend) \cup Permutations(Request)
=============================================================================
