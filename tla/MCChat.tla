------------------------------- MODULE MCChat -------------------------------
(* Chat between two people. *)
EXTENDS Chat, TLC

\* The people are not symmetric: Init chooses one for the unused submissions.
Symmetry == Permutations(Send) \cup Permutations(Text)
=============================================================================
