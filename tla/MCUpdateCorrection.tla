------------------------- MODULE MCUpdateCorrection -------------------------
(* Model-checking instance of UpdateCorrection. *)
EXTENDS UpdateCorrection, TLC

Symmetry == Permutations(Requests) \cup Permutations(Updates)
=============================================================================
