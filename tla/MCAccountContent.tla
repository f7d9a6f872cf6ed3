-------------------------- MODULE MCAccountContent --------------------------
(* Model-checking instance of AccountContent. *)
EXTENDS AccountContent, TLC

CONSTANTS a1, a2, r1, r2, r3, r4, u1, f1, f2, k1

Symmetry == Permutations(Settled) \cup Permutations(Requests \ Settled) \cup Permutations(Files)
=============================================================================
