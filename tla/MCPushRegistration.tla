------------------------- MODULE MCPushRegistration -------------------------
(* Model-checking instance of PushRegistration. *)
EXTENDS PushRegistration, TLC

CONSTANTS d1, d2, t1, t2, m1, p1, p2

Symmetry == Permutations(Puts) \cup Permutations(Rows) \cup Permutations(Tokens)
=============================================================================
