------------------------- MODULE MCSessionRotation -------------------------
(* Model-checking instance of SessionRotation. *)
EXTENDS SessionRotation

=============================================================================
