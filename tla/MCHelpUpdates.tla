--------------------------- MODULE MCHelpUpdates ---------------------------
(* Model-checking instance of HelpUpdates. *)
EXTENDS HelpUpdates

=============================================================================
