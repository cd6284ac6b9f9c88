--------------------------- MODULE MCRoundManager ---------------------------
(* Model-checking instance of RoundManager. *)
EXTENDS RoundManager
=============================================================================
