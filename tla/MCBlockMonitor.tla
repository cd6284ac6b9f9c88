--------------------------- MODULE MCBlockMonitor ---------------------------
(* Model-checking instance of BlockMonitor. *)
EXTENDS BlockMonitor
=============================================================================
