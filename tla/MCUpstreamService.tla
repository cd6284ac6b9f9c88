------------------------- MODULE MCUpstreamService -------------------------
(* Model-checking instance of UpstreamService. *)
EXTENDS UpstreamService
=============================================================================
