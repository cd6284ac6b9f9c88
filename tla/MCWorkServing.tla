--------------------------- MODULE MCWorkServing ---------------------------
(* Model-checking instance of WorkServing.  A block can leave two late calls *)
(* to a cache of two places, and their answers take the counter, of eight    *)
(* values, below zero.                                                       *)
EXTENDS WorkServing
=============================================================================
