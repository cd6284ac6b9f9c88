----------------------------- MODULE MCPoolDance -----------------------------
(* Model-checking instances of PoolDance: one connection, over which miners  *)
(* come back as often as they like, so that two results of one item are      *)
(* under way at once; and one result over three blocks, after which its item *)
(* may be forgotten.  Miners are interchangeable.                            *)
EXTENDS PoolDance

UserSymmetry == Permutations(User)
=============================================================================
