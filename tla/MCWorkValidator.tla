--------------------------- MODULE MCWorkValidator ---------------------------
(* Model-checking instance of WorkValidator: miners and items of work are    *)
(* interchangeable.                                                          *)
EXTENDS WorkValidator

RootUserSymmetry == Permutations(Root) \union Permutations(User)
=============================================================================
