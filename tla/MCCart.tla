------------------------------- MODULE MCCart -------------------------------
(***************************************************************************)
(* Symmetry sets for model-checking Cart.                                  *)
(***************************************************************************)
EXTENDS Cart, TLC

Symmetry == Permutations(Product) \cup Permutations(Request)
=============================================================================
