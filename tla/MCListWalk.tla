----------------------------- MODULE MCListWalk -----------------------------
(***************************************************************************)
(* Constants and symmetry sets for model-checking ListWalk.                *)
(***************************************************************************)
EXTENDS ListWalk, TLC

Symmetry == Permutations(Product)
=============================================================================
