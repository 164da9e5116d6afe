--------------------------- MODULE MCProductImages ---------------------------
(***************************************************************************)
(* Symmetry sets for model-checking ProductImages.                         *)
(***************************************************************************)
EXTENDS ProductImages, TLC

Symmetry == Permutations(Ext) \cup Permutations(Request)
=============================================================================
