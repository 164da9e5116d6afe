---------------------------- MODULE MCCategories ----------------------------
(***************************************************************************)
(* Constants and symmetry sets for model-checking Categories.              *)
(***************************************************************************)
EXTENDS Categories, TLC

Symmetry == Permutations(Category) \cup Permutations(Name)
            \cup Permutations(Slug) \cup Permutations(Request)
=============================================================================
