--------------------------- MODULE MCAdminAccounts ---------------------------
(***************************************************************************)
(* Symmetry sets for model-checking AdminAccounts.                         *)
(***************************************************************************)
EXTENDS AdminAccounts, TLC

Symmetry == Permutations(Admin) \cup Permutations(Request)
=============================================================================
