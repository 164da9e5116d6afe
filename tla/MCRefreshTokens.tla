--------------------------- MODULE MCRefreshTokens ---------------------------
(***************************************************************************)
(* Constants and symmetry sets for model-checking RefreshTokens.           *)
(***************************************************************************)
EXTENDS RefreshTokens, TLC

MCOps == {"login", "refresh", "logout"}
MCFaults == {"expire", "lapse", "fail", "lose", "toggle", "delete"}

Symmetry == Permutations(Device) \cup Permutations(Request)
=============================================================================
