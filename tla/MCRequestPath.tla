--------------------------- MODULE MCRequestPath ---------------------------
(***************************************************************************)
(* Constants for model-checking RequestPath: an admin of each role, and a  *)
(* route behind each kind of middleware, proxy and handler.                *)
(***************************************************************************)
EXTENDS RequestPath, TLC

CONSTANTS a1, a2, a3

MCAdmin == {a1, a2, a3}
MCRoleOf == a1 :> "super_admin" @@ a2 :> "maintainer" @@ a3 :> "reporter"
MCRoutes == {"updateStock", "deleteProduct", "uploadProductImage",
             "toggleAdminStatus", "getDashboardStats", "addToCart"}

\* With integers of 3 bits: adjustments that fit, and one that arrives as -2.
MCDelta == {-1, 2, 6}

=============================================================================
