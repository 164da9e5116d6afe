------------------------- MODULE MCCustomerAccounts -------------------------
(***************************************************************************)
(* Constants and symmetry sets for model-checking CustomerAccounts.        *)
(***************************************************************************)
EXTENDS CustomerAccounts, TLC

CONSTANTS e1, e2, g1, g2

MCEmail == {e1, e2}
MCIdentity == {g1, g2}

\* One identity whose e-mail was changed, one that has kept the older of them and
\* may leave it out.
MCPresents == (g1 :> {e1, e2}) @@ (g2 :> {e1, Nil})

Symmetry == Permutations(Customer) \cup Permutations(Request)
=============================================================================
