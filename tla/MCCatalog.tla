----------------------------- MODULE MCCatalog -----------------------------
(***************************************************************************)
(* Constants and symmetry sets for model-checking Catalog.  Each cfg picks *)
(* the RPCs in flight (Ops) and what updates may carry (MoveTo).           *)
(***************************************************************************)
EXTENDS Catalog, TLC

\* Adjustments that can go below zero, past the column and back.
MCDelta == {-1, 1}
MCSale == {-1}

\* Updates that never carry category_id, and updates that may.
MCStay == {Nil}
MCMove == Category \cup {Nil}

MCProductOps == {"getProduct", "createProduct", "updateProduct",
                 "deleteProduct", "uploadProductImage", "updateStock",
                 "deleteCategory"}
MCListOps == {"listProducts", "createProduct", "updateProduct",
              "deleteProduct"}
MCLiveOps == {"getProduct", "listProducts", "updateStock"}

Symmetry == Permutations(Product) \cup Permutations(Request)
            \cup Permutations(Content)
SymmetryCategories == Symmetry \cup Permutations(Category)
=============================================================================
