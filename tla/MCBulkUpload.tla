---------------------------- MODULE MCBulkUpload ----------------------------
(***************************************************************************)
(* Constants and symmetry sets for model-checking BulkUpload.              *)
(***************************************************************************)
EXTENDS BulkUpload, TLC

\* A line whose numbers are as large as the columns hold.
Good(s, n) == [name |-> TRUE, price |-> 10 * MaxPrice + 4, stock |-> MaxStock,
               slug |-> s, images |-> n]

\* Refused by the parser: without a name, slug or number, or with one too small.
Malformed(s) ==
  <<[Good(s, 0) EXCEPT !.name = FALSE], [Good(s, 0) EXCEPT !.slug = Nil],
    [Good(s, 0) EXCEPT !.price = Nil], [Good(s, 0) EXCEPT !.price = 0],
    [Good(s, 0) EXCEPT !.stock = Nil], [Good(s, 0) EXCEPT !.stock = -1]>>

\* Refused by the table.
TooLarge(s) == <<[Good(s, 0) EXCEPT !.price = @ + 1],
                 [Good(s, 1) EXCEPT !.stock = @ + 1]>>

\* A price the parser finds positive and rounds to nothing.
Rounded(s) == [Good(s, 0) EXCEPT !.price = 4, !.stock = 0]

\* Two lines of different categories; one after two of its category that the
\* table refuses; and lines the parser refuses.  With and without images.
MCFile ==
  {<<Good(f[1], 1), Rounded(f[2])>> : f \in {g \in [1..2 -> Slug] : g[1] # g[2]}}
  \cup {TooLarge(s) \o <<Good(s, 1)>> : s \in Slug}
  \cup {Malformed(s) : s \in Slug}

Symmetry == Permutations(Category) \cup Permutations(Name)
            \cup Permutations(Slug)
=============================================================================
