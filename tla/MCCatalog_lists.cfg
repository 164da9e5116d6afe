\* Two categories, rows that move between them, readers of the lists, and
\* categories deleted meanwhile.
CONSTANTS
  Product = {p1}
  Category = {c1, c2}
  All = All
  Request = {r1, r2}
  Content = {x1}
  Delta <- MCDelta
  MaxStock = 0
  MoveTo <- MCMove
  Ops <- MCListOps
  Failures = FALSE
  Nil = Nil
SPECIFICATION Spec
INVARIANTS AllListAccounted CategoryListAccounted
SYMMETRY SymmetryCategories
\* Once every category is deleted no product can be created.
CHECK_DEADLOCK FALSE
