\* One product, two requests: every writer of a row against one another and
\* against readers of its detail, with failures and crashes.
CONSTANTS
  Product = {p1}
  Category = {c1}
  All = All
  Request = {r1, r2}
  Content = {x1, x2}
  Delta <- MCDelta
  MaxStock = 1
  MoveTo <- MCStay
  Ops <- MCProductOps
  Failures = TRUE
  Nil = Nil
SPECIFICATION Spec
INVARIANTS TypeOK DetailAccounted LedgerBalanced NoDanglingCategory
PROPERTY DeletedStaysDeleted
SYMMETRY Symmetry
\* Once its only category is deleted no product can be created.
CHECK_DEADLOCK FALSE
