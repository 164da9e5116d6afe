\* Three overlapping requests on one item.
CONSTANTS
  Product = {p1}
  Request = {r1, r2, r3}
  Quantity = {1, 2}
  MaxQuantity = 2
  Failures = TRUE
  Nil = Nil
SPECIFICATION Spec
INVARIANT CartAccounted
PROPERTIES AnswerShowsWrite RemovedStaysRemoved
SYMMETRY Symmetry
