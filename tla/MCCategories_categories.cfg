\* Two requests that create, rename, delete and list up to two categories.
CONSTANTS
  Category = {c1, c2}
  Name = {n1, n2}
  Slug = {s1, s2}
  Request = {r1, r2}
  Failures = TRUE
  Nil = Nil
SPECIFICATION CategorySpec
INVARIANTS CategoryTypeOK SlugsUnique AllAccounted TrailTruthful
SYMMETRY Symmetry
