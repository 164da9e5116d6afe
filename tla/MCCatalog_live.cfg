\* Readers against one writer, under fairness: the TTLs repair every race.
CONSTANTS
  Product = {p1}
  Category = {c1}
  All = All
  Request = {r1, r2}
  Content = {x1}
  Delta <- MCSale
  MaxStock = 2
  MoveTo <- MCStay
  Ops <- MCLiveOps
  Failures = TRUE
  Nil = Nil
SPECIFICATION FairSpec
PROPERTY EventuallyCoherent

