\* Pages of two, a walk across an edge or two, one other client.
CONSTANTS
  Product = {p1, p2, p3}
  Second = {1, 2, 3}
  Limit = 2
  MaxLimit = 3
  DefaultLimit = 1
  MaxWriter = 1
  NoPage = NoPage
SPECIFICATION WalkSpec
PROPERTIES WalkMissesNone WalkRepeatsNone
SYMMETRY Symmetry
