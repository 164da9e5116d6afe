\* Three overlapping uploads of three types, with failures.
CONSTANTS
  Ext = {jpg, png, webp}
  Request = {r1, r2, r3}
  Nil = Nil
SPECIFICATION Spec
INVARIANTS UrlAccounted OrphanAccounted
SYMMETRY Symmetry
