\* One browser with three tabs, every fault.
CONSTANTS
  Device = {d1}
  Request = {r1, r2, r3}
  Ops <- MCOps
  Faults <- MCFaults
  MaxToken = 4
  Nil = Nil
SPECIFICATION Spec
INVARIANTS CookieAccounted InactiveGetsNothing
PROPERTY EndedStaysEnded
SYMMETRY Symmetry
