\* Two accounts that manage each other, two requests at a time.
CONSTANTS
  Admin = {a1, a2}
  Role = {"super_admin", "maintainer"}
  Request = {r1, r2}
  Failures = TRUE
  Nil = Nil
SPECIFICATION Spec
INVARIANTS LockoutAccounted AuthorsExist BeforeAccounted
SYMMETRY Symmetry
\* Two super admins may delete each other, and nobody is left to act.
CHECK_DEADLOCK FALSE
