\* Two requests on every kind of route, each tier failing at every step.
CONSTANTS
  Request = {r1, r2}
  a1 = a1
  a2 = a2
  a3 = a3
  Admin <- MCAdmin
  RoleOf <- MCRoleOf
  Routes <- MCRoutes
  Delta <- MCDelta
  MaxInt = 3
  InitialStock = 2
  Nobody = Nobody
  Shopper = Shopper
  Nil = Nil
SPECIFICATION Spec
INVARIANTS TypeOK CarriedOutIfGranted RefusedIfNotGranted AttributedToSender AdjustedAsTold
PROPERTIES PromiseKept AllAnswered
\* Every request is sent once: when all are answered nothing is left to do.
CHECK_DEADLOCK FALSE
