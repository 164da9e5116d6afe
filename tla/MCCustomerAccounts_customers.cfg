\* Two requests that register and log in, one of two identities with two
\* e-mails, and three accounts.
CONSTANTS
  e1 = e1
  e2 = e2
  g1 = g1
  g2 = g2
  Customer = {c1, c2, c3}
  Email <- MCEmail
  Identity <- MCIdentity
  Presents <- MCPresents
  Request = {r1, r2}
  Failures = TRUE
  Nil = Nil
SPECIFICATION CustomerSpec
INVARIANTS OneAccountPerEmail IdentityAccounted
PROPERTY SameAccountAgain
SYMMETRY Symmetry
