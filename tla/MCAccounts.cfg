SPECIFICATION MCSpec
CONSTANTS
  None = None
  Staff = {s1, s2}
  AccountId = {u1, u2}
  Email = {e1, e2}
  Request = {q1, q2}
SYMMETRY Symmetry
INVARIANTS
  TypeOK
  AccountsBelong
  AccessIsHeldAlone
  FailuresUndoneAlone
CHECK_DEADLOCK FALSE
