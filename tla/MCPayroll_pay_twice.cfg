SPECIFICATION MCSpec
CONSTANTS
  owner = owner
  manager = manager
  None = None
  RunId = {r1}
  Period = {may}
  Sheet <- SmallOnly
  User = {owner}
  Limit <- OwnerOnly
  MaxGen = 2
  Request = {q1, q2}
SYMMETRY Symmetry
INVARIANT
  PaidOnce
CHECK_DEADLOCK FALSE
