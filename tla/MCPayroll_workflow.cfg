SPECIFICATION MCSpec
CONSTANTS
  owner = owner
  manager = manager
  None = None
  RunId = {r1, r2}
  Period = {may, june}
  Sheet <- SmallLarge
  User = {owner, manager}
  Limit <- Limits
  MaxGen = 2
  Request = {q1, q2}
CONSTRAINT Drafting
SYMMETRY Symmetry
INVARIANTS
  OneRunPerPeriod
  ApprovalCoversTotalAlone
PROPERTY
  PaidStaysAlone
CHECK_DEADLOCK FALSE
