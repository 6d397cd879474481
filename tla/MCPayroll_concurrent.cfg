SPECIFICATION MCSpec
CONSTANTS
  owner = owner
  manager = manager
  None = None
  RunId = {r1}
  Period = {may}
  Sheet <- AllSheets
  User = {owner, manager}
  Limit <- Limits
  MaxGen = 1
  Request = {q1, q2}
SYMMETRY Symmetry
INVARIANTS
  TypeOK
  CashbookMatchesLedger
PROPERTIES
  PaymentMatchesRun
  ApproverMayApprove
CHECK_DEADLOCK FALSE
