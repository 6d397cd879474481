SPECIFICATION MCSpec
CONSTANTS
  cash = cash
  revenue = revenue
  supplies = supplies
  None = None
  Account = {cash, revenue, supplies}
  SystemAccount = {cash, revenue}
  Form <- LooseStrict
  Edit <- CreditOnly
  Source = {"order"}
  OtherSource = {"MANUAL"}
  Draft <- AllDrafts
  Together <- PaidAndDue
  PeriodId = {p1}
  MaxDay = 2
  BatchId = {b1, b2, b3, b4}
  Request = {q1, q2}
CONSTRAINT Scope
SYMMETRY Symmetry
INVARIANTS
  TypeOK
  EntriesBalanced
  ReversalLinks
  ReversalCancelsAlone
PROPERTIES
  AuditTrail
  ImplementsLedger
  PostsAboveZeroAlone
