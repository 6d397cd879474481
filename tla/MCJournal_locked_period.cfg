SPECIFICATION MCSpec
CONSTANTS
  cash = cash
  revenue = revenue
  supplies = supplies
  None = None
  Account = {cash, revenue}
  SystemAccount = {cash, revenue}
  Form <- LooseOnly
  Edit <- NoForm
  Source = {}
  OtherSource = {"MANUAL"}
  Draft <- SaleOnly
  Together <- NoHooks
  PeriodId = {p1}
  MaxDay = 2
  BatchId = {b1, b2}
  Request = {q1}
SYMMETRY Symmetry
PROPERTY
  LockedPeriodClosed
