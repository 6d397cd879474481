SPECIFICATION MCSpec
CONSTANTS
  None = None
  cement = cement
  sand = sand
  Material = {cement, sand}
  OrderId = {o1, o2}
  SaleId = {s1}
  Opening <- OneEach
  Quantity = {1, 2}
  Capacity = 6
  Request = {q1, q2}
CONSTRAINT Scope
SYMMETRY Symmetry
INVARIANTS
  TypeOK
  StockNonNegative
  ReceivedOnce
  BooksMatch
  StockMatchesAlone
  BalancesMatchAlone
CHECK_DEADLOCK FALSE
