SPECIFICATION Spec
CONSTANTS
  None = None
  Contract = {c1}
  Material = {m1}
  Request = {q1, q2}
  Amount = {1}
  Delta <- Deltas
  MaxVersion = 4
CONSTRAINT Apart
SYMMETRY Symmetry
INVARIANTS
  TypeOK
  WithinBudget
  StockFollows
CHECK_DEADLOCK FALSE
