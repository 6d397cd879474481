SPECIFICATION MCSpec
CONSTANTS
  Property = {p1, p2}
  PropertyLimit = 2
  Client = {k1}
  MaxLease = 2
  MaxDeal = 2
  Form <- Forms
  Request = {q1, q2}
CONSTRAINT Scope
SYMMETRY Symmetry
INVARIANTS
  TypeOK
  StatusMatchesAlone
PROPERTIES
  ClaimExclusive
CHECK_DEADLOCK FALSE
