SPECIFICATION MCSpec
CONSTANTS
  Contract = {c1}
  MonthlyRent <- Rents
  Month = {m1, m2}
  Form <- Forms
  Postings <- BothOrNone
  PaymentId = {i1, i2}
  Request = {q1, q2}
SYMMETRY Symmetry
INVARIANTS
  TypeOK
  InvoicedOnce
  BooksFollow
  SettledAlone
CHECK_DEADLOCK FALSE
