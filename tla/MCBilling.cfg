SPECIFICATION FairSpec
CONSTANTS
  Company = {hodan}
  Caller = {q1}
  Cron = Cron
  Term = {1}
  Amount = {0, 1}
  ExpiryDays = 1
  Window = 1
  MaxNow = 3
  MaxInvoice = 2
INVARIANTS
  BillingTypeOK
  PeriodPaid
PROPERTIES
  AccessIsPaidFor
  LapsedReconciled
  SettledOnce
CHECK_DEADLOCK FALSE
