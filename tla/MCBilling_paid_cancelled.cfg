SPECIFICATION BillingSpec
CONSTANTS
  Company = {hodan}
  Caller = {q1}
  Cron = Cron
  Term = {2}
  Amount = {1}
  ExpiryDays = 1
  Window = 1
  MaxNow = 4
  MaxInvoice = 2
INVARIANT
  PaidNotCancelled
