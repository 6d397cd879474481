------------------------------ MODULE Billing ------------------------------
(***************************************************************************)
(* Subscriptions and invoices of the companies of the platform:            *)
(* backend/src/common/subscriptions/subscription-lifecycle.service.ts, the *)
(* subscription handlers of backend/src/modules/superadmin and the nightly *)
(* and hourly jobs of backend/src/modules/cron.                            *)
(*                                                                         *)
(* A handler reads a company or an invoice outside of its transaction and  *)
(* commits later, by id alone: two steps, unless the commit asks again for *)
(* all that the read asked for.  Time is counted in days.  The nightly job *)
(* visits the companies it found one by one and ends at the first one that *)
(* fails; a day lasts until the job has ended.  What the hourly job does   *)
(* to an invoice or a company is a step of its own, taken at any time.     *)
(*                                                                         *)
(* OPEN stands for UNPAID and OVERDUE, which no handler tells apart; the   *)
(* due date is left out with them.  TenantSubscription rows are left out:  *)
(* only assignSubscription creates one, and nothing calls it.  So is the   *)
(* suspension of a tenant (updateCompanyStatus).  The database answers.    *)
(*                                                                         *)
(* A request is a call here, and the parts of the specification are named  *)
(* after it: Access_proofs extends this module and Accounts.               *)
(***************************************************************************)
EXTENDS Integers, Sequences

CONSTANTS
  Company,
  Caller,      \* bound: the requests in flight at one time
  Cron,        \* the process of the nightly job
  Term,        \* the terms, in days, a subscription may be configured with
  Amount,      \* the prices it may have
  ExpiryDays,  \* INVOICE_EXPIRY_DAYS
  Window,      \* days ahead the nightly job looks
  MaxNow,      \* bound: the last day
  MaxInvoice   \* bound: the invoices that are created

ASSUME BillingConstantsOK ==
  /\ Cron \notin Caller
  /\ Term \subseteq Nat \ {0} /\ Amount \subseteq Nat
  /\ ExpiryDays \in Nat \ {0} /\ Window \in Nat /\ MaxNow \in Nat /\ MaxInvoice \in Nat

VARIABLES
  now,      \* the day
  company,  \* companies: the columns about the subscription
  invoice,  \* invoices, in the order of their creation
  call,      \* what each process read before its commit
  job       \* the nightly job: its phase, and the companies it has not visited

billingVars == <<now, company, invoice, call, job>>

Process == Caller \cup {Cron}

SubscriptionStatus == {"PENDING", "ACTIVE", "SUSPENDED", "EXPIRED", "CANCELLED"}
InvoiceStatus == {"OPEN", "PAID", "CANCELLED", "EXPIRED"}
Kind == {"INITIAL", "RENEWAL"}

\* expires 0: no period yet.
CompanyRow ==
  [status : SubscriptionStatus, access : BOOLEAN, expires : Nat, term : Nat, amount : Nat,
   auto : BOOLEAN]

\* key: the day in the idempotency key; 0 for a key with a moment of its own.
\* paid (history): the invoice was paid at some time.
InvoiceRow ==
  [company : Company, kind : Kind, status : InvoiceStatus, amount : Nat, expires : Nat,
   end : Nat, key : Nat, paid : BOOLEAN]

NoCall == [op |-> "idle"]
CallRow ==
  {NoCall}
    \cup [op : {"pay"}, id : Nat \ {0}]
    \cup [op : {"extend"}, id : Nat \ {0}, later : BOOLEAN, seen : InvoiceStatus]
    \cup [op : {"configure"}, company : Company, hadAccess : BOOLEAN, at : Nat,
          term : Nat, amount : Nat, auto : BOOLEAN]
    \cup [op : {"suspend", "cancel", "resume"}, company : Company]
    \cup [op : {"renew"}, company : Company, row : InvoiceRow]

JobState == [phase : {"due", "running", "done"}, todo : SUBSET Company]

BillingTypeOK ==
  /\ now \in Nat
  /\ company \in [Company -> CompanyRow]
  /\ invoice \in Seq(InvoiceRow)
  /\ call \in [Process -> CallRow]
  /\ job \in JobState

BillingInit ==
  /\ now = 1
  /\ company = [c \in Company |-> [status |-> "PENDING", access |-> FALSE, expires |-> 0,
                                   term |-> 0, amount |-> 0, auto |-> FALSE]]
  /\ invoice = <<>>
  /\ call = [p \in Process |-> NoCall]
  /\ job = [phase |-> "due", todo |-> {}]

StartCall(p, r) == call[p] = NoCall /\ call' = [call EXCEPT ![p] = r]
EndCall(p) == call' = [call EXCEPT ![p] = NoCall]

Open(i) == i \in DOMAIN invoice /\ invoice[i].status = "OPEN"

\* hasSubscriptionAccess
HasAccess(c) == company[c].status = "ACTIVE" /\ company[c].access /\ company[c].expires > now

Active(row) == [row EXCEPT !.status = "ACTIVE", !.access = TRUE]

-----------------------------------------------------------------------------
(* Payments.                                                               *)

PayRead(q, i) ==
  /\ Open(i) /\ invoice[i].expires > now
  /\ StartCall(q, [op |-> "pay", id |-> i])
  /\ UNCHANGED <<now, company, invoice, job>>

\* Faulty variant: the period is added to the one the company has.
FaultyRenewed(row, inv) ==
  [Active(row) EXCEPT !.amount = inv.amount, !.expires = @ + row.term]

\* The company gets the price and the period of the invoice, whatever it has now.
Renewed(row, inv) == [Active(row) EXCEPT !.amount = inv.amount, !.expires = inv.end]

\* Faulty variant: the payment does not ask again whether the invoice is open.
FaultyPayCommit(p) ==
  LET i == call[p].id
      c == invoice[i].company
  IN
  /\ call[p].op = "pay"
  /\ invoice' = [invoice EXCEPT ![i].status = "PAID", ![i].paid = TRUE]
  /\ company' = [company EXCEPT ![c] = Renewed(company[c], invoice[i])]
  /\ EndCall(p)
  /\ UNCHANGED <<now, job>>

\* markDirectInvoicePaid claims the invoice if it is still open.
PayCommit(p) ==
  LET i == call[p].id
      c == invoice[i].company
  IN
  /\ call[p].op = "pay" /\ Open(i)
  /\ invoice' = [invoice EXCEPT ![i].status = "PAID", ![i].paid = TRUE]
  /\ company' = [company EXCEPT ![c] = Renewed(company[c], invoice[i])]
  /\ EndCall(p)
  /\ UNCHANGED <<now, job>>

-----------------------------------------------------------------------------
(* Renewal invoices.                                                       *)

OpenRenewal(c) ==
  \E i \in DOMAIN invoice : invoice[i].company = c /\ invoice[i].kind = "RENEWAL" /\ Open(i)

\* The next period starts where the present one ends, or now.
RenewalOf(c) ==
  LET row   == company[c]
      start == IF row.expires > now THEN row.expires ELSE now
  IN [company |-> c, kind |-> "RENEWAL", status |-> "OPEN", amount |-> row.amount,
      expires |-> start + ExpiryDays, end |-> start + row.term,
      key |-> IF row.expires > now THEN row.expires ELSE 0, paid |-> FALSE]

Renewable(c) == company[c].status \in {"ACTIVE", "EXPIRED"} /\ company[c].term > 0

\* createDirectRenewalInvoice looks for an open invoice first, and creates one later.
RenewRead(p, c) ==
  /\ Renewable(c) /\ ~OpenRenewal(c)
  /\ StartCall(p, [op |-> "renew", company |-> c, row |-> RenewalOf(c)])

\* The idempotency key is unique in the table, whatever became of the other invoice.
KeyTaken(row) ==
  row.key # 0 /\ \E i \in DOMAIN invoice : invoice[i].company = row.company
                                           /\ invoice[i].key = row.key

\* A renewal that costs nothing is paid at once.
RenewCommit(p) ==
  LET row == call[p].row IN
  /\ call[p].op = "renew" /\ ~KeyTaken(row)
  /\ Len(invoice) < MaxInvoice
  /\ invoice' = Append(invoice, row)
  /\ call' = [call EXCEPT ![p] = IF row.amount = 0 THEN [op |-> "pay", id |-> Len(invoice) + 1]
                                                 ELSE NoCall]
  /\ UNCHANGED <<now, company, job>>

-----------------------------------------------------------------------------
(* Handlers of the platform administrator.                                 *)

ConfigureRead(q, c, term, amount, auto) ==
  /\ StartCall(q, [op |-> "configure", company |-> c, hadAccess |-> HasAccess(c), at |-> now,
               term |-> term, amount |-> amount, auto |-> auto])
  /\ UNCHANGED <<now, company, invoice, job>>

\* A company that had access gets new terms for later; another one a period that is paid.
ConfigureCommit(q) ==
  LET r     == call[q]
      terms == [company[r.company] EXCEPT !.term = r.term, !.amount = r.amount, !.auto = r.auto]
      end   == r.at + r.term
  IN
  /\ r.op = "configure"
  /\ \/ /\ r.hadAccess
        /\ company' = [company EXCEPT ![r.company] = terms]
        /\ UNCHANGED invoice
     \/ /\ ~r.hadAccess
        /\ Len(invoice) < MaxInvoice
        /\ company' = [company EXCEPT ![r.company] = [Active(terms) EXCEPT !.expires = end]]
        /\ invoice' = Append(invoice, [company |-> r.company, kind |-> "INITIAL",
             status |-> "PAID", amount |-> r.amount, expires |-> end, end |-> end,
             key |-> 0, paid |-> TRUE])
  /\ EndCall(q)
  /\ UNCHANGED <<now, job>>

\* Faulty variant: a status the schema does not have.
FaultyBecomes(op) ==
  CASE op = "suspend" -> "SUSPENDED" [] op = "cancel" -> "CANCELED" [] op = "resume" -> "ACTIVE"

Becomes(op) ==
  CASE op = "suspend" -> "SUSPENDED" [] op = "cancel" -> "CANCELLED" [] op = "resume" -> "ACTIVE"

\* Faulty variant: what is not running is resumed.
FaultyMayChange(c, op) ==
  IF op = "resume" THEN company[c].status # "ACTIVE" /\ company[c].expires > now
  ELSE company[c].status \in {"ACTIVE", "SUSPENDED"} \ {Becomes(op)}

MayChange(c, op) ==
  IF op = "resume" THEN company[c].status = "SUSPENDED" /\ company[c].expires > now
  ELSE company[c].status \in {"ACTIVE", "SUSPENDED"} \ {Becomes(op)}

StatusRead(q, c, op) ==
  /\ MayChange(c, op)
  /\ StartCall(q, [op |-> op, company |-> c])
  /\ UNCHANGED <<now, company, invoice, job>>

\* The status is written over whatever the company has become since.
StatusCommit(q) ==
  LET r == call[q] IN
  /\ r.op \in {"suspend", "cancel", "resume"}
  /\ company' = [company EXCEPT ![r.company].status = Becomes(r.op),
                                ![r.company].access = (r.op = "resume"),
                                ![r.company].auto = (r.op # "cancel" /\ @)]
  /\ EndCall(q)
  /\ UNCHANGED <<now, invoice, job>>

SetAutoRenew(c, auto) ==
  /\ company' = [company EXCEPT ![c].auto = auto]
  /\ UNCHANGED <<now, invoice, call, job>>

\* The claim asks for an open invoice, so what was read before it adds nothing.
CancelInvoice(i) ==
  /\ Open(i)
  /\ invoice' = [invoice EXCEPT ![i].status = "CANCELLED"]
  /\ UNCHANGED <<now, company, call, job>>

ExtendRead(q, i, later) ==
  /\ i \in DOMAIN invoice
  /\ StartCall(q, [op |-> "extend", id |-> i, later |-> later, seen |-> invoice[i].status])
  /\ UNCHANGED <<now, company, invoice, job>>

\* A due date in the future makes any invoice payable; another one keeps the status read.
ExtendCommit(q) ==
  LET r == call[q] IN
  /\ r.op = "extend"
  /\ invoice' = [invoice EXCEPT ![r.id].status = IF r.later THEN "OPEN" ELSE r.seen]
  /\ EndCall(q)
  /\ UNCHANGED <<now, company, job>>

\* A request that fails: a claim or a unique key refuses it.
FailCall(q) ==
  /\ call[q] # NoCall
  /\ EndCall(q)
  /\ UNCHANGED <<now, company, invoice, job>>

-----------------------------------------------------------------------------
(* Jobs.                                                                   *)

Overdue(i) == Open(i) /\ invoice[i].expires <= now

\* Of the hourly job, and of a payment that comes too late.
ExpireInvoice(i) ==
  /\ Overdue(i)
  /\ invoice' = [invoice EXCEPT ![i].status = "EXPIRED"]
  /\ UNCHANGED <<now, company, call, job>>

\* Faulty variant: a suspended company is not looked at.
FaultyLapsed(c) == company[c].status = "ACTIVE" /\ company[c].expires <= now

Lapsed(c) == company[c].status \in {"ACTIVE", "SUSPENDED"} /\ company[c].expires <= now

ExpireCompany(c) ==
  /\ Lapsed(c)
  /\ company' = [company EXCEPT ![c].status = "EXPIRED", ![c].access = FALSE]
  /\ UNCHANGED <<now, invoice, call, job>>

\* What generateUpcomingRenewalInvoices looks for.
Eligible(c) ==
  /\ company[c].status = "ACTIVE" /\ company[c].auto
  /\ company[c].expires > now /\ company[c].expires <= now + Window

JobStart ==
  /\ job.phase = "due"
  /\ job' = [phase |-> "running", todo |-> {c \in Company : Eligible(c)}]
  /\ UNCHANGED <<now, company, invoice, call>>

Visited(c) == job.phase = "running" /\ c \in job.todo
              /\ job' = [job EXCEPT !.todo = @ \ {c}]

JobRenew(c) ==
  /\ Visited(c)
  /\ RenewRead(Cron, c)
  /\ UNCHANGED <<now, company, invoice>>

JobSkip(c) ==
  /\ Visited(c) /\ call[Cron] = NoCall
  /\ Renewable(c) /\ OpenRenewal(c)
  /\ UNCHANGED <<now, company, invoice, call>>

\* The rest of the companies are left to the next night.
JobFails ==
  /\ job.phase = "running"
  /\ \/ /\ call[Cron] = NoCall
        /\ \E c \in job.todo : ~Renewable(c) /\ job' = [phase |-> "done", todo |-> job.todo \ {c}]
     \/ /\ call[Cron].op = "renew" /\ KeyTaken(call[Cron].row)
        /\ job' = [job EXCEPT !.phase = "done"]
     \/ /\ call[Cron].op = "pay" /\ invoice[call[Cron].id].status \in {"CANCELLED", "EXPIRED"}
        /\ job' = [job EXCEPT !.phase = "done"]
  /\ EndCall(Cron)
  /\ UNCHANGED <<now, company, invoice>>

\* Somebody else paid what costs nothing: the job goes on.
JobSettled ==
  /\ call[Cron].op = "pay" /\ invoice[call[Cron].id].status = "PAID"
  /\ EndCall(Cron)
  /\ UNCHANGED <<now, company, invoice, job>>

JobEnd ==
  /\ job.phase = "running" /\ job.todo = {} /\ call[Cron] = NoCall
  /\ job' = [job EXCEPT !.phase = "done"]
  /\ UNCHANGED <<now, company, invoice, call>>

Tick ==
  /\ job.phase = "done" /\ now < MaxNow
  /\ now' = now + 1
  /\ job' = [phase |-> "due", todo |-> {}]
  /\ UNCHANGED <<company, invoice, call>>

-----------------------------------------------------------------------------
BillingNext ==
  \/ \E q \in Caller, i \in 1..MaxInvoice : PayRead(q, i)
  \/ \E p \in Process : PayCommit(p)
  \/ \E q \in Caller, c \in Company : RenewRead(q, c) /\ UNCHANGED <<now, company, invoice, job>>
  \/ \E p \in Process : RenewCommit(p)
  \/ \E q \in Caller, c \in Company, term \in Term, amount \in Amount, auto \in BOOLEAN :
        ConfigureRead(q, c, term, amount, auto)
  \/ \E q \in Caller : ConfigureCommit(q)
  \/ \E q \in Caller, c \in Company, op \in {"suspend", "cancel", "resume"} : StatusRead(q, c, op)
  \/ \E q \in Caller : StatusCommit(q)
  \/ \E c \in Company, auto \in BOOLEAN : SetAutoRenew(c, auto)
  \/ \E i \in 1..MaxInvoice : CancelInvoice(i)
  \/ \E q \in Caller, i \in 1..MaxInvoice, later \in BOOLEAN : ExtendRead(q, i, later)
  \/ \E q \in Caller : ExtendCommit(q)
  \/ \E q \in Caller : FailCall(q)
  \/ \E i \in 1..MaxInvoice : ExpireInvoice(i)
  \/ \E c \in Company : ExpireCompany(c)
  \/ JobStart
  \/ \E c \in Company : JobRenew(c)
  \/ \E c \in Company : JobSkip(c)
  \/ JobFails
  \/ JobSettled
  \/ JobEnd
  \/ Tick

BillingSpec == BillingInit /\ [][BillingNext]_billingVars

\* The jobs run: the hourly one gets to every row it is to change, the nightly one goes on
\* until it has ended.  Nobody has to send a request, and requests need not end.
Fairness ==
  /\ \A i \in 1..MaxInvoice : WF_billingVars(ExpireInvoice(i))
  /\ \A c \in Company :
       WF_billingVars(ExpireCompany(c)) /\ WF_billingVars(JobRenew(c)) /\ WF_billingVars(JobSkip(c))
  /\ WF_billingVars(PayCommit(Cron)) /\ WF_billingVars(RenewCommit(Cron))
  /\ WF_billingVars(JobStart) /\ WF_billingVars(JobFails) /\ WF_billingVars(JobSettled)
  /\ WF_billingVars(JobEnd)

FairSpec == BillingSpec /\ Fairness

-----------------------------------------------------------------------------
\* A period that a company has was paid, and is the period of the invoice; access is
\* granted to no one else ("An active paid subscription is required").
PeriodPaid ==
  \A c \in Company :
    /\ company[c].access => company[c].status = "ACTIVE" /\ company[c].expires # 0
    /\ company[c].expires # 0 =>
         \E i \in DOMAIN invoice :
           /\ invoice[i].company = c /\ invoice[i].paid
           /\ invoice[i].end = company[c].expires

\* An open invoice of the company is paid in this step.
PaysFor(c) ==
  \E i \in DOMAIN invoice' :
    /\ invoice'[i].company = c /\ invoice'[i].status = "PAID"
    /\ i \in DOMAIN invoice => invoice[i].status = "OPEN"

\* Access that was lost comes back with a payment, or when a suspension ends: not after a
\* cancellation, and not because time passed or a job ran.
AccessIsPaidFor ==
  [][\A c \in Company :
       ~HasAccess(c) /\ HasAccess(c)' => PaysFor(c) \/ company[c].status = "SUSPENDED"]_billingVars

\* A subscription whose period ended does not stay ACTIVE or SUSPENDED.
LapsedReconciled ==
  \A c \in Company :
    LET late == company[c].status \in {"ACTIVE", "SUSPENDED"} /\ company[c].expires <= now
    IN late ~> ~late

\* What settled an invoice stands: of a payment, a cancellation and an expiry that race for
\* it one takes effect, also between a caller and the job that pays a free renewal.  Only
\* the commit of an extension of its due date changes it again.
SettledOnce ==
  [][\A i \in DOMAIN invoice :
       ~Open(i) => \/ invoice'[i].status = invoice[i].status
                   \/ \E q \in Caller : /\ call[q].op = "extend" /\ call[q].id = i
                                        /\ call'[q] = NoCall]_billingVars

\* "Paid invoices cannot be cancelled".
PaidNotCancelled ==
  \A i \in DOMAIN invoice : invoice[i].paid => invoice[i].status # "CANCELLED"
=============================================================================
