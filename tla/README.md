# MaamulPro: TLA+ models, checks and proofs

MaamulPro is a multi-tenant business platform: a NestJS server (`src/backend`) over one central
PostgreSQL database and one database per tenant, and a React client (`src/frontend`).  This directory
holds TLA+ models of the parts of the server that move money, goods and access, TLC instances that
check them, and TLAPS proofs.

All the concurrency is in the database.  No code asks for an isolation level, so every transaction
runs at READ COMMITTED: what a handler has read may be stale when it writes, unless it locked the
row, repeated its condition in the `WHERE` of the update, or holds an advisory lock.  Which handlers
do so, and whether it is enough, is what the models are about.

## 1. Inventory

| Part | State | Operations | Speaks to | What makes it correct |
|---|---|---|---|---|
| Journal (`accounting.service.ts`) | accounts, periods, batches with entries | post by hand or by hook, retract and re-post, reverse, create/lock periods, edit/delete accounts | called by payroll, materials, real estate, construction and the cashbook in their own transaction | entries balance, reversals cancel and stay linked, a hook replaces what hooks posted for its source, locked periods and restricted accounts are respected |
| Payroll (`payroll.service.ts`) | runs with items, approval, payment | create (also monthly job), edit, submit/approve/reject/reopen/pay, delete | writes a cashbook row and a journal batch | one live run per period, approved before paid, paid once, unchanged afterwards |
| Materials (`material-management.service.ts`) | stock, orders, sales, balances | create, edit, change status, delete | cashbook and journal | never oversold, received once, stock and balances follow from the documents |
| Billing (`subscription-lifecycle.service.ts`, `superadmin.service.ts`, `cron.service.ts`) | a company's subscription, its invoices | configure, renew, pay, suspend/resume/cancel, extend, expire; hourly and nightly jobs | decides whether a tenant's requests are let in | access is paid for, lapsed subscriptions lose it, an invoice is settled once |
| Leasing (`real-estate.service.ts`) | properties, clients, leases, deals | create, edit, move, transition, delete | property status shown to everyone who rents or sells | a claim is exclusive, the status of a property follows from its leases and deals |
| Rent (`real-estate.service.ts`) | rent payments with their bookings | generate a month, enter, edit, change status, delete | cashbook, journal | the rent of a month is asked for once, books follow the payment |
| Staff accounts (`staff.service.ts`) | staff records, users of the tenant, users of the central database | create, link, (de)activate, change address, delete | two databases without a common transaction | nobody is let in without membership, failures are undone |
| Construction (`construction.service.ts`) | workforce contracts, building materials; projects, expenses | pay, adjust, edit, transition; restock, use | cashbook, journal | payments stay within the adjusted budget, no movement of stock is lost |
| Cashbook (`financials.service.ts`) | transactions | create with idempotency key, clear, delete | journal | one row per key |
| Authentication | session versions, codes | log in, reset, revoke | central database | a revoked session is refused |
| Entitlements | limits | checks under advisory locks | real estate, construction, staff | limits hold under concurrency |
| Onboarding, tenant connections | companies, databases, pools | create with compensation | database provider | nothing half created stays |
| Alerts, reports, RBAC, scheduled delivery | derived rows | periodic reconciliation | all tenant data | one open alert per source |

What is hard in this code: decisions taken on rows read before the transaction or without a lock
(every modelled part has some); updates by id alone that overwrite what happened since; absolute
values written from an old read (stock, amounts of a rent payment) beside relative ones (balances);
two databases written one after the other; jobs that race with requests and stop at the first
failure; amounts rounded one by one and compared as totals; long legal sequences (edit, revert,
receive again; extend, cancel, pay) that no test goes through.  `PROJECT.json` lists the hazards at
their lines, also of parts that are not modelled.

## 2. Modules

| Module | Models | Proofs | Instances |
|---|---|---|---|
| `SourceLedger` | what the callers of the journal rely on (abstract) | | |
| `Journal` | the journal, its chart and its periods; implements `SourceLedger` | `Journal_proofs` | `MCJournal` |
| `Payroll` | payroll runs | `Payroll_proofs` | `MCPayroll` |
| `Materials` | stock, orders and sales | `Materials_proofs` | `MCMaterials` |
| `Billing` | subscriptions, invoices, billing jobs | `Access_proofs` | `MCBilling` |
| `Leasing` | properties, clients, leases and deals | `Leasing_proofs` | `MCLeasing` |
| `Rent` | rent payments, their generator, cashbook rows and batches | `Rent_proofs` | `MCRent` |
| `Accounts` | user accounts of staff in two databases | `Access_proofs` | `MCAccounts` |
| `Construction` | workforce contracts and building materials | `Construction_proofs` | `MCConstruction` |
| `Sums` | sums of a function over a finite set, for the proofs | itself | |

`Access_proofs` extends both modules that decide who is let in.  So that their names do not meet,
those of `Billing` that `Accounts` also has are different: `Caller` and `call` for requests and what
they hold, `BillingInit`, `BillingNext`, `BillingSpec`, `BillingTypeOK`, `FailCall`.

**Requests.**  `req[q]` is what request `q` holds between its steps.  An action `...Read` is what a
handler reads and decides before its first lock or conditional update; `...Commit` is the transaction
as others see it, with all its writes; `...Lock` and `...Sync` are steps in between, where it holds a
lock or waits for one.  An operation whose commit repeats the whole condition of the read is one
action, which needs a free `Slot`.  `Abort` ends a request without effect: a failed claim, a unique
key, a rollback.

**One by one.**  Some things hold only as long as requests do not overlap.  The instances keep a
history variable `alone` for that: it is TRUE until a request runs while another is in flight.  A
property called `...Alone` is the property of the module under the condition `alone`; it is checked
in the same run as those that hold under every interleaving.  A `CONSTRAINT` (`Scope`, `Sales`,
`Drafting`) then bounds the part of the state space where requests overlap, and says how.

**Faulty variants.**  Definitions that start with `Faulty` are not part of a model: each is a
plausible bug in the definition it precedes, and is there to show that a property would find it.

**Journal.**  `batch` is `journal_batches` with their entries; `PostRead`/`PostCommit` are
`postJournalBatch`/`doPost` called by hand (`POST /journals`) or by the cashbook;
`HookRead`/`HookCommit` are what `syncPurchaseLedger`, `syncSaleLedger` and their like do: one or two
batches by `doPost`, then `retractPriorForSource` with the new ones excepted;
`ReverseRead`/`ReverseCommit` are `reverseBatch`, `DeleteAccount...`, `CreatePeriod...` and the rest
bear the names of the code.  A hook holds its source's row (the caller updated it in the same
transaction), so hooks of one source wait for each other (`SourceUnlocked`).  A posting by hand waits
for nobody and retracts nothing, and its request may name any source, a hook's included
(`HandSource`; `accounting.dto.ts:48`): its batch then counts beside those of the hook.  `byHook` is
the history of who posted a batch.  The `PAYROLL` hook retracts before it posts; what others see at
its commit is the same.
Amounts are tenths of cents, so `RoundToCents` rounds as the code does.  Deleting an account takes
its entries along, as the foreign key does.  `Ledger` maps the journal to `SourceLedger`: the
batches of a source that are POSTED are those that count.  `SourceLedger` promises that what a hook
posts takes the place, in one step, of everything hooks had posted for the source, and that what
stopped counting never counts again; it promises nothing about batches posted by hand under the name
of a source, which a hook retracts when it saw them (`missed` are the others).  The other modules that
post (`Payroll`, `Materials`, `Rent`) use that abstraction: for each of their records they keep what
its hook posted last, or nothing.

**Payroll.**  An edit deletes the items it knows and creates new ones; `gen` stands for their ids.
A transition that read other items than the run now has fails in the code, because it updates items
by id: `ItemsFound`.  An edit has a third step in the middle, where it waits for the advisory lock of
its period.  The unique index behind that lock is left out on purpose, to show that the lock alone
is enough.  `RecordPayment` writes the cashbook row and, if the journal accepts it, the batch; a run
whose whole pay is withheld has a batch that credits no cash and a cashbook row with the gross, which
`CashbookMatchesLedger` allows and names.

**Materials.**  Changing an order is read, claim (`updateMany` with the status it read), and a commit
that writes the stock it computed after the claim; a sale adds to and subtracts from the stock in the
database.  `owed`, `due` and `book` are the supplier's and customer's balances and the cashbook rows.

**Billing.**  Handlers that act on a company or an invoice read it outside of the transaction.  The
nightly job visits the companies it found one by one, as the process `Cron`, and ends at the first
failure; the hourly reconciliation is `ExpireInvoice` and `ExpireCompany`.  Time is counted in days.

**Leasing.**  Claims lock the property and ask for rivals under the lock, so creation and editing of
a lease are exclusive.  Transitions and deletions write the record first, compute the status of its
property (`LeaseSync`, `DealSync`) and may then wait for the property's row: the status they write
may be stale, which is why `StatusMatches` is a property of requests one by one.  What the code does
not ask, the model does not ask either: an EXPIRED lease may become ACTIVE beside a newer one (its
step is left out of `ClaimExclusive`), an edit of a lease does not look whether the property is SOLD,
a deleted client may keep an EXPIRED lease, and the deal statuses REFUNDED and OVERDUE are never
stored.

**Rent.**  The generator locks the ACTIVE contracts, reads contracts and payments again, and inserts
the invoices that are missing.  A contract that became ACTIVE between the lock and the second read is
invoiced without its lock; `origin` tells those invoices apart, since `GeneratedOnce`, the same as
`InvoicedOnce` without that distinction, does not hold.  A payment carries its live cashbook rows and
what the journal holds for it.  `safePost` swallows a posting the journal refuses: `Postings` is
the choice of what the journal accepts.

**Accounts.**  Each write to either database is a step of its own, may fail (`Fail`) and then leads
to the catch block (`...Undo`), which may fail too; `Cut` is the server dying between two steps.
Creation and activation run in a central transaction that holds the company's lock (`QuotaFree`);
creation looks at the record once more before that transaction ends (`CreateAccountCheck`), and a
record deleted since makes it end without the central account, while user and link stay;
deletion and deactivation write the central database first.  `lost` and `restored` are histories:
that an undo was lost, and which accounts a failed deletion made active although they had been
deactivated before.

**Construction.**  Payments and adjustments of a workforce contract lock its row; edits compare the
budget they set with what they read and, if the form sends it, the version when they write.
`exposed` is the history of contracts edited without a version, or while their adjustments took from
the budget: the edit compares the original budget and not the adjusted one.  A movement of stock is
read and conditional write.  The comment on line 751 (an adjustment of a negative quantity) describes
a branch that is out of reach: the form asks for at least 0.01.

## 3. Runs

| Run | Instance | Properties | Shows |
|---|---|---|---|
| `journal` | two requests on sales only, one by one with purchases, deletions and periods; four batches, three accounts, one period, two days | `TypeOK EntriesBalanced ReversalLinks AuditTrail ImplementsLedger ReversalCancelsAlone PostsAboveZeroAlone` | what no interleaving of posts, hooks, reversals and chart changes breaks; that `Journal` implements `SourceLedger` although anybody may post under a hook's source; one by one, that reversals cancel and restricted accounts stay above zero |
| `journal_locked_period` (violation) | one request | `LockedPeriodClosed` | a reversal enters a locked period |
| `payroll_concurrent` | two requests on one run; items that round up, net to zero or are empty; a journal that may refuse | `TypeOK CashbookMatchesLedger PaymentMatchesRun ApproverMayApprove` | item ids work as a version of the run; the cashbook row agrees with the batch, second payments included |
| `payroll_workflow` | two requests on two runs and two periods before approval, one by one from draft to paid | `OneRunPerPeriod ApprovalCoversTotalAlone PaidStaysAlone` | the lock of the period is enough; one by one, approvals cover what the items add up to, and a paid run stays |
| `payroll_pay_twice` (violation) | two requests | `PaidOnce` | two pay requests both succeed |
| `materials` | two requests on one order, one sale and one material; one by one on two orders and two materials | `TypeOK StockNonNegative ReceivedOnce BooksMatch StockMatchesAlone BalancesMatchAlone` | what claims and conditional subtraction protect; one by one, that stock and balances can be recomputed from the documents |
| `billing` | one request beside the jobs, days 0 to 3, two invoices, prices 0 and 1, under fairness | `BillingTypeOK PeriodPaid AccessIsPaidFor LapsedReconciled SettledOnce` | access comes from a payment or the end of a suspension; one of the payments, the cancellation and the expiry of an invoice takes effect; lapsed subscriptions lose access |
| `billing_paid_cancelled` (violation) | one request | `PaidNotCancelled` | a paid invoice is made payable again and cancelled |
| `leasing` | two requests on two properties and up to two leases; one by one with deals, up to three records | `TypeOK ClaimExclusive StatusMatchesAlone` | a claim finds no rival whatever interleaves; one by one, the status of a property follows from its leases and deals, and a deleted one has none |
| `rent` | two requests, two months, two payments of one contract | `TypeOK InvoicedOnce BooksFollow SettledAlone` | the generator's lock works, books carry no older amount; one by one, deletion clears them and the status fits |
| `accounts` | two requests, two staff, two accounts, two addresses, failures of every write | `TypeOK AccountsBelong AccessIsHeldAlone FailuresUndoneAlone` | no central account without membership; one by one, access is held by a staff record and failures are undone |
| `construction` | two requests on a contract, then on a material; four writes of a row | `TypeOK WithinBudget StockFollows` | the lock and the version keep payments within the budget, the version keeps movements |

**What holds one by one only.**  Each `...Alone` property fails without its condition, and so does
`AccessIsPaidFor` with a second request; TLC finds the interleaving in seconds.  Examples: two
reversals of a batch both find it POSTED (`ReversalCancels`); an edit of a payroll run that read it
as a draft commits after the payment (`PaidStays`); two edits of one run that take the locks of
different periods leave both sets of items (`ApprovalCoversTotal`); a sale between the read and the
write of a receipt is lost from the stock (`StockMatchesDocuments`); a resume that read SUSPENDED
gives access back to a company that was cancelled since (`AccessIsPaidFor`); a transition writes a
property's status that another claim has outdated (`StatusMatches`), and a property is deleted while
a lease is created on it; a status change of a rent payment writes amounts from before an edit
(`Settled`); two accounts are created for one staff record (`AccessIsHeld`).  They are listed as
hazards, at the line where the stale read is, and no `...Alone` property is named there: those are
named at the hazards they can catch, which are long sequences of whole requests, rounding, and
failures half way.

**Bounds.**  Two requests are enough for the hazards above, all of which are a decision of one
request made stale by another; three would be needed only for two changes between the steps of a
third, and the steps of one request at a time are unbounded in number.  Four batches allow a posting
of two parts, its replacement and a reversal, and a batch by hand under the same source.  Two
documents of a kind, two materials, properties, months and periods let an operation hit the wrong
one; amounts are chosen so that sums round up, nets are zero, stock is short by one, and a budget can
be raised, reduced and exhausted.  Two invoices are an initial one and a renewal, days 0 to 3 let a
subscription be used, be renewed and lapse.  In `Billing`, one company is enough because every
property is about a company by itself; that one company's failure ends the nightly job for the next
one needs two, and is a hazard in `PROJECT.json` that no property covers: the code promises the
others nothing.  In `Rent`, one contract is enough for the same reason; in `Construction`, contracts
and materials share nothing, so one of the two is at work at a time (`Apart`).  `MaxInvoice`,
`MaxNow`, `MaxGen`, `MaxDay`, `MaxVersion`, `MaxLease`, `MaxDeal`, `Capacity`, `BatchId`, `PaymentId`
and the like bound what may be created and are named in the guards. Symmetry is used for
interchangeable ids and requests, in runs without liveness.

**Deadlock** is checked in the runs of `Journal` and in `billing_paid_cancelled`, where the system
never stops.  The other instances may stop, and their configurations say so: all ids are used and
deleted, all versions are written, all days have passed.

**Fairness** is assumed in `billing` only, and only of the jobs: the cron decorators run
reconciliation every hour and the nightly job every day, whatever requests do, and each step of a
started job is taken by the server itself.  No request is assumed to be sent or to end, and days need
not pass.

**Disagreements.**  Three runs show the code doing other than what the repository says of it:
payroll's "can NEVER be paid twice even under concurrent requests", the period page's "prevent late
or accidental journal postings", and "Paid invoices cannot be cancelled".  `PROJECT.json` quotes
them.  Three more were met on the way and are hazards: the generator of rents is not idempotent for a
contract activated while it waits (`real-estate.service.ts:366`), a failed deletion of a staff member
does not restore the state of the account but activates it (`staff.service.ts:188`), and
the "adjusted-budget-vs-totalPaid invariant" (`construction.service.ts:430`) is kept by payments and
adjustments and not by edits.

## 4. Proofs

Every safety property that a run checks is also a theorem.  The theorems are about the specifications
TLC checks, with every constant left open: any number of requests, ids, periods, companies,
properties, items and entries.  They use only the assumptions on constants at the head of each module
(`ConstantsOK`), which include that the sets the models count or sum over are finite: requests
everywhere but in `Billing` and `Construction`, and the batches, orders and sales that may ever be
written.  Every invariant that is not inductive by itself is strengthened by what requests in flight
may rely on: which of the things they read cannot have changed, and why.

Four theorems have a further hypothesis, stated in the theorem:

| Theorem | Hypothesis | What happens without it |
|---|---|---|
| `EntriesBalance` (journal) | `NothingToCascade`: no account gets an entry between the two steps of its deletion | the foreign key cascades and takes one side of a batch along; no code prevents it |
| `PaymentsMatch`, `ApproversMay` (payroll) | `PeriodsKept`: edits keep the period of their run | two edits of one run take the locks of different periods |
| `AccessComesBackPaid` (billing) | `OneCall`: one request at a time, beside the jobs | a resume that read SUSPENDED undoes a cancellation |

The instances satisfy them where the property is checked: forms of one period in
`payroll_concurrent`, one request in `billing`, and in `journal`
no deletion while requests overlap.

**One by one.**  A property `...Alone` is proved of `MCSpec`, whose history `alone` says that requests
have not overlapped.  The arguments have one form.  `AloneFacts` says that at most one request is in
flight (`Sole`), that the property holds, and that what the request has read is still so (`StillSo`,
by kind of request).  A step that begins a request establishes `StillSo` from its guard; one that ends
it leaves all idle (`AllIdle`); a step of no request finds all idle (`StepsAlone`), so there is nothing
to keep.  What remains is that each commit, working on values that are still so, keeps the property.

**Sums.**  Totals, balances and stock are sums over entries, batches, items and documents.  The models
write them with `SumFunctionOnSet` of the community modules, and `Sums` proves what such a sum does
when an element is added, removed, changed or negated.  The library's induction theorems take an
operator as a parameter, which the provers at hand cannot instantiate; `Sums` takes a least
counterexample instead (`LeastNat`, `LeastSubset`, from `WFMin`), first to show that the recursion
behind the sum has a solution and only one, then for each fact.

*Journal.*  `TypeCorrect`, `LinksHold` (`ReversalLinks`), `RequestsSound` (`InFlightOK`),
`AuditTrailHolds` and `JournalImplementsLedger`.  That a hook replaces all that hooks posted before
is not inductive: a hook that commits may have read its list of prior batches before another posting.
`InFlightOK` is the missing part: no other hook posts for the source meanwhile, so the list misses no
counting batch of a hook, although reversals by hand may have taken batches out of it and postings by
hand may have added some.  The refinement is proved along the refinement mapping `Ledger`: initial
states map to initial states, and each step maps to `Replace` (a hook commits), `Withdraw` (a
retraction), `Reverse` and `Add` (by hand, under the name of a source), `Record` (everything that
concerns no source) or a stutter.  All steps that write batches are shown to be a `Change` (rows
inserted, originals marked), and everything else about batches is proved from that.
`EntriesBalance`: what a request is about to insert balances as well (`Balanced`), and mirrored
entries have their totals exchanged (`MirrorTotals`).  `ReversalsCancel`: each reversal is the only
one of its original and mirrors it entry by entry (`Undone`), so the sum over the reversals of a
batch is the negated effect of the batch.  `PostsStayAboveZero`: the balance after a posting is the
balance it projected plus its effect (`BalanceAdds`), since a posting by hand retracts nothing.

*Payroll.*  `TypeCorrect`, `OneRun` (`OneRunPerPeriod`) and `LockHolds` (`LockHolderAlone`): between
its duplicate check and its commit an edit has no rival in the period, since whoever would create or
move one waits for the lock.  `PaymentsMatch` and `ApproversMay`: the ids of the items work as a
version of the run.  What a payment or an approval has read is either the present items and total, or
an earlier state whose items are gone, in which case its update by id fails (`Versions`); edits of
one run exclude each other as long as they keep its period.  One by one: `ApprovalsCover` (the total
of a run is the sum of its items, and what awaits payment has an approval of that total) and
`PaidRunsStay`.  `CashbookFollowsLedger` needs none of this and holds under every interleaving: a run
has a cashbook row only if it was paid, and row and batch come from the totals of one request
(`Booked`).

*Materials.*  `TypeCorrect`, `NeverOversold` (`StockNonNegative`), `ReceivedAtMostOnce`
(`ReceivedOnce`), `ClaimsHold` (`ClaimsSound`) and `CashbookHolds` (`BooksMatch`).  A receipt writes an
old stock plus or minus a line, so the invariant must say that this value is not negative for every
claimed request, that the claim keeps the order's status as it was read, and that two requests never
claim one order.  One by one, `StockRecomputed` and `BalancesRecomputed`: each step changes one
document, and stock and balances by what that document amounts to before and after
(`OrderMoves`, `SaleMoves`).

*Billing.*  `BillingTypeCorrect` and `EveryPeriodWasPaid` (`PeriodPaid`).  The invariant adds what
requests in flight rely on: their invoices exist, their renewals and terms have a length, and a
company about to be resumed has a period; the period is never taken away again, even where the status
is written over.  Every step is shown to keep each invoice's company, period and payment.
`SettledStands` (`SettledOnce`): each step that writes a status claims an open invoice first, except
the commit of an extension.
`AccessComesBackPaid`: a company about to be resumed is suspended, or has been paid for by the
nightly job, or its period has ended (`MayResume`), whatever the jobs do in between.

*Leasing.*  `TypeCorrect` and `ClaimsExclusive` (`ClaimExclusive`, an action property).  A lease
enters into force by creation, by an edit, or by a transition; the first two ask for rivals in the
very step that writes, so the work is to show that no other step lets a lease enter: status syncs
write the property only, and a deletion in flight marks a row and never restores it (`DeletionsDelete`).
One by one, `StatusesMatch`: the property a record was moved away from and the one it moved to both
have the status their leases and deals make of them, although a move writes one after the other.

*Rent.*  `TypeCorrect`, `RentInvoicedOnce` (`InvoicedOnce`) and `BooksAreCurrent` (`BooksFollow`).
The invariant says that no two generators hold one contract and that what a generator has planned
under its lock is still missing: insertions and moves to that contract wait for it.  One by one,
`PaymentsSettled`: the status a request has computed from the amounts it read is the one of the
amounts as they are.

*Accounts.*  `TypeCorrect` and `CentralAccountsBelong` (`AccountsBelong`).  A creation past its first
write holds the company's lock, alone, and its user is there and has no central row yet; since users
are removed by the undo of their own creation only, the central row that it inserts has a user.  One
by one, `AccessHeld` and `FailuresAreUndone`: between its two writes a request is `Ahead` in one
database by a known difference, which the second write or the catch block takes away.

*Construction.*  `TypeCorrect`, `PaidWithinBudget` (`WithinBudget`) and `NoMovementLost`
(`StockFollows`).  The invariant says what a request may rely on when it writes: under the lock,
that the amount still fits; with a version, that the row is what it read if the version is; and that
no two requests hold the lock of one contract.  One lemma covers every write of a contract, one every
write of a material.

*Model-checked only*: liveness (`LapsedReconciled`), since the provers treat neither fairness nor
`ENABLED`; and the three violations.

## 5. Not modelled, and the plan

Left out of the modelled parts: names, texts and logs; account hierarchies and account codes chosen
by the server; unit costs, transportation and the editing of products and parties; plans and
`TenantSubscription` rows (their only creator has no caller), due dates, the suspension of a tenant;
the cashbook rows and postings of a deal and of a workforce payment, which are booked like those of a
rent payment; daily expenses, worker ledgers, projects and tasks; passwords and roles of an account.
Frontend, generated clients, manuals, uploads and routing keep no state of interest here; they are
most of the repository's lines, the generated Prisma clients and the frontend above all.

Next, in this order:

1. `Cashbook`: the idempotency key against the unique index, clearing and deletion, manual
   transactions and their postings.
2. `Onboarding` with a failure at each step and a clean-up that may fail, `Alerts` with stale
   candidates, report delivery.
3. Authentication: codes, resets and session versions against the guard.
4. Pure algorithms against a reference: running balances of the ledger, the balance sheet, rounding.
5. Proofs: that the other modules post as `SourceLedger` promises; weaker forms of the properties of
   requests one by one, which hold under every interleaving.
