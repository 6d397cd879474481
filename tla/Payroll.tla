------------------------------ MODULE Payroll ------------------------------
(***************************************************************************)
(* Payroll runs of one tenant:                                             *)
(* backend/src/modules/payroll/payroll.service.ts.                         *)
(*                                                                         *)
(* A run has items, one per employee.  An edit deletes the items it sees   *)
(* and creates new ones under new ids: gen numbers the items an edit       *)
(* created.  Those of one edit change together: they are one record here.  *)
(*                                                                         *)
(* Every handler reads the run before it takes a lock and writes it later  *)
(* (READ COMMITTED): a read step and a commit step.  An edit has a third   *)
(* step between them, where it takes the advisory lock of its period.      *)
(*                                                                         *)
(* Names, dates of payment and approval, projects and expense accounts are *)
(* left out, and so is the partial unique index on live runs of a period:  *)
(* the locks are shown to be enough.  The journal is reduced to the        *)
(* PAYROLL batch of a run that is POSTED; Journal models its replacement.  *)
(***************************************************************************)
EXTENDS Integers, FiniteSets, FiniteSetsExt, Functions

CONSTANTS
  RunId,     \* bound: the runs that may be created
  Period,    \* (year, month) pairs
  Sheet,     \* the item lists a request may submit, amounts in tenths of cents, at least 0
  User,      \* approvers
  Limit,     \* Limit[u]: the approval limit of u, or None
  MaxGen,    \* bound: edits of one run
  Request,   \* bound: the requests in flight at one time
  None

ASSUME ConstantsOK ==
  /\ None \notin Nat /\ None \notin User
  /\ None \notin [gross : Int, deductions : Int, tax : Int, net : Int]
  /\ Limit \in [User -> Nat \cup {None}]
  /\ MaxGen \in Nat /\ IsFiniteSet(Request)
  /\ \A sheet \in Sheet : IsFiniteSet(DOMAIN sheet) /\ \A e \in DOMAIN sheet :
       sheet[e] \in [base : Nat, bonuses : Nat, deductions : Nat, tax : Nat]

VARIABLES
  run,       \* payrolls with their payroll_items, by id
  cash,      \* cashbook rows: transactions with referenceId PAYROLL-<id>
  ledger,    \* the POSTED journal batch of a run's payment
  payments,  \* history: the pay requests that succeeded (2 means more than once)
  req        \* requests between their read and their commit

vars == <<run, cash, ledger, payments, req>>

Status == {"DRAFT", "PENDING_APPROVAL", "APPROVED", "REJECTED", "PAID"}
Action == {"submit", "approve", "reject", "pay", "reopen"}

-----------------------------------------------------------------------------
(* Amounts.                                                                *)

RoundToCents(n) == (n + 5) \div 10

\* What is left to pay to an employee (calculate).
Net(i) == RoundToCents(i.base) + RoundToCents(i.bonuses)
            - RoundToCents(i.deductions) - RoundToCents(i.tax)

Payable(sheet) == \A e \in DOMAIN sheet : Net(sheet[e]) >= 0

Total(sheet, amount(_)) == SumFunction([e \in DOMAIN sheet |-> amount(sheet[e])])

Totals(sheet) ==
  [gross      |-> Total(sheet, LAMBDA i : RoundToCents(i.base) + RoundToCents(i.bonuses)),
   deductions |-> Total(sheet, LAMBDA i : RoundToCents(i.deductions)),
   tax        |-> Total(sheet, LAMBDA i : RoundToCents(i.tax)),
   net        |-> Total(sheet, Net)]

\* Faulty variant: the cashbook pays out before withholdings.
FaultyPaidAmount(t) == t.gross

\* What the cashbook row of a payment says was paid out.
PaidAmount(t) == IF t.net > 0 THEN t.net ELSE t.gross

\* The journal entries of a payment: one expense debit against cash, tax and
\* deductions, or cash alone when no other line was written.
ExpenseDebit(t) == IF t.gross > 0 THEN t.gross ELSE t.net
Withheld(t) == Max({t.tax, 0}) + Max({t.deductions, 0})
CashCredit(t) ==
  IF t.net <= 0 /\ Withheld(t) = 0 THEN ExpenseDebit(t) ELSE Max({t.net, 0})

-----------------------------------------------------------------------------
(* State.                                                                  *)

NewItems(g, sheet) ==
  [gen |-> g, totals |-> Totals(sheet), status |-> "DRAFT", payslips |-> FALSE]

NewRun(p, sheet) ==
  [period |-> p, deleted |-> FALSE, status |-> "DRAFT", approvedBy |-> None,
   gen |-> 0, totals |-> Totals(sheet), items |-> {NewItems(0, sheet)}]

Exists(r) == r \in DOMAIN run
Live(r) == Exists(r) /\ ~run[r].deleted

Idle == [op |-> "idle"]

ItemsRow(i) ==
  /\ DOMAIN i = {"gen", "totals", "status", "payslips"}
  /\ i.gen \in 0..MaxGen /\ i.status \in Status /\ i.payslips \in BOOLEAN

RunRow(row) ==
  /\ DOMAIN row = {"period", "deleted", "status", "approvedBy", "gen", "totals", "items"}
  /\ row.period \in Period /\ row.deleted \in BOOLEAN /\ row.status \in Status
  /\ row.approvedBy \in User \cup {None} /\ row.gen \in 0..MaxGen
  /\ \A i \in row.items : ItemsRow(i) /\ i.gen <= row.gen

RequestOK(q) ==
  \/ q = Idle
  \/ /\ q.op = "update" /\ q.sheet \in Sheet /\ q.period \in Period
     /\ Exists(q.id) /\ q.old \in {None} \cup SUBSET (0..MaxGen)
  \/ q.op = "delete" /\ Exists(q.id)
  \/ /\ q.op \in {"transition", "approve", "pay"} /\ q.action \in Action /\ q.user \in User
     /\ Exists(q.id) /\ RunRow(q.seen)

TypeOK ==
  /\ DOMAIN run \subseteq RunId /\ \A r \in DOMAIN run : RunRow(run[r])
  /\ DOMAIN cash = RunId /\ DOMAIN ledger = RunId
  /\ payments \in [RunId -> 0..2]
  /\ DOMAIN req = Request /\ \A q \in Request : RequestOK(req[q])

Init ==
  /\ run = [r \in {} |-> None]
  /\ cash = [r \in RunId |-> None]
  /\ ledger = [r \in RunId |-> None]
  /\ payments = [r \in RunId |-> 0]
  /\ req = [q \in Request |-> Idle]

Begin(q, r) == req[q] = Idle /\ req' = [req EXCEPT ![q] = r]
Finish(q) == req' = [req EXCEPT ![q] = Idle]
Slot == (\E q \in Request : req[q] = Idle) /\ UNCHANGED req

\* The other live runs of a period.
Duplicates(p, self) == {r \in RunId \ {self} : Live(r) /\ run[r].period = p}

\* Faulty variant: the lock is on the id of the run, not on the period.
FaultyPeriodFree(p) == TRUE

\* pg_advisory_xact_lock on the period is held from UpdateLock to the end.
PeriodFree(p) ==
  \A q \in Request : req[q].op = "update" /\ req[q].old # None => req[q].period # p

-----------------------------------------------------------------------------
(* Handlers.                                                               *)

\* createPayroll, by a user or by the monthly job: under the lock of the period,
\* look for a live run and create one.
Create(r, p, sheet) ==
  /\ Slot /\ ~Exists(r)
  /\ Payable(sheet)
  /\ PeriodFree(p) /\ Duplicates(p, r) = {}
  /\ run' = [s \in DOMAIN run \cup {r} |-> IF s = r THEN NewRun(p, sheet) ELSE run[s]]
  /\ UNCHANGED <<cash, ledger, payments>>

\* Faulty variant: an approved run can be edited.
FaultyUpdateRead(q, r, p, sheet) ==
  /\ Exists(r)
  /\ run[r].status \in {"DRAFT", "REJECTED", "APPROVED"}
  /\ Payable(sheet)
  /\ Begin(q, [op |-> "update", id |-> r, period |-> p, sheet |-> sheet, old |-> None])
  /\ UNCHANGED <<run, cash, ledger, payments>>

\* updatePayroll checks the status of the run before its transaction, ...
UpdateRead(q, r, p, sheet) ==
  /\ Exists(r)
  /\ run[r].status \in {"DRAFT", "REJECTED"}
  /\ Payable(sheet)
  /\ Begin(q, [op |-> "update", id |-> r, period |-> p, sheet |-> sheet, old |-> None])
  /\ UNCHANGED <<run, cash, ledger, payments>>

\* ... takes the lock of the period it moves to and sees the items to delete, ...
UpdateLock(q) ==
  /\ req[q].op = "update" /\ req[q].old = None
  /\ PeriodFree(req[q].period) /\ Duplicates(req[q].period, req[q].id) = {}
  /\ req' = [req EXCEPT ![q].old = {i.gen : i \in run[req[q].id].items}]
  /\ UNCHANGED <<run, cash, ledger, payments>>

\* ... and replaces those by new ones.  The status of the run is not written.
UpdateCommit(q) ==
  LET r == req[q].id
      g == run[r].gen + 1
  IN
  /\ req[q].op = "update" /\ req[q].old # None
  /\ g <= MaxGen
  /\ run' = [run EXCEPT
       ![r].period = req[q].period, ![r].gen = g, ![r].totals = Totals(req[q].sheet),
       ![r].items = {i \in @ : i.gen \notin req[q].old} \cup {NewItems(g, req[q].sheet)}]
  /\ Finish(q)
  /\ UNCHANGED <<cash, ledger, payments>>

\* deletePayroll: the run it reads was not PAID; the update asks nothing.
DeleteRead(q, r) ==
  /\ Exists(r) /\ run[r].status # "PAID"
  /\ Begin(q, [op |-> "delete", id |-> r])
  /\ UNCHANGED <<run, cash, ledger, payments>>

\* Faulty variant: the row is deleted, not marked.
FaultyDeleteCommit(q) ==
  /\ req[q].op = "delete"
  /\ run' = [r \in DOMAIN run \ {req[q].id} |-> run[r]]
  /\ Finish(q)
  /\ UNCHANGED <<cash, ledger, payments>>

DeleteCommit(q) ==
  /\ req[q].op = "delete"
  /\ run' = [run EXCEPT ![req[q].id].deleted = TRUE]
  /\ Finish(q)
  /\ UNCHANGED <<cash, ledger, payments>>

\* Faulty variant: a paid run may be reopened.
FaultyFrom(op, action) ==
  CASE op = "approve"     -> {"DRAFT", "PENDING_APPROVAL"}
    [] op = "pay"         -> {"APPROVED"}
    [] action = "submit"  -> {"DRAFT", "REJECTED"}
    [] action = "approve" -> {"PENDING_APPROVAL"}
    [] action = "reject"  -> {"PENDING_APPROVAL"}
    [] action = "pay"     -> {"APPROVED"}
    [] action = "reopen"  -> Status

\* transition, approvePayroll and processPayrollPayment differ in the statuses they
\* start from, and in whether they write approvedBy back as they read it.
From(op, action) ==
  CASE op = "approve"     -> {"DRAFT", "PENDING_APPROVAL"}
    [] op = "pay"         -> {"APPROVED"}
    [] action = "submit"  -> {"DRAFT", "REJECTED"}
    [] action = "approve" -> {"PENDING_APPROVAL"}
    [] action = "reject"  -> {"PENDING_APPROVAL"}
    [] action = "pay"     -> {"APPROVED"}
    [] action = "reopen"  -> {"DRAFT", "PENDING_APPROVAL", "APPROVED", "REJECTED"}

To(action) ==
  CASE action = "submit"  -> "PENDING_APPROVAL"
    [] action = "approve" -> "APPROVED"
    [] action = "reject"  -> "REJECTED"
    [] action = "pay"     -> "PAID"
    [] action = "reopen"  -> "DRAFT"

\* assertApprovalLimit of the net total (a Decimal object is never falsy, so the
\* gross total the code names as a fallback is not used).
MayApprove(u, t) == Limit[u] # None => t.net <= Limit[u]

TransitionRead(q, r, op, action, u) ==
  /\ op = "approve" => action = "approve"
  /\ op = "pay" => action = "pay"
  /\ Live(r)
  /\ run[r].status \in From(op, action)
  /\ action = "approve" => MayApprove(u, run[r].totals)
  /\ Begin(q, [op |-> op, id |-> r, action |-> action, user |-> u, seen |-> run[r]])
  /\ UNCHANGED <<run, cash, ledger, payments>>

\* Faulty variant: items are updated wherever they are found, as updateMany does.
FaultyItemsFound(row, seen) == TRUE
\* The updates of the items by id fail where an edit has replaced one.
ItemsFound(row, seen) == {i.gen : i \in seen.items} \subseteq {i.gen : i \in row.items}

\* applyStatusToItems, on an item that was read.
Stamped(i, seen, action) ==
  IF \E s \in seen.items : s.gen = i.gen
  THEN [i EXCEPT !.status = To(action),
                 !.payslips = \/ action \in {"approve", "pay"}
                              \/ \E s \in seen.items : s.gen = i.gen /\ s.payslips]
  ELSE i

\* The approver the update of the run writes: transition writes back what it read.
Approver(row, seen, op, action, u) ==
  CASE action = "approve"                                  -> u
    [] action = "reopen"                                   -> None
    [] op = "pay"                                          -> row.approvedBy
    [] op = "transition" /\ action \notin {"approve", "reopen"} -> seen.approvedBy

\* recordPayrollPayment: upsert the cashbook row; retract the run's journal batches and
\* post a new one, which the journal may refuse and does when its total is 0 (safePost goes
\* on without it: the row keeps the mark POSTED it may have).
RecordPayment(r, t) ==
  \E posted \in BOOLEAN :
    /\ posted => ExpenseDebit(t) > 0
    /\ ledger' = [ledger EXCEPT ![r] = IF posted THEN t ELSE None]
    /\ cash' = [cash EXCEPT ![r] =
                  [amount |-> PaidAmount(t),
                   posted |-> posted \/ (cash[r] # None /\ cash[r].posted)]]
    /\ payments' = [payments EXCEPT ![r] = Min({@ + 1, 2})]

TransitionCommit(q) ==
  LET r    == req[q].id
      a    == req[q].action
      seen == req[q].seen
  IN
  /\ req[q].op \in {"transition", "approve", "pay"}
  /\ ItemsFound(run[r], seen)
  /\ run' = [run EXCEPT
       ![r].status = To(a),
       ![r].items = {Stamped(i, seen, a) : i \in @},
       ![r].approvedBy = Approver(run[r], seen, req[q].op, a, req[q].user)]
  /\ IF a = "pay" THEN RecordPayment(r, seen.totals) ELSE UNCHANGED <<cash, ledger, payments>>
  /\ Finish(q)

\* A transaction rolls back: an item is gone, another run has the period, the payout
\* account is invalid, the database fails.
Abort(q) ==
  /\ req[q] # Idle
  /\ Finish(q)
  /\ UNCHANGED <<run, cash, ledger, payments>>

Next ==
  \/ \E r \in RunId, p \in Period, sheet \in Sheet : Create(r, p, sheet)
  \/ \E q \in Request, r \in RunId, p \in Period, sheet \in Sheet : UpdateRead(q, r, p, sheet)
  \/ \E q \in Request : UpdateLock(q)
  \/ \E q \in Request : UpdateCommit(q)
  \/ \E q \in Request, r \in RunId : DeleteRead(q, r)
  \/ \E q \in Request : DeleteCommit(q)
  \/ \E q \in Request, r \in RunId, op \in {"transition", "approve", "pay"},
        action \in Action, u \in User : TransitionRead(q, r, op, action, u)
  \/ \E q \in Request : TransitionCommit(q)
  \/ \E q \in Request : Abort(q)

Spec == Init /\ [][Next]_vars

-----------------------------------------------------------------------------
(* What holds under every interleaving.                                    *)

\* A period has at most one live run, whoever creates, edits or moves runs at once.
OneRunPerPeriod ==
  \A r, s \in RunId : Live(r) /\ Live(s) /\ run[r].period = run[s].period => r = s

\* Where edits keep the period: a payment pays what the run adds up to at that moment,
\* even when it decided on a run it read long before; item ids work as a version.
PaymentMatchesRun ==
  [][\A r \in RunId : cash'[r] # cash[r] => cash'[r].amount = PaidAmount(run[r].totals)]_vars

\* Where edits keep the period: whoever takes a run into APPROVED may approve the total
\* it has at that moment.
ApproverMayApprove ==
  [][\A r \in RunId :
       Exists(r) /\ run[r].status # "APPROVED" /\ run'[r].status = "APPROVED" =>
         MayApprove(run'[r].approvedBy, run'[r].totals)]_vars

\* The lock of the period does it: an edit past its check still has no rival when it
\* commits, and no two edits past their checks hold one period.
LockHolderAlone ==
  \A q \in Request : req[q].op = "update" /\ req[q].old # None =>
    /\ Duplicates(req[q].period, req[q].id) = {}
    /\ \A o \in Request \ {q} :
         ~(req[o].op = "update" /\ req[o].old # None /\ req[o].period = req[q].period)

\* However payments, reopenings and edits interleave, the cashbook row and the batch of a
\* run tell of one payment: the row has the cash the batch credits, or the whole expense
\* where the batch credits none because all of it is withheld ("Cashbook + GL for a paid
\* payroll").  A row marked POSTED has its batch, except where a second payment was refused
\* a batch after the first was retracted.
CashbookMatchesLedger ==
  \A r \in RunId : cash[r] # None =>
    /\ ledger[r] # None =>
         /\ cash[r].posted
         /\ cash[r].amount = IF CashCredit(ledger[r]) > 0 THEN CashCredit(ledger[r])
                             ELSE ExpenseDebit(ledger[r])
    /\ cash[r].posted /\ payments[r] <= 1 => ledger[r] # None

(* What holds when handlers run one at a time.                             *)

\* No run is paid twice ("can NEVER be paid twice even under concurrent requests").
PaidOnce == \A r \in RunId : payments[r] <= 1

\* A step leaves a run that was paid out PAID and undeleted, with the items and totals
\* that were paid ("Paid payrolls cannot be deleted").
PaidStays ==
  \A r \in RunId : payments[r] > 0 => run[r].status = "PAID" /\ run'[r] = run[r]

\* A run awaiting or past payment carries an approval that covers its present total, and
\* that is what its items add up to ("so parent totals equal the sum of item totals").
ApprovalCoversTotal ==
  \A r \in RunId : Exists(r) /\ run[r].status \in {"APPROVED", "PAID"} =>
    /\ run[r].approvedBy # None
    /\ MayApprove(run[r].approvedBy, run[r].totals)
    /\ run[r].totals.net = SumFunction([i \in run[r].items |-> i.totals.net])
=============================================================================
