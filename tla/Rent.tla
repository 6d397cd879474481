-------------------------------- MODULE Rent --------------------------------
(***************************************************************************)
(* Rent payments of one tenant database and what they leave in the         *)
(* cashbook and in the journal:                                            *)
(* backend/src/modules/real-estate/real-estate.service.ts.                 *)
(*                                                                         *)
(* The monthly generator locks the ACTIVE contracts, then reads contracts  *)
(* and payments again, then inserts an invoice for each contract without a *)
(* payment in that month: three steps.  An edit and a change of status     *)
(* read their payment without a lock and write it by its id.  Inserting a  *)
(* payment, or moving one to another contract, waits for the lock of that  *)
(* contract: its foreign key is checked.                                   *)
(*                                                                         *)
(* Left out: clients, dates within a month, receipt numbers; payments      *)
(* without a contract; LATE, which is UNPAID after the due date; why the   *)
(* journal refuses a posting (a locked period, a missing account), which   *)
(* is a choice here: the handler then goes on without it.                  *)
(***************************************************************************)
EXTENDS Integers, FiniteSets, FiniteSetsExt, Functions

CONSTANTS
  Contract,   \* bound: the rental contracts that may be created
  MonthlyRent, \* the rent of each
  Month,      \* bound: the months that rent is due in
  Form,       \* what a payment may be entered with: amount due and amount paid
  Postings,   \* which of its two postings the journal may take at a time
  PaymentId,  \* bound: the payments that may be created
  Request     \* bound: the requests in flight at one time

ASSUME ConstantsOK ==
  /\ MonthlyRent \in [Contract -> Nat]
  /\ Form \subseteq [due : Nat, paid : Nat]
  /\ Postings \subseteq SUBSET {"invoice", "receipt"}
  /\ IsFiniteSet(Request)

VARIABLES
  contract,  \* rental_contracts: ACTIVE, in another status, deleted
  payment,   \* rent_payments, with their live cashbook rows and POSTED batches
  req        \* requests between their steps

vars == <<contract, payment, req>>

ContractState == {"NONE", "ACTIVE", "INACTIVE", "DELETED"}
PaymentStatus == {"PAID", "PARTIAL", "UNPAID"}

\* How a payment came to its contract and its month: entered or moved there by hand, or
\* inserted by a generator that held the contract's lock, or did not.
Origin == {"HAND", "LOCKED", "UNLOCKED"}

\* cash, invoice and receipt are the amounts of the live cashbook row and of the POSTED
\* batches of RENT_INVOICE and RENT_RECEIPT.
PaymentRow ==
  [row : {"LIVE", "DELETED"}, contract : Contract, month : Month, origin : Origin,
   due : Nat, paid : Nat, status : PaymentStatus, cash : Nat, invoice : Nat, receipt : Nat]

NoRow == [row |-> "NONE"]
Live(i) == payment[i].row = "LIVE"
Unused == {i \in PaymentId : payment[i] = NoRow}

\* Faulty variant: an open payment gets the status of an open deal.
FaultyStatusOf(due, paid) ==
  IF paid >= due THEN "PAID" ELSE IF paid > 0 THEN "PARTIAL" ELSE "PENDING"

\* paymentStatus.
StatusOf(due, paid) == IF paid >= due THEN "PAID" ELSE IF paid > 0 THEN "PARTIAL" ELSE "UNPAID"

\* Faulty variant: the invoice is posted for what is still open.
FaultyBooked(row, posted) ==
  [row EXCEPT !.cash = row.paid,
              !.invoice = IF "invoice" \in posted THEN row.due - row.paid ELSE 0,
              !.receipt = IF "receipt" \in posted THEN row.paid ELSE 0]

\* syncRentPaymentLedger: what was booked for the payment is deleted or reversed, and its
\* amounts are booked; the journal may refuse either posting.
Booked(row, posted) ==
  [row EXCEPT !.cash = row.paid,
              !.invoice = IF "invoice" \in posted THEN row.due ELSE 0,
              !.receipt = IF "receipt" \in posted THEN row.paid ELSE 0]

PaymentOf(c, m, origin, due, paid) ==
  [row |-> "LIVE", contract |-> c, month |-> m, origin |-> origin, due |-> due, paid |-> paid,
   status |-> StatusOf(due, paid), cash |-> 0, invoice |-> 0, receipt |-> 0]

-----------------------------------------------------------------------------
(* Requests and locks.                                                     *)

Idle == [op |-> "idle"]

GenerateRequest ==
  [op : {"generate"}, stage : {"locked", "planned"}, month : Month,
   locked : SUBSET Contract, ask : SUBSET Contract]
EditRequest ==
  [op : {"edit"}, id : PaymentId, contract : Contract, month : Month, due : Nat, paid : Nat]
StatusRequest ==
  [op : {"status"}, id : PaymentId, paid : Nat, status : PaymentStatus]

TypeOK ==
  /\ contract \in [Contract -> ContractState]
  /\ payment \in [PaymentId -> PaymentRow \cup {NoRow}]
  /\ req \in [Request -> {Idle} \cup GenerateRequest \cup EditRequest \cup StatusRequest]

Begin(q, r) == req[q] = Idle /\ req' = [req EXCEPT ![q] = r]
\* A handler of one step needs a slot too: with one Request, handlers run one by one.
Slot == (\E q \in Request : req[q] = Idle) /\ UNCHANGED req
Finish(q) == req' = [req EXCEPT ![q] = Idle]

LockedBy(q) == IF req[q].op = "generate" THEN req[q].locked ELSE {}
AskedBy(q) == IF req[q].op = "generate" THEN req[q].ask ELSE {}
LockedByOther(q, c) == \E r \in Request \ {q} : c \in LockedBy(r)
Unlocked(c) == \A q \in Request : c \notin LockedBy(q)

Init ==
  /\ contract = [c \in Contract |-> "NONE"]
  /\ payment = [i \in PaymentId |-> NoRow]
  /\ req = [q \in Request |-> Idle]

-----------------------------------------------------------------------------
(* Contracts: what other handlers do to them.                              *)

\* createRentalContract, or a transition to ACTIVE: nobody has locked the row.
Activate(c) ==
  /\ Slot
  /\ contract[c] \in {"NONE", "INACTIVE"}
  /\ contract' = [contract EXCEPT ![c] = "ACTIVE"]
  /\ UNCHANGED payment

\* A transition from ACTIVE, or deleteRentalContract, waits for a generator.
Deactivate(c, s) ==
  /\ Slot
  /\ contract[c] \in {"ACTIVE", "INACTIVE"} /\ s \in {"INACTIVE", "DELETED"}
  /\ Unlocked(c)
  /\ contract' = [contract EXCEPT ![c] = s]
  /\ UNCHANGED payment

-----------------------------------------------------------------------------
(* generateMonthlyRentInvoices.                                            *)

ActiveContracts == {c \in Contract : contract[c] = "ACTIVE"}

\* Faulty variant: a payment that was made does not count.
FaultyExisting(c, m) ==
  \E i \in PaymentId :
    Live(i) /\ payment[i].contract = c /\ payment[i].month = m /\ payment[i].status # "PAID"

\* A live payment of the contract that is due in the month, of any origin.
Existing(c, m) == \E i \in PaymentId : Live(i) /\ payment[i].contract = c /\ payment[i].month = m

\* SELECT ... FOR UPDATE of the active contracts waits for the locks of another generator.
GenerateLock(q, m) ==
  /\ \A c \in ActiveContracts : Unlocked(c)
  /\ Begin(q, [op |-> "generate", stage |-> "locked", month |-> m,
               locked |-> ActiveContracts, ask |-> {}])
  /\ UNCHANGED <<contract, payment>>

\* The active contracts are read again, those that were activated since included, and the
\* payments of the month are looked up.
GeneratePlan(q) ==
  /\ req[q].op = "generate" /\ req[q].stage = "locked"
  /\ LET ask == {c \in ActiveContracts : ~Existing(c, req[q].month) /\ MonthlyRent[c] > 0}
     IN  req' = [req EXCEPT ![q].stage = "planned", ![q].ask = ask]
  /\ UNCHANGED <<contract, payment>>

Invoice(q, c, posted) ==
  LET origin == IF c \in req[q].locked THEN "LOCKED" ELSE "UNLOCKED" IN
  Booked(PaymentOf(c, req[q].month, origin, MonthlyRent[c], 0),
         IF c \in posted THEN {"invoice"} ELSE {})

\* Inserts one payment for each; new is where they are put, posted whose invoice the
\* journal takes.
GenerateCommit(q, new, posted) ==
  /\ req[q].op = "generate" /\ req[q].stage = "planned"
  /\ \A c \in req[q].ask : ~LockedByOther(q, c)
  /\ payment' = [i \in PaymentId |->
                   IF \E c \in req[q].ask : new[c] = i
                   THEN Invoice(q, CHOOSE c \in req[q].ask : new[c] = i, posted)
                   ELSE payment[i]]
  /\ Finish(q)
  /\ UNCHANGED contract

-----------------------------------------------------------------------------
(* Payments.                                                               *)

\* validatePayment and assertRentPaymentTenant.
Acceptable(form, c) == form.paid <= form.due /\ contract[c] \in {"ACTIVE", "INACTIVE"}

CreateRentPayment(i, c, m, form, posted) ==
  /\ Slot
  /\ Acceptable(form, c) /\ Unlocked(c)
  /\ i \in Unused
  /\ payment' = [payment EXCEPT ![i] =
                   Booked(PaymentOf(c, m, "HAND", form.due, form.paid), posted)]
  /\ UNCHANGED contract

\* A form without an amount paid keeps the one that was read.
UpdateRentPaymentRead(q, i, c, m, form, given) ==
  /\ Live(i)
  /\ Acceptable(form, c)
  /\ Begin(q, [op |-> "edit", id |-> i, contract |-> c, month |-> m, due |-> form.due,
               paid |-> IF given THEN form.paid ELSE payment[i].paid])
  /\ UNCHANGED <<contract, payment>>

\* The row is written by its id, deleted or not.
UpdateRentPaymentCommit(q, posted) ==
  LET i == req[q].id
      moved == payment[i].contract # req[q].contract \/ payment[i].month # req[q].month
      row == [payment[i] EXCEPT
                !.contract = req[q].contract, !.month = req[q].month,
                !.origin = IF moved THEN "HAND" ELSE @,
                !.due = req[q].due, !.paid = req[q].paid,
                !.status = StatusOf(req[q].due, req[q].paid)]
  IN
  /\ req[q].op = "edit"
  /\ payment[i].contract # req[q].contract => Unlocked(req[q].contract)
  /\ payment' = [payment EXCEPT ![i] = Booked(row, posted)]
  /\ Finish(q)
  /\ UNCHANGED contract

\* What a status that is set by hand makes of the amount paid.
PaidFor(i, s) ==
  CASE s = "PAID" -> payment[i].due
    [] s = "UNPAID" -> 0
    [] s = "PARTIAL" -> payment[i].paid

UpdateRentPaymentStatusRead(q, i, s) ==
  /\ Live(i)
  /\ s = "PARTIAL" => payment[i].paid > 0 /\ payment[i].paid < payment[i].due
  /\ Begin(q, [op |-> "status", id |-> i, paid |-> PaidFor(i, s),
               status |-> StatusOf(payment[i].due, PaidFor(i, s))])
  /\ UNCHANGED <<contract, payment>>

\* Status and amount paid are written by the payment's id, and booked with what else the
\* row says.
UpdateRentPaymentStatusCommit(q, posted) ==
  LET i == req[q].id IN
  /\ req[q].op = "status"
  /\ payment' = [payment EXCEPT ![i] =
                   Booked([payment[i] EXCEPT !.paid = req[q].paid, !.status = req[q].status],
                          posted)]
  /\ Finish(q)
  /\ UNCHANGED contract

\* Faulty variant: the invoice stays in the journal.
FaultyDeleteRentPayment(i) ==
  /\ Slot
  /\ Live(i)
  /\ payment' = [payment EXCEPT ![i] = [@ EXCEPT !.row = "DELETED", !.cash = 0, !.receipt = 0]]
  /\ UNCHANGED contract

DeleteRentPayment(i) ==
  /\ Slot
  /\ Live(i)
  /\ payment' = [payment EXCEPT ![i] =
                   [@ EXCEPT !.row = "DELETED", !.cash = 0, !.invoice = 0, !.receipt = 0]]
  /\ UNCHANGED contract

\* A transaction may roll back at any time: a row is gone, PostgreSQL ends a deadlock, the
\* database refuses or times out.
Abort(q) ==
  /\ req[q] # Idle
  /\ Finish(q)
  /\ UNCHANGED <<contract, payment>>

Next ==
  \/ \E c \in Contract :
       \/ Activate(c)
       \/ \E s \in ContractState : Deactivate(c, s)
  \/ \E i \in PaymentId, c \in Contract, m \in Month, form \in Form, posted \in Postings :
       CreateRentPayment(i, c, m, form, posted)
  \/ \E i \in PaymentId : DeleteRentPayment(i)
  \/ \E q \in Request :
       \/ \E m \in Month : GenerateLock(q, m)
       \/ GeneratePlan(q)
       \/ \E posted \in SUBSET Contract :
            \E new \in Injection(AskedBy(q), Unused) : GenerateCommit(q, new, posted)
       \/ \E i \in PaymentId, c \in Contract, m \in Month, form \in Form, given \in BOOLEAN :
            UpdateRentPaymentRead(q, i, c, m, form, given)
       \/ \E posted \in Postings : UpdateRentPaymentCommit(q, posted)
       \/ \E i \in PaymentId, s \in PaymentStatus : UpdateRentPaymentStatusRead(q, i, s)
       \/ \E posted \in Postings : UpdateRentPaymentStatusCommit(q, posted)
       \/ Abort(q)

Spec == Init /\ [][Next]_vars
-----------------------------------------------------------------------------
(* Properties.                                                             *)

\* Two payments for one contract and one month.
SameRent(i, j) ==
  /\ i # j /\ Live(i) /\ Live(j)
  /\ payment[i].contract = payment[j].contract /\ payment[i].month = payment[j].month

\* A contract is asked for the rent of a month once, however many generators run for it at
\* once or again later, and whatever is entered, edited and deleted beside them ("the second
\* run blocks here and then sees the invoices the first run committed"): of the invoices
\* that were inserted under its lock and not moved there.
InvoicedOnce ==
  \A i, j \in PaymentId :
    SameRent(i, j) => ~(payment[i].origin = "LOCKED" /\ payment[j].origin = "LOCKED")

\* "keeping generation idempotent": the same of every invoice of the generator.
GeneratedOnce ==
  \A i, j \in PaymentId :
    SameRent(i, j) => payment[i].origin = "HAND" \/ payment[j].origin = "HAND"

\* The cashbook has what was paid for every live payment, and the journal what is due and
\* what was paid or, if it refused the last posting, nothing: never an older amount, even
\* when two requests change a payment at once.
BooksFollow ==
  \A i \in PaymentId : Live(i) =>
    /\ payment[i].cash = payment[i].paid
    /\ payment[i].invoice \in {0, payment[i].due}
    /\ payment[i].receipt \in {0, payment[i].paid}

\* A deleted payment has left the cashbook and the journal, and a live one has the status
\* of its amounts.
Settled ==
  \A i \in PaymentId :
    /\ payment[i].row = "DELETED" =>
         payment[i].cash = 0 /\ payment[i].invoice = 0 /\ payment[i].receipt = 0
    /\ Live(i) => payment[i].status = StatusOf(payment[i].due, payment[i].paid)
=============================================================================
