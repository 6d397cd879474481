----------------------------- MODULE Rent_proofs -----------------------------
(***************************************************************************)
(* For any number of contracts, payments and concurrent requests: a        *)
(* contract is invoiced once for a month, and the books follow payments.   *)
(***************************************************************************)
EXTENDS MCRent, Sums

RequestRow == {Idle} \cup GenerateRequest \cup EditRequest \cup StatusRequest

\* No contract is locked by two generators.
LocksExclusive ==
  \A q, r \in Request : q # r => LockedBy(q) \cap LockedBy(r) = {}

\* A payment that was read is there when it is written.
RowsExist ==
  \A q \in Request : req[q].op \in {"edit", "status"} => payment[req[q].id] # NoRow

\* An invoice that a generator has put under a lock.
LockedInvoice(i, c, m) ==
  /\ Live(i) /\ payment[i].origin = "LOCKED"
  /\ payment[i].contract = c /\ payment[i].month = m

\* What a generator has planned for a contract it holds is still missing.
PlansHold ==
  \A q \in Request : req[q].op = "generate" /\ req[q].stage = "planned" =>
    \A c \in req[q].ask \cap req[q].locked, i \in PaymentId :
      ~LockedInvoice(i, c, req[q].month)

IInv == TypeOK /\ LocksExclusive /\ RowsExist /\ PlansHold /\ InvoicedOnce /\ BooksFollow

\* What most steps do to the requests: nothing, or one of them ends.
RequestsEnd == req' \in [Request -> RequestRow] /\ \A r \in Request : req'[r] \in {req[r], Idle}

-----------------------------------------------------------------------------

LEMMA Shapes ==
  ASSUME NEW r \in RequestRow
  PROVE  /\ r.op = "generate" => r \in GenerateRequest
         /\ r.op = "edit" => r \in EditRequest
         /\ r.op = "status" => r \in StatusRequest
  BY DEF RequestRow, Idle, GenerateRequest, EditRequest, StatusRequest

LEMMA Ends ==
  ASSUME IInv, \/ Slot
               \/ \E q \in Request : Finish(q)
  PROVE  RequestsEnd
<1>1. req \in [Request -> RequestRow] /\ Idle \in RequestRow
  BY DEF IInv, TypeOK, RequestRow
<1>2. CASE Slot
  BY <1>1, <1>2 DEF Slot, RequestsEnd
<1>3. ASSUME NEW q \in Request, Finish(q)
      PROVE  RequestsEnd
  BY <1>1, <1>3 DEF Finish, RequestsEnd
<1> QED BY <1>2, <1>3

\* Ending requests leaves the locks exclusive.
LEMMA EndsExclusive ==
  ASSUME IInv, RequestsEnd
  PROVE  LocksExclusive'
<1>1. \A r \in Request : LockedBy(r)' \in {LockedBy(r), {}}
  BY DEF RequestsEnd, LockedBy, Idle
<1> QED BY <1>1 DEF IInv, LocksExclusive

\* A payment that is booked is booked as it is.
LEMMA BookedRow ==
  ASSUME NEW row \in PaymentRow, NEW posted
  PROVE  /\ Booked(row, posted) \in PaymentRow
         /\ Booked(row, posted).cash = Booked(row, posted).paid
         /\ Booked(row, posted).invoice \in {0, Booked(row, posted).due}
         /\ Booked(row, posted).receipt \in {0, Booked(row, posted).paid}
         /\ Booked(row, posted).row = row.row
         /\ Booked(row, posted).origin = row.origin
         /\ Booked(row, posted).contract = row.contract
         /\ Booked(row, posted).month = row.month
  BY DEF Booked, PaymentRow

LEMMA NewRow ==
  ASSUME NEW c \in Contract, NEW m \in Month, NEW origin \in Origin, NEW due \in Nat, NEW paid \in Nat
  PROVE  PaymentOf(c, m, origin, due, paid) \in PaymentRow
  BY DEF PaymentOf, PaymentRow, StatusOf, PaymentStatus

\* Steps that change one payment, or put one where there was none.
LEMMA PaymentStep ==
  ASSUME IInv, RequestsEnd, NEW i \in PaymentId, NEW row \in PaymentRow,
         payment' = [payment EXCEPT ![i] = row], UNCHANGED contract,
         row.row = "LIVE" => /\ row.cash = row.paid
                             /\ row.invoice \in {0, row.due} /\ row.receipt \in {0, row.paid},
         row.row = "LIVE" /\ row.origin = "LOCKED" => LockedInvoice(i, row.contract, row.month)
  PROVE  IInv'
<1>1. payment \in [PaymentId -> PaymentRow \cup {NoRow}] /\ row # NoRow
  BY DEF IInv, TypeOK, PaymentRow, NoRow
<1>2. TypeOK'
  BY <1>1 DEF IInv, TypeOK, RequestsEnd, RequestRow
<1>3. LocksExclusive'
  BY EndsExclusive
<1>4. RowsExist'
  BY <1>1 DEF IInv, RowsExist, RequestsEnd, Idle
<1>5. \A j \in PaymentId, c \in Contract, m \in Month :
        LockedInvoice(j, c, m)' => LockedInvoice(j, c, m)
  BY <1>1 DEF LockedInvoice, Live
<1>6. PlansHold'
  <2> SUFFICES ASSUME NEW q \in Request, req'[q].op = "generate", req'[q].stage = "planned",
                      NEW c \in req'[q].ask \cap req'[q].locked, NEW j \in PaymentId
               PROVE  (~LockedInvoice(j, c, req[q].month))'
    BY DEF PlansHold, LockedInvoice, Live
  <2>1. req'[q] = req[q] /\ req[q] \in RequestRow
    BY DEF RequestsEnd, Idle
  <2>2. c \in Contract /\ req[q].month \in Month
    BY <2>1, Shapes DEF GenerateRequest
  <2>3. ~LockedInvoice(j, c, req[q].month)
    BY <2>1 DEF IInv, PlansHold
  <2> QED BY <1>5, <2>1, <2>2, <2>3 DEF LockedInvoice, Live
<1>7. InvoicedOnce'
  <2> SUFFICES ASSUME NEW j \in PaymentId, NEW k \in PaymentId, SameRent(j, k)',
                      payment'[j].origin = "LOCKED", payment'[k].origin = "LOCKED"
               PROVE  FALSE
    BY DEF InvoicedOnce
  <2>1. /\ payment'[j] \in PaymentRow /\ payment'[k] \in PaymentRow
        /\ payment'[j].contract = payment'[k].contract /\ payment'[j].month = payment'[k].month
    BY <1>2 DEF SameRent, Live, TypeOK, NoRow
  <2>2. payment'[j].contract \in Contract /\ payment'[j].month \in Month
    BY <2>1 DEF PaymentRow
  <2>3. /\ LockedInvoice(j, payment'[j].contract, payment'[j].month)
        /\ LockedInvoice(k, payment'[j].contract, payment'[j].month)
    BY <1>5, <2>1, <2>2 DEF LockedInvoice, SameRent, Live
  <2>4. SameRent(j, k)
    BY <2>3 DEF LockedInvoice, SameRent
  <2> QED BY <2>3, <2>4 DEF IInv, InvoicedOnce, LockedInvoice
<1>8. BooksFollow'
  BY <1>1 DEF IInv, BooksFollow, Live
<1> QED BY <1>2, <1>3, <1>4, <1>6, <1>7, <1>8 DEF IInv

\* Steps that leave payments alone.
LEMMA Elsewhere ==
  ASSUME IInv, RequestsEnd, UNCHANGED payment, contract' \in [Contract -> ContractState]
  PROVE  IInv'
<1>1. TypeOK'
  BY DEF IInv, TypeOK, RequestsEnd, RequestRow
<1>2. LocksExclusive'
  BY EndsExclusive
<1>3. RowsExist' /\ PlansHold'
  BY DEF IInv, RowsExist, PlansHold, LockedInvoice, Live, RequestsEnd, Idle
<1>4. InvoicedOnce' /\ BooksFollow'
  BY DEF IInv, InvoicedOnce, SameRent, BooksFollow, Live
<1> QED BY <1>1, <1>2, <1>3, <1>4 DEF IInv

\* Steps that change one request only.
LEMMA Requested ==
  ASSUME IInv, NEW q \in Request, NEW r \in RequestRow, req' = [req EXCEPT ![q] = r],
         UNCHANGED <<contract, payment>>, LocksExclusive',
         r.op \in {"edit", "status"} => payment[r.id] # NoRow,
         r.op = "generate" /\ r.stage = "planned" =>
           \A c \in r.ask \cap r.locked, i \in PaymentId : ~LockedInvoice(i, c, r.month)
  PROVE  IInv'
<1>1. req \in [Request -> RequestRow]
  BY DEF IInv, TypeOK, RequestRow
<1>2. TypeOK'
  BY <1>1 DEF IInv, TypeOK, RequestRow
<1>3. RowsExist'
  BY <1>1 DEF IInv, RowsExist
<1>4. PlansHold'
  BY <1>1 DEF IInv, PlansHold, LockedInvoice, Live
<1>5. InvoicedOnce' /\ BooksFollow'
  BY DEF IInv, InvoicedOnce, SameRent, BooksFollow, Live
<1> QED BY <1>2, <1>3, <1>4, <1>5 DEF IInv

-----------------------------------------------------------------------------
(* The steps of the generator.                                             *)

LEMMA LockKeeps ==
  ASSUME IInv, NEW q \in Request, NEW m \in Month, GenerateLock(q, m)
  PROVE  IInv'
<1> DEFINE r == [op |-> "generate", stage |-> "locked", month |-> m,
                 locked |-> ActiveContracts, ask |-> {}]
<1>1. r \in RequestRow /\ r.op = "generate" /\ r.stage = "locked"
  BY DEF RequestRow, GenerateRequest, ActiveContracts
<1>2. req' = [req EXCEPT ![q] = r] /\ UNCHANGED <<contract, payment>>
  BY DEF GenerateLock, Begin
<1>3. LocksExclusive'
  <2>1. req \in [Request -> RequestRow]
    BY DEF IInv, TypeOK, RequestRow
  <2>2. LockedBy(q)' = ActiveContracts
    BY <1>2, <2>1 DEF LockedBy
  <2>3. \A p \in Request : p # q => LockedBy(p)' = LockedBy(p)
    BY <1>2, <2>1 DEF LockedBy
  <2>4. \A p \in Request : ActiveContracts \cap LockedBy(p) = {}
    BY DEF GenerateLock, Unlocked, ActiveContracts
  <2> QED BY <2>2, <2>3, <2>4 DEF IInv, LocksExclusive
<1> HIDE DEF r
<1> QED BY <1>1, <1>2, <1>3, Requested

LEMMA PlanKeeps ==
  ASSUME IInv, NEW q \in Request, GeneratePlan(q)
  PROVE  IInv'
<1>1. PICK r \in GenerateRequest : r = req[q]
  BY Shapes DEF IInv, TypeOK, RequestRow, GeneratePlan
<1> DEFINE ask == {c \in ActiveContracts : ~Existing(c, r.month) /\ MonthlyRent[c] > 0}
           new == [r EXCEPT !.stage = "planned", !.ask = ask]
<1>2. /\ new \in RequestRow /\ new.op = "generate"
      /\ new.ask = ask /\ new.locked = r.locked /\ new.month = r.month
  BY DEF RequestRow, GenerateRequest, ActiveContracts
<1>3. req' = [req EXCEPT ![q] = new] /\ UNCHANGED <<contract, payment>>
  BY <1>1 DEF GeneratePlan
<1>4. LocksExclusive'
  <2>1. req \in [Request -> RequestRow]
    BY DEF IInv, TypeOK, RequestRow
  <2>2. \A p \in Request : LockedBy(p)' = LockedBy(p)
    BY <1>1, <1>2, <1>3, <2>1 DEF LockedBy, GenerateRequest
  <2> QED BY <2>2 DEF IInv, LocksExclusive
<1>5. \A c \in ask, i \in PaymentId : ~LockedInvoice(i, c, r.month)
  BY DEF LockedInvoice, Existing
<1> HIDE DEF new, ask
<1> QED BY <1>2, <1>3, <1>4, <1>5, Requested

LEMMA InvoiceRow ==
  ASSUME IInv, NEW q \in Request, req[q].op = "generate", NEW c \in req[q].ask, NEW posted
  PROVE  /\ Invoice(q, c, posted) \in PaymentRow
         /\ Invoice(q, c, posted).cash = Invoice(q, c, posted).paid
         /\ Invoice(q, c, posted).invoice \in {0, Invoice(q, c, posted).due}
         /\ Invoice(q, c, posted).receipt \in {0, Invoice(q, c, posted).paid}
         /\ Invoice(q, c, posted).contract = c /\ Invoice(q, c, posted).month = req[q].month
         /\ Invoice(q, c, posted).origin = "LOCKED" => c \in req[q].locked
<1>1. req[q] \in GenerateRequest
  BY Shapes DEF IInv, TypeOK, RequestRow
<1>2. c \in Contract /\ req[q].month \in Month /\ MonthlyRent[c] \in Nat
  BY <1>1, ConstantsOK DEF GenerateRequest
<1> DEFINE origin == IF c \in req[q].locked THEN "LOCKED" ELSE "UNLOCKED"
           row == PaymentOf(c, req[q].month, origin, MonthlyRent[c], 0)
           taken == IF c \in posted THEN {"invoice"} ELSE {}
<1>3. origin \in Origin /\ (origin = "LOCKED" => c \in req[q].locked)
  BY DEF Origin
<1>4. row.contract = c /\ row.month = req[q].month /\ row.origin = origin
  BY DEF PaymentOf
<1>5. Invoice(q, c, posted) = Booked(row, taken)
  BY DEF Invoice
<1> HIDE DEF origin, taken
<1>6. row \in PaymentRow
  BY <1>2, <1>3, NewRow
<1> HIDE DEF row
<1> QED BY <1>3, <1>4, <1>5, <1>6, BookedRow

LEMMA CommitKeeps ==
  ASSUME IInv, NEW q \in Request, NEW posted, NEW new \in Injection(AskedBy(q), Unused),
         GenerateCommit(q, new, posted)
  PROVE  IInv'
<1>1. req[q].op = "generate" /\ req[q].stage = "planned" /\ req[q] \in GenerateRequest
  BY Shapes DEF IInv, TypeOK, RequestRow, GenerateCommit
<1>2. /\ new \in [req[q].ask -> Unused]
      /\ \A a, b \in req[q].ask : new[a] = new[b] => a = b
  BY <1>1 DEF Injection, IsInjective, AskedBy
<1>3. RequestsEnd /\ UNCHANGED contract
  BY Ends DEF GenerateCommit
<1> DEFINE chosen(i) == CHOOSE c \in req[q].ask : new[c] = i
           added(i) == \E c \in req[q].ask : new[c] = i
<1>4. payment' = [i \in PaymentId |-> IF added(i) THEN Invoice(q, chosen(i), posted) ELSE payment[i]]
  BY DEF GenerateCommit
<1>5. \A i \in PaymentId : added(i) =>
        chosen(i) \in req[q].ask /\ new[chosen(i)] = i /\ payment[i] = NoRow
  BY <1>2 DEF Unused
<1> HIDE DEF chosen
<1>6. \A i \in PaymentId : ~added(i) => payment'[i] = payment[i]
  BY <1>4
<1>7. ASSUME NEW i \in PaymentId, added(i)
      PROVE  /\ payment'[i] \in PaymentRow
             /\ payment'[i].cash = payment'[i].paid
             /\ payment'[i].invoice \in {0, payment'[i].due}
             /\ payment'[i].receipt \in {0, payment'[i].paid}
             /\ payment'[i].contract = chosen(i) /\ payment'[i].month = req[q].month
             /\ payment'[i].origin = "LOCKED" => chosen(i) \in req[q].locked
  <2>1. payment'[i] = Invoice(q, chosen(i), posted) /\ chosen(i) \in req[q].ask
    BY <1>4, <1>5, <1>7
  <2> QED BY <1>1, <2>1, InvoiceRow
<1> HIDE DEF added
<1>8. payment \in [PaymentId -> PaymentRow \cup {NoRow}]
  BY DEF IInv, TypeOK
<1>9. TypeOK'
  <2>1. payment' \in [PaymentId -> PaymentRow \cup {NoRow}]
    BY <1>4, <1>6, <1>7, <1>8
  <2> QED BY <1>3, <2>1 DEF IInv, TypeOK, RequestsEnd, RequestRow
<1>10. LocksExclusive'
  BY <1>3, EndsExclusive
<1>11. RowsExist'
  <2>1. \A i \in PaymentId : payment[i] # NoRow => payment'[i] # NoRow
    BY <1>5, <1>6
  <2> SUFFICES ASSUME NEW r \in Request, req'[r].op \in {"edit", "status"}
               PROVE  payment'[req'[r].id] # NoRow
    BY DEF RowsExist
  <2>2. req'[r] = req[r] /\ req[r] \in RequestRow
    BY <1>3 DEF RequestsEnd, Idle, IInv, TypeOK, RequestRow
  <2>3. req[r].id \in PaymentId /\ payment[req[r].id] # NoRow
    BY <2>2, Shapes DEF IInv, RowsExist, EditRequest, StatusRequest
  <2> QED BY <2>1, <2>2, <2>3
\* A new invoice under a lock is for a contract that this generator holds.
<1>12. ASSUME NEW i \in PaymentId, NEW c \in Contract, NEW m \in Month, LockedInvoice(i, c, m)'
       PROVE  \/ ~added(i) /\ LockedInvoice(i, c, m)
              \/ added(i) /\ c = chosen(i) /\ m = req[q].month /\ c \in req[q].ask \cap req[q].locked
  <2>1. CASE added(i)
    BY <1>5, <1>7, <1>12, <2>1 DEF LockedInvoice
  <2>2. CASE ~added(i)
    BY <1>6, <1>12, <2>2 DEF LockedInvoice, Live
  <2> QED BY <2>1, <2>2
<1>13. PlansHold'
  <2> SUFFICES ASSUME NEW r \in Request, req'[r].op = "generate", req'[r].stage = "planned",
                      NEW c \in (req[r].ask \cap req[r].locked)', NEW j \in PaymentId,
                      LockedInvoice(j, c, req[r].month)'
               PROVE  FALSE
    BY DEF PlansHold, LockedInvoice, Live
  <2>1. req'[r] = req[r] /\ req[r] \in RequestRow /\ r # q
    BY <1>3 DEF RequestsEnd, Idle, IInv, TypeOK, RequestRow, GenerateCommit, Finish
  <2>2. req[r] \in GenerateRequest
    BY <2>1, Shapes
  <2>3. c \in Contract /\ c \in req[r].ask \cap req[r].locked
    BY <2>1, <2>2 DEF GenerateRequest
  <2>4. PICK m \in Month : m = req[r].month
    BY <2>2 DEF GenerateRequest
  <2>5. ~LockedInvoice(j, c, m) /\ LockedInvoice(j, c, m)'
    BY <2>1, <2>3, <2>4 DEF IInv, PlansHold, LockedInvoice, Live
  <2>6. c \notin req[q].locked
    BY <1>1, <2>1, <2>2, <2>3 DEF IInv, LocksExclusive, LockedBy
  <2> QED BY <1>12, <2>3, <2>5, <2>6
<1>14. InvoicedOnce'
  <2> SUFFICES ASSUME NEW j \in PaymentId, NEW k \in PaymentId, SameRent(j, k)',
                      payment'[j].origin = "LOCKED", payment'[k].origin = "LOCKED"
               PROVE  FALSE
    BY DEF InvoicedOnce
  <2>1. PICK c \in Contract, m \in Month :
          j # k /\ LockedInvoice(j, c, m)' /\ LockedInvoice(k, c, m)'
    <3>1. payment'[j] \in PaymentRow
      BY <1>9 DEF TypeOK, SameRent, Live, NoRow
    <3>2. payment'[j].contract \in Contract /\ payment'[j].month \in Month
      BY <3>1 DEF PaymentRow
    <3> QED BY <3>2 DEF SameRent, LockedInvoice, Live
  <2>2. CASE ~added(j) /\ ~added(k)
    <3>1. LockedInvoice(j, c, m) /\ LockedInvoice(k, c, m)
      BY <1>12, <2>1, <2>2
    <3> QED BY <2>1, <3>1 DEF IInv, InvoicedOnce, SameRent, LockedInvoice
  <2>3. CASE added(j) /\ added(k)
    <3>1. chosen(j) = chosen(k)
      BY <1>12, <2>1, <2>3
    <3> QED BY <1>5, <2>1, <2>3, <3>1
  <2>4. ASSUME NEW x \in {j, k}, NEW y \in {j, k}, added(x), ~added(y)
        PROVE  FALSE
    <3>1. m = req[q].month /\ c \in req[q].ask \cap req[q].locked /\ LockedInvoice(y, c, m)
      BY <1>12, <2>1, <2>4
    <3> QED BY <1>1, <2>1, <3>1 DEF IInv, PlansHold
  <2> QED BY <2>2, <2>3, <2>4
<1>15. BooksFollow'
  BY <1>6, <1>7 DEF IInv, BooksFollow, Live
<1> QED BY <1>9, <1>10, <1>11, <1>13, <1>14, <1>15 DEF IInv

-----------------------------------------------------------------------------
(* The steps of the other handlers.                                        *)

LEMMA ContractKeeps ==
  ASSUME IInv, NEW c \in Contract, Activate(c) \/ \E s \in ContractState : Deactivate(c, s)
  PROVE  IInv'
<1>1. Slot /\ UNCHANGED payment
  BY DEF Activate, Deactivate
<1>2. contract' \in [Contract -> ContractState]
  BY DEF Activate, Deactivate, IInv, TypeOK, ContractState
<1> QED BY <1>1, <1>2, Ends, Elsewhere

LEMMA CreateKeeps ==
  ASSUME IInv, NEW i \in PaymentId, NEW c \in Contract, NEW m \in Month, NEW form \in Form,
         NEW posted, CreateRentPayment(i, c, m, form, posted)
  PROVE  IInv'
<1> DEFINE row == PaymentOf(c, m, "HAND", form.due, form.paid)
<1>1. row \in PaymentRow /\ row.origin = "HAND"
  <2>1. form.due \in Nat /\ form.paid \in Nat /\ "HAND" \in Origin
    BY ConstantsOK DEF Origin
  <2> QED BY <2>1, NewRow DEF PaymentOf
<1>2. payment' = [payment EXCEPT ![i] = Booked(row, posted)] /\ Slot /\ UNCHANGED contract
  BY DEF CreateRentPayment
<1> HIDE DEF row
<1> QED BY <1>1, <1>2, BookedRow, Ends, PaymentStep

LEMMA DeleteKeeps ==
  ASSUME IInv, NEW i \in PaymentId, DeleteRentPayment(i)
  PROVE  IInv'
<1> DEFINE row == [payment[i] EXCEPT !.row = "DELETED", !.cash = 0, !.invoice = 0, !.receipt = 0]
<1>1. payment[i] \in PaymentRow
  BY DEF IInv, TypeOK, DeleteRentPayment, Live, NoRow
<1>2. row \in PaymentRow /\ row.row = "DELETED"
  BY <1>1 DEF PaymentRow
<1>3. payment' = [payment EXCEPT ![i] = row] /\ Slot /\ UNCHANGED contract
  BY DEF DeleteRentPayment
<1> HIDE DEF row
<1> QED BY <1>2, <1>3, Ends, PaymentStep

LEMMA EditReadKeeps ==
  ASSUME IInv, NEW q \in Request, NEW i \in PaymentId, NEW c \in Contract, NEW m \in Month,
         NEW form \in Form, NEW given \in BOOLEAN, UpdateRentPaymentRead(q, i, c, m, form, given)
  PROVE  IInv'
<1> DEFINE r == [op |-> "edit", id |-> i, contract |-> c, month |-> m, due |-> form.due,
                 paid |-> IF given THEN form.paid ELSE payment[i].paid]
<1>1. payment[i] \in PaymentRow /\ payment[i] # NoRow
  BY DEF IInv, TypeOK, UpdateRentPaymentRead, Live, NoRow
<1>2. r \in RequestRow /\ r.op = "edit" /\ r.id = i
  BY <1>1, ConstantsOK DEF RequestRow, EditRequest, PaymentRow
<1>3. req' = [req EXCEPT ![q] = r] /\ UNCHANGED <<contract, payment>> /\ req[q] = Idle
  BY DEF UpdateRentPaymentRead, Begin
<1> HIDE DEF r
<1>4. LocksExclusive'
  BY <1>2, <1>3 DEF IInv, TypeOK, LocksExclusive, LockedBy, Idle
<1> QED BY <1>1, <1>2, <1>3, <1>4, Requested

LEMMA StatusReadKeeps ==
  ASSUME IInv, NEW q \in Request, NEW i \in PaymentId, NEW s \in PaymentStatus,
         UpdateRentPaymentStatusRead(q, i, s)
  PROVE  IInv'
<1> DEFINE r == [op |-> "status", id |-> i, paid |-> PaidFor(i, s),
                 status |-> StatusOf(payment[i].due, PaidFor(i, s))]
<1>1. payment[i] \in PaymentRow /\ payment[i] # NoRow
  BY DEF IInv, TypeOK, UpdateRentPaymentStatusRead, Live, NoRow
<1>2. PaidFor(i, s) \in Nat
  BY <1>1 DEF PaidFor, PaymentStatus, PaymentRow
<1>3. r \in RequestRow /\ r.op = "status" /\ r.id = i
  BY <1>2 DEF RequestRow, StatusRequest, StatusOf, PaymentStatus
<1>4. req' = [req EXCEPT ![q] = r] /\ UNCHANGED <<contract, payment>> /\ req[q] = Idle
  BY DEF UpdateRentPaymentStatusRead, Begin
<1> HIDE DEF r
<1>5. LocksExclusive'
  BY <1>3, <1>4 DEF IInv, TypeOK, LocksExclusive, LockedBy, Idle
<1> QED BY <1>1, <1>3, <1>4, <1>5, Requested

LEMMA EditCommitKeeps ==
  ASSUME IInv, NEW q \in Request, NEW posted, UpdateRentPaymentCommit(q, posted)
  PROVE  IInv'
<1>1. PICK r \in EditRequest : r = req[q]
  BY Shapes DEF IInv, TypeOK, RequestRow, UpdateRentPaymentCommit
<1>2. PICK i \in PaymentId : i = r.id /\ payment[i] # NoRow
  BY <1>1 DEF IInv, RowsExist, UpdateRentPaymentCommit, EditRequest
<1>3. PICK old \in PaymentRow : old = payment[i]
  BY <1>2 DEF IInv, TypeOK
<1> DEFINE moved == old.contract # r.contract \/ old.month # r.month
           row == [old EXCEPT !.contract = r.contract, !.month = r.month,
                              !.origin = IF moved THEN "HAND" ELSE @,
                              !.due = r.due, !.paid = r.paid, !.status = StatusOf(r.due, r.paid)]
<1>4. /\ row \in PaymentRow /\ row.row = old.row
      /\ row.contract = r.contract /\ row.month = r.month
      /\ row.origin = IF moved THEN "HAND" ELSE old.origin
  BY DEF PaymentRow, EditRequest, Origin, StatusOf, PaymentStatus
<1>5. payment' = [payment EXCEPT ![i] = Booked(row, posted)] /\ Finish(q) /\ UNCHANGED contract
  BY <1>1, <1>2, <1>3 DEF UpdateRentPaymentCommit
<1>6. row.row = "LIVE" /\ row.origin = "LOCKED" => LockedInvoice(i, row.contract, row.month)
  BY <1>3, <1>4 DEF LockedInvoice, Live
<1> HIDE DEF row, moved
<1> QED BY <1>4, <1>5, <1>6, BookedRow, Ends, PaymentStep

LEMMA StatusCommitKeeps ==
  ASSUME IInv, NEW q \in Request, NEW posted, UpdateRentPaymentStatusCommit(q, posted)
  PROVE  IInv'
<1>1. PICK r \in StatusRequest : r = req[q]
  BY Shapes DEF IInv, TypeOK, RequestRow, UpdateRentPaymentStatusCommit
<1>2. PICK i \in PaymentId : i = r.id /\ payment[i] # NoRow
  BY <1>1 DEF IInv, RowsExist, UpdateRentPaymentStatusCommit, StatusRequest
<1>3. PICK old \in PaymentRow : old = payment[i]
  BY <1>2 DEF IInv, TypeOK
<1> DEFINE row == [old EXCEPT !.paid = r.paid, !.status = r.status]
<1>4. /\ row \in PaymentRow /\ row.row = old.row /\ row.origin = old.origin
      /\ row.contract = old.contract /\ row.month = old.month
  BY DEF PaymentRow, StatusRequest
<1>5. payment' = [payment EXCEPT ![i] = Booked(row, posted)] /\ Finish(q) /\ UNCHANGED contract
  BY <1>1, <1>2, <1>3 DEF UpdateRentPaymentStatusCommit
<1>6. row.row = "LIVE" /\ row.origin = "LOCKED" => LockedInvoice(i, row.contract, row.month)
  BY <1>3, <1>4 DEF LockedInvoice, Live
<1> HIDE DEF row
<1> QED BY <1>4, <1>5, <1>6, BookedRow, Ends, PaymentStep

LEMMA AbortKeeps ==
  ASSUME IInv, NEW q \in Request, Abort(q)
  PROVE  IInv'
<1>1. contract' \in [Contract -> ContractState]
  BY DEF Abort, IInv, TypeOK
<1> QED BY <1>1, Ends, Elsewhere DEF Abort

LEMMA Inductive ==
  ASSUME IInv, [Next]_vars
  PROVE  IInv'
<1>1. ASSUME NEW c \in Contract, Activate(c) \/ \E s \in ContractState : Deactivate(c, s)
      PROVE  IInv'
  BY <1>1, ContractKeeps
<1>2. ASSUME NEW i \in PaymentId, NEW c \in Contract, NEW m \in Month, NEW form \in Form,
             NEW posted \in Postings, CreateRentPayment(i, c, m, form, posted)
      PROVE  IInv'
  BY <1>2, CreateKeeps
<1>3. ASSUME NEW i \in PaymentId, DeleteRentPayment(i)
      PROVE  IInv'
  BY <1>3, DeleteKeeps
<1>4. ASSUME NEW q \in Request, NEW m \in Month, GenerateLock(q, m)
      PROVE  IInv'
  BY <1>4, LockKeeps
<1>5. ASSUME NEW q \in Request, GeneratePlan(q)
      PROVE  IInv'
  BY <1>5, PlanKeeps
<1>6. ASSUME NEW q \in Request, NEW posted \in SUBSET Contract,
             NEW new \in Injection(AskedBy(q), Unused), GenerateCommit(q, new, posted)
      PROVE  IInv'
  BY <1>6, CommitKeeps
<1>7. ASSUME NEW q \in Request, NEW i \in PaymentId, NEW c \in Contract, NEW m \in Month,
             NEW form \in Form, NEW given \in BOOLEAN,
             UpdateRentPaymentRead(q, i, c, m, form, given)
      PROVE  IInv'
  BY <1>7, EditReadKeeps
<1>8. ASSUME NEW q \in Request, NEW posted \in Postings, UpdateRentPaymentCommit(q, posted)
      PROVE  IInv'
  BY <1>8, EditCommitKeeps
<1>9. ASSUME NEW q \in Request, NEW i \in PaymentId, NEW s \in PaymentStatus,
             UpdateRentPaymentStatusRead(q, i, s)
      PROVE  IInv'
  BY <1>9, StatusReadKeeps
<1>10. ASSUME NEW q \in Request, NEW posted \in Postings, UpdateRentPaymentStatusCommit(q, posted)
       PROVE  IInv'
  BY <1>10, StatusCommitKeeps
<1>11. ASSUME NEW q \in Request, Abort(q)
       PROVE  IInv'
  BY <1>11, AbortKeeps
<1>12. CASE UNCHANGED vars
  BY <1>12 DEF vars, IInv, TypeOK, LocksExclusive, LockedBy, RowsExist, PlansHold, LockedInvoice,
               InvoicedOnce, SameRent, BooksFollow, Live
<1> QED
  BY <1>1, <1>2, <1>3, <1>4, <1>5, <1>6, <1>7, <1>8, <1>9, <1>10, <1>11, <1>12 DEF Next

LEMMA Always ==
  Spec => []IInv
<1>1. Init => IInv
  BY DEF Init, IInv, TypeOK, LocksExclusive, LockedBy, RowsExist, PlansHold, InvoicedOnce,
         SameRent, BooksFollow, Live, NoRow, Idle, ContractState
<1>2. IInv /\ [Next]_vars => IInv'
  BY Inductive
<1> QED BY <1>1, <1>2, PTL DEF Spec

\* Every row and every request keeps its type.
THEOREM TypeCorrect == Spec => []TypeOK
<1>1. IInv => TypeOK
  BY DEF IInv
<1> QED BY <1>1, Always, PTL

\* However many generators run beside other requests, the invoices they put under the lock
\* of a contract are of different months.
THEOREM RentInvoicedOnce == Spec => []InvoicedOnce
<1>1. IInv => InvoicedOnce
  BY DEF IInv
<1> QED BY <1>1, Always, PTL

\* Cashbook and journal never show an older amount of a live payment.
THEOREM BooksAreCurrent == Spec => []BooksFollow
<1>1. IInv => BooksFollow
  BY DEF IInv
<1> QED BY <1>1, Always, PTL

-----------------------------------------------------------------------------
(* Requests that run one by one.                                           *)

\* At most one request is in flight.
Sole == \A p, q \in Request : req[p] # Idle /\ req[q] # Idle => p = q

SettledRow(row) ==
  /\ row.row = "DELETED" => row.cash = 0 /\ row.invoice = 0 /\ row.receipt = 0
  /\ row.row = "LIVE" => row.status = StatusOf(row.due, row.paid)

\* The payment that a request has read is not deleted, and has the amount due that the
\* status it is to get was found with.
StillSo(r) ==
  /\ r.op \in {"edit", "status"} => Live(r.id)
  /\ r.op = "status" => r.status = StatusOf(payment[r.id].due, r.paid)

AloneFacts == Sole /\ Settled /\ \A q \in Request : StillSo(req[q])

LEMMA StepsAlone ==
  ASSUME MCNext, alone', DOMAIN req' = Request
  PROVE  alone /\ Sole' /\ (req' # req \/ \A q \in Request : req[q] = Idle)
<1>1. alone /\ Cardinality(InFlight') <= 1 /\ (InFlight = {} \/ req' # req)
  BY DEF MCNext
<1>2. IsFiniteSet(InFlight')
  BY ConstantsOK, FS_Subset DEF InFlight
<1>3. Sole'
  BY <1>1, <1>2, AtMostOne DEF Sole, InFlight
<1> QED BY <1>1, <1>3 DEF InFlight

LEMMA RowsSettled ==
  Settled <=> \A i \in PaymentId : SettledRow(payment[i])
BY DEF Settled, SettledRow, Live

\* After a step that leaves no request in flight, or none that was not.
LEMMA AllIdle ==
  ASSUME IInv, AloneFacts, NEW q \in Request, req[q] # Idle, Finish(q)
  PROVE  \A p \in Request : req'[p] = Idle /\ StillSo(req[p])'
<1>1. \A p \in Request : req'[p] = Idle
  BY DEF IInv, TypeOK, AloneFacts, Sole, Finish
<1> QED BY <1>1 DEF StillSo, Idle

\* A request that reads its payment, or that locks or plans.
LEMMA ReadsAlone ==
  ASSUME IInv, AloneFacts, Sole', NEW q \in Request, NEW r, req' = [req EXCEPT ![q] = r],
         r # Idle, UNCHANGED payment, StillSo(r)
  PROVE  AloneFacts'
<1>1. \A p \in Request : p # q => req'[p] = req[p]
  BY DEF IInv, TypeOK
<1>2. req'[q] = r
  BY DEF IInv, TypeOK
<1>3. \A p \in Request : StillSo(req[p])'
  BY <1>1, <1>2 DEF AloneFacts, StillSo, Live
<1>4. Settled'
  BY DEF AloneFacts, Settled, Live
<1> QED BY <1>3, <1>4 DEF AloneFacts

\* A payment is written by the only request.
LEMMA WriteAlone ==
  ASSUME IInv, AloneFacts, Sole', NEW i \in PaymentId, NEW row, SettledRow(row),
         payment' = [payment EXCEPT ![i] = row], \A q \in Request : StillSo(req[q])'
  PROVE  AloneFacts'
<1>1. \A j \in PaymentId : SettledRow(payment'[j])
  BY RowsSettled DEF IInv, TypeOK, AloneFacts
<1>2. Settled'
  BY <1>1 DEF Settled, SettledRow, Live
<1> QED BY <1>2 DEF AloneFacts

LEMMA BookedSettled ==
  ASSUME NEW row \in PaymentRow, NEW posted, row.row = "LIVE", row.status = StatusOf(row.due, row.paid)
  PROVE  SettledRow(Booked(row, posted))
BY DEF Booked, SettledRow, PaymentRow

LEMMA NewStatus ==
  ASSUME NEW c \in Contract, NEW m \in Month, NEW origin \in Origin, NEW due \in Nat, NEW paid \in Nat
  PROVE  /\ PaymentOf(c, m, origin, due, paid).row = "LIVE"
         /\ PaymentOf(c, m, origin, due, paid).status =
              StatusOf(PaymentOf(c, m, origin, due, paid).due, PaymentOf(c, m, origin, due, paid).paid)
BY DEF PaymentOf

LEMMA CreateAlone ==
  ASSUME IInv, AloneFacts, Sole', \A q \in Request : req[q] = Idle,
         NEW i \in PaymentId, NEW c \in Contract, NEW m \in Month, NEW form \in Form, NEW posted,
         CreateRentPayment(i, c, m, form, posted)
  PROVE  AloneFacts'
<1>1. form.due \in Nat /\ form.paid \in Nat /\ "HAND" \in Origin
  BY ConstantsOK DEF Origin
<1>2. PICK row : row = PaymentOf(c, m, "HAND", form.due, form.paid)
  OBVIOUS
<1>3. row \in PaymentRow /\ row.row = "LIVE" /\ row.status = StatusOf(row.due, row.paid)
  BY <1>1, <1>2, NewRow, NewStatus
<1>4. SettledRow(Booked(row, posted)) /\ payment' = [payment EXCEPT ![i] = Booked(row, posted)]
  BY <1>2, <1>3, BookedSettled DEF CreateRentPayment
<1>5. \A q \in Request : StillSo(req[q])'
  BY DEF CreateRentPayment, Slot, StillSo, Idle
<1> QED BY <1>4, <1>5, WriteAlone

LEMMA DeleteAlone ==
  ASSUME IInv, AloneFacts, Sole', \A q \in Request : req[q] = Idle,
         NEW i \in PaymentId, DeleteRentPayment(i)
  PROVE  AloneFacts'
<1>1. PICK row : row = [payment[i] EXCEPT !.row = "DELETED", !.cash = 0, !.invoice = 0, !.receipt = 0]
  OBVIOUS
<1>2. payment[i] \in PaymentRow
  BY DEF IInv, TypeOK, DeleteRentPayment, Live, NoRow
<1>3. SettledRow(row) /\ payment' = [payment EXCEPT ![i] = row]
  BY <1>1, <1>2 DEF DeleteRentPayment, SettledRow, PaymentRow
<1>4. \A q \in Request : StillSo(req[q])'
  BY DEF DeleteRentPayment, Slot, StillSo, Idle
<1> QED BY <1>3, <1>4, WriteAlone

LEMMA EditCommitAlone ==
  ASSUME IInv, AloneFacts, Sole', NEW q \in Request, NEW posted, UpdateRentPaymentCommit(q, posted)
  PROVE  AloneFacts'
<1>1. PICK r \in EditRequest : r = req[q]
  BY Shapes DEF IInv, TypeOK, RequestRow, UpdateRentPaymentCommit
<1>2. PICK i \in PaymentId : i = r.id /\ Live(i) /\ r # Idle
  BY <1>1 DEF AloneFacts, StillSo, UpdateRentPaymentCommit, EditRequest, Idle
<1>3. PICK old \in PaymentRow : old = payment[i] /\ old.row = "LIVE"
  BY <1>2 DEF IInv, TypeOK, Live, NoRow
<1> DEFINE moved == old.contract # r.contract \/ old.month # r.month
           row == [old EXCEPT !.contract = r.contract, !.month = r.month,
                              !.origin = IF moved THEN "HAND" ELSE @,
                              !.due = r.due, !.paid = r.paid, !.status = StatusOf(r.due, r.paid)]
<1>4. row \in PaymentRow /\ row.row = "LIVE" /\ row.status = StatusOf(row.due, row.paid)
  BY <1>3 DEF PaymentRow, EditRequest, Origin, StatusOf, PaymentStatus
<1>5. payment' = [payment EXCEPT ![i] = Booked(row, posted)] /\ Finish(q)
  BY <1>1, <1>2, <1>3 DEF UpdateRentPaymentCommit
<1> HIDE DEF row
<1> QED BY <1>1, <1>2, <1>4, <1>5, BookedSettled, AllIdle, WriteAlone

LEMMA StatusCommitAlone ==
  ASSUME IInv, AloneFacts, Sole', NEW q \in Request, NEW posted,
         UpdateRentPaymentStatusCommit(q, posted)
  PROVE  AloneFacts'
<1>1. PICK r \in StatusRequest : r = req[q]
  BY Shapes DEF IInv, TypeOK, RequestRow, UpdateRentPaymentStatusCommit
<1>2. PICK i \in PaymentId : i = r.id /\ Live(i) /\ r # Idle /\ r.status = StatusOf(payment[i].due, r.paid)
  BY <1>1 DEF AloneFacts, StillSo, UpdateRentPaymentStatusCommit, StatusRequest, Idle
<1>3. PICK old \in PaymentRow : old = payment[i] /\ old.row = "LIVE"
  BY <1>2 DEF IInv, TypeOK, Live, NoRow
<1> DEFINE row == [old EXCEPT !.paid = r.paid, !.status = r.status]
<1>4. row \in PaymentRow /\ row.row = "LIVE" /\ row.status = StatusOf(row.due, row.paid)
  BY <1>2, <1>3 DEF PaymentRow, StatusRequest
<1>5. payment' = [payment EXCEPT ![i] = Booked(row, posted)] /\ Finish(q)
  BY <1>1, <1>2, <1>3 DEF UpdateRentPaymentStatusCommit
<1> HIDE DEF row
<1> QED BY <1>1, <1>2, <1>4, <1>5, BookedSettled, AllIdle, WriteAlone

LEMMA InvoiceSettled ==
  ASSUME IInv, NEW q \in Request, req[q].op = "generate", NEW c \in req[q].ask, NEW posted
  PROVE  SettledRow(Invoice(q, c, posted))
<1>1. req[q] \in GenerateRequest
  BY Shapes DEF IInv, TypeOK, RequestRow
<1>2. c \in Contract /\ req[q].month \in Month /\ MonthlyRent[c] \in Nat
  BY <1>1, ConstantsOK DEF GenerateRequest
<1>3. PICK origin \in Origin : origin = IF c \in req[q].locked THEN "LOCKED" ELSE "UNLOCKED"
  BY DEF Origin
<1>4. PICK row : row = PaymentOf(c, req[q].month, origin, MonthlyRent[c], 0)
  OBVIOUS
<1>5. row \in PaymentRow /\ row.row = "LIVE" /\ row.status = StatusOf(row.due, row.paid)
  BY <1>2, <1>4, NewRow, NewStatus
<1>6. Invoice(q, c, posted) = Booked(row, IF c \in posted THEN {"invoice"} ELSE {})
  BY <1>3, <1>4 DEF Invoice
<1> QED BY <1>5, <1>6, BookedSettled

LEMMA GenerateCommitAlone ==
  ASSUME IInv, AloneFacts, Sole', NEW q \in Request, NEW posted, NEW new,
         GenerateCommit(q, new, posted)
  PROVE  AloneFacts'
<1>1. req[q].op = "generate" /\ req[q] # Idle /\ Finish(q)
  BY DEF GenerateCommit, Idle
<1> DEFINE chosen(i) == CHOOSE c \in req[q].ask : new[c] = i
           added(i) == \E c \in req[q].ask : new[c] = i
<1>2. payment' = [i \in PaymentId |-> IF added(i) THEN Invoice(q, chosen(i), posted) ELSE payment[i]]
  BY DEF GenerateCommit
<1>3. \A i \in PaymentId : added(i) => chosen(i) \in req[q].ask
  OBVIOUS
<1> HIDE DEF chosen, added
<1>4. \A i \in PaymentId : SettledRow(payment'[i])
  BY <1>1, <1>2, <1>3, InvoiceSettled, RowsSettled DEF AloneFacts
<1>5. Settled'
  BY <1>4 DEF Settled, SettledRow, Live
<1> QED BY <1>1, <1>5, AllIdle DEF AloneFacts

LEMMA QuietAlone ==
  ASSUME IInv, AloneFacts, Sole', UNCHANGED payment, \A q \in Request : req'[q] \in {req[q], Idle}
  PROVE  AloneFacts'
<1>1. \A q \in Request : StillSo(req[q])'
  BY DEF AloneFacts, StillSo, Live, Idle
<1>2. Settled'
  BY DEF AloneFacts, Settled, Live
<1> QED BY <1>1, <1>2 DEF AloneFacts

LEMMA HandlersReadAlone ==
  ASSUME IInv, AloneFacts, Sole', NEW q \in Request,
         \/ \E m \in Month : GenerateLock(q, m)
         \/ GeneratePlan(q)
         \/ \E i \in PaymentId, c \in Contract, m \in Month, form \in Form, given \in BOOLEAN :
              UpdateRentPaymentRead(q, i, c, m, form, given)
         \/ \E i \in PaymentId, s \in PaymentStatus : UpdateRentPaymentStatusRead(q, i, s)
  PROVE  AloneFacts'
<1>1. ASSUME NEW m \in Month, GenerateLock(q, m)
      PROVE  AloneFacts'
  <2>1. PICK r : r = [op |-> "generate", stage |-> "locked", month |-> m,
                      locked |-> ActiveContracts, ask |-> {}]
    OBVIOUS
  <2>2. r # Idle /\ StillSo(r)
    BY <2>1 DEF Idle, StillSo
  <2>3. req' = [req EXCEPT ![q] = r] /\ UNCHANGED payment
    BY <1>1, <2>1 DEF GenerateLock, Begin
  <2> QED BY <2>2, <2>3, ReadsAlone
<1>2. ASSUME GeneratePlan(q)
      PROVE  AloneFacts'
  <2>1. PICK ask : req' = [req EXCEPT ![q].stage = "planned", ![q].ask = ask]
    BY <1>2 DEF GeneratePlan
  <2>2. req[q] \in GenerateRequest
    BY <1>2, Shapes DEF IInv, TypeOK, RequestRow, GeneratePlan
  <2>3. PICK r : r = [req[q] EXCEPT !.stage = "planned", !.ask = ask]
    OBVIOUS
  <2>4. r.op = "generate" /\ req' = [req EXCEPT ![q] = r]
    BY <2>1, <2>2, <2>3 DEF GenerateRequest, IInv, TypeOK
  <2>5. r # Idle /\ StillSo(r) /\ UNCHANGED payment
    BY <1>2, <2>4 DEF Idle, StillSo, GeneratePlan
  <2> QED BY <2>4, <2>5, ReadsAlone
<1>3. ASSUME NEW i \in PaymentId, NEW c \in Contract, NEW m \in Month, NEW form \in Form,
             NEW given \in BOOLEAN, UpdateRentPaymentRead(q, i, c, m, form, given)
      PROVE  AloneFacts'
  <2>1. PICK r : r = [op |-> "edit", id |-> i, contract |-> c, month |-> m, due |-> form.due,
                      paid |-> IF given THEN form.paid ELSE payment[i].paid]
    OBVIOUS
  <2>2. r # Idle /\ StillSo(r)
    BY <1>3, <2>1 DEF Idle, StillSo, UpdateRentPaymentRead
  <2>3. req' = [req EXCEPT ![q] = r] /\ UNCHANGED payment
    BY <1>3, <2>1 DEF UpdateRentPaymentRead, Begin
  <2> QED BY <2>2, <2>3, ReadsAlone
<1>4. ASSUME NEW i \in PaymentId, NEW s \in PaymentStatus, UpdateRentPaymentStatusRead(q, i, s)
      PROVE  AloneFacts'
  <2>1. PICK r : r = [op |-> "status", id |-> i, paid |-> PaidFor(i, s),
                      status |-> StatusOf(payment[i].due, PaidFor(i, s))]
    OBVIOUS
  <2>2. r # Idle /\ StillSo(r)
    BY <1>4, <2>1 DEF Idle, StillSo, UpdateRentPaymentStatusRead
  <2>3. req' = [req EXCEPT ![q] = r] /\ UNCHANGED payment
    BY <1>4, <2>1 DEF UpdateRentPaymentStatusRead, Begin
  <2> QED BY <2>2, <2>3, ReadsAlone
<1> QED BY <1>1, <1>2, <1>3, <1>4

LEMMA NextAlone ==
  ASSUME IInv, AloneFacts, Sole', req' # req \/ \A q \in Request : req[q] = Idle, Next
  PROVE  AloneFacts'
<1>1. ASSUME NEW c \in Contract, Activate(c) \/ \E s \in ContractState : Deactivate(c, s)
      PROVE  AloneFacts'
  BY <1>1, QuietAlone DEF Activate, Deactivate, Slot
<1>2. ASSUME NEW i \in PaymentId, NEW c \in Contract, NEW m \in Month, NEW form \in Form,
             NEW posted \in Postings, CreateRentPayment(i, c, m, form, posted)
      PROVE  AloneFacts'
  <2>1. \A q \in Request : req[q] = Idle
    BY <1>2 DEF CreateRentPayment, Slot
  <2> QED BY <1>2, <2>1, CreateAlone
<1>3. ASSUME NEW i \in PaymentId, DeleteRentPayment(i)
      PROVE  AloneFacts'
  <2>1. \A q \in Request : req[q] = Idle
    BY <1>3 DEF DeleteRentPayment, Slot
  <2> QED BY <1>3, <2>1, DeleteAlone
<1>4. ASSUME NEW q \in Request,
             \/ \E m \in Month : GenerateLock(q, m)
             \/ GeneratePlan(q)
             \/ \E i \in PaymentId, c \in Contract, m \in Month, form \in Form, given \in BOOLEAN :
                  UpdateRentPaymentRead(q, i, c, m, form, given)
             \/ \E i \in PaymentId, s \in PaymentStatus : UpdateRentPaymentStatusRead(q, i, s)
      PROVE  AloneFacts'
  BY <1>4, HandlersReadAlone
<1>5. ASSUME NEW q \in Request, NEW posted \in SUBSET Contract,
             NEW new \in Injection(AskedBy(q), Unused), GenerateCommit(q, new, posted)
      PROVE  AloneFacts'
  BY <1>5, GenerateCommitAlone
<1>6. ASSUME NEW q \in Request, NEW posted \in Postings,
             UpdateRentPaymentCommit(q, posted) \/ UpdateRentPaymentStatusCommit(q, posted)
      PROVE  AloneFacts'
  BY <1>6, EditCommitAlone, StatusCommitAlone
<1>7. ASSUME NEW q \in Request, Abort(q)
      PROVE  AloneFacts'
  <2>1. \A p \in Request : req'[p] \in {req[p], Idle}
    BY <1>7 DEF Abort, Finish, IInv, TypeOK
  <2> QED BY <1>7, <2>1, QuietAlone DEF Abort
<1> QED BY <1>1, <1>2, <1>3, <1>4, <1>5, <1>6, <1>7 DEF Next

Alone == alone => AloneFacts

\* One request at a time, a deleted payment has left the cashbook and the journal, and a
\* live one has the status of its amounts (updateRentPayment, updateRentPaymentStatus).
THEOREM PaymentsSettled == MCSpec => []SettledAlone
<1>1. MCSpec => []IInv
  <2>1. MCInit => Init
    BY DEF MCInit
  <2>2. [MCNext]_mcvars => [Next]_vars
    BY DEF MCNext, mcvars, vars
  <2> QED BY <2>1, <2>2, Always, PTL DEF MCSpec, Spec
<1>2. MCInit => Alone
  <2> SUFFICES ASSUME Init PROVE AloneFacts
    BY DEF MCInit, Alone
  <2> QED BY DEF Init, AloneFacts, Sole, Settled, Live, NoRow, StillSo, Idle
<1>3. Alone /\ IInv /\ IInv' /\ [MCNext]_mcvars => Alone'
  <2> SUFFICES ASSUME Alone, IInv, IInv', [MCNext]_mcvars, alone'
               PROVE  AloneFacts'
    BY DEF Alone
  <2>1. CASE MCNext
    <3>1. DOMAIN req' = Request
      BY DEF IInv, TypeOK
    <3>2. alone /\ Sole' /\ (req' # req \/ \A q \in Request : req[q] = Idle)
      BY <2>1, <3>1, StepsAlone
    <3> QED BY <2>1, <3>2, NextAlone DEF Alone, MCNext
  <2>2. CASE UNCHANGED mcvars
    <3>1. AloneFacts /\ UNCHANGED vars
      BY <2>2 DEF mcvars, vars, Alone
    <3> QED BY <3>1, QuietAlone DEF vars, AloneFacts, Sole
  <2> QED BY <2>1, <2>2
<1>4. Alone => SettledAlone
  BY DEF Alone, AloneFacts, SettledAlone
<1> QED BY <1>1, <1>2, <1>3, <1>4, PTL DEF MCSpec
=============================================================================
