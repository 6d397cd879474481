----------------------------- MODULE Materials -----------------------------
(***************************************************************************)
(* Stock, purchase orders and sales of one tenant: backend/src/modules/    *)
(* material-management/material-management.service.ts.                     *)
(*                                                                         *)
(* Handlers run as transactions at READ COMMITTED.  A change of an order   *)
(* reads it, claims it (an update that asks for the status it read and     *)
(* holds the row from then on), reads the stock, and writes the stock it   *)
(* computed: three steps.  A change of a sale reads it and then adds to    *)
(* and subtracts from the stock in the database: two steps.                *)
(*                                                                         *)
(* A document has one line, its price is 1 and there is no discount, so    *)
(* its total is its quantity.  All orders are of one supplier and all      *)
(* sales to one customer; opening balances are 0.  Weighted unit costs,    *)
(* transportation and the editing of products, suppliers and customers are *)
(* left out; Journal models the batches that go with the cashbook rows.    *)
(***************************************************************************)
EXTENDS Integers, FiniteSets, Functions

CONSTANTS
  Material, OrderId, SaleId,
  Opening,   \* Opening[m]: the quantity a material is created with
  Quantity,  \* the quantities a line may have
  Capacity,  \* bound: what a Decimal(12, 2) column holds
  Request,   \* bound: the requests in flight at one time
  None

ASSUME ConstantsOK ==
  /\ Opening \in [Material -> 0..Capacity] /\ Capacity \in Nat
  /\ Quantity \subseteq Nat \ {0}
  /\ OrderId \cap SaleId = {}
  /\ IsFiniteSet(OrderId) /\ IsFiniteSet(SaleId) /\ IsFiniteSet(Request)

VARIABLES
  stock,     \* materials.quantity
  order,     \* purchase_orders with their line, by id
  sale,      \* material_sales with their line, by id
  owed,      \* suppliers.balance
  due,       \* material_customers.balance
  book,      \* amounts of the live cashbook rows of an order or a sale
  receipts,  \* history: times an order was received less times it was reverted
  req        \* requests between their first read and their commit

vars == <<stock, order, sale, owed, due, book, receipts, req>>

OrderStatus == {"DRAFT", "ORDERED", "RECEIVED", "CANCELLED"}

Exists(d) == d \in DOMAIN order \/ d \in DOMAIN sale
LiveOrder(o) == o \in DOMAIN order /\ ~order[o].deleted
LiveSale(s) == s \in DOMAIN sale /\ ~sale[s].deleted
Received(o) == LiveOrder(o) /\ order[o].status = "RECEIVED"

\* Put a row into a table.
Insert(table, id, row) == [i \in DOMAIN table \cup {id} |-> IF i = id THEN row ELSE table[i]]

OrderRow == [status : OrderStatus, deleted : BOOLEAN, material : Material, qty : Quantity]
SaleRow == [deleted : BOOLEAN, material : Material, qty : Quantity, paid : Nat]

Idle == [op |-> "idle"]
OrderOps == {"status", "editOrder", "deleteOrder"}
SaleOps == {"editSale", "deleteSale"}

\* Requests in flight: what they read, what they want, and what a claim adds to it.
OrderRequest ==
  [op : OrderOps, id : OrderId, to : OrderStatus, seen : OrderRow, claimed : BOOLEAN,
   sign : {-1, 0, 1}, onHand : Int, line : [material : Material, qty : Quantity]]
SaleRequest == [op : SaleOps, id : SaleId, seen : SaleRow, new : SaleRow]

RequestOK(q) ==
  \/ req[q] = Idle
  \/ req[q] \in OrderRequest /\ req[q].id \in DOMAIN order
  \/ req[q] \in SaleRequest /\ req[q].id \in DOMAIN sale

TypeOK ==
  /\ stock \in [Material -> Int]
  /\ DOMAIN order \subseteq OrderId /\ \A o \in DOMAIN order : order[o] \in OrderRow
  /\ DOMAIN sale \subseteq SaleId /\ \A s \in DOMAIN sale : sale[s] \in SaleRow
  /\ owed \in Int /\ due \in Int
  /\ book \in [OrderId \cup SaleId -> Int]
  /\ receipts \in [OrderId -> Int]
  /\ DOMAIN req = Request /\ \A q \in Request : RequestOK(q)

\* A claim holds the row of the order until the transaction ends.
Claims(q, o) == req[q].op \in OrderOps /\ req[q].claimed /\ req[q].id = o

Locked(o) == \E q \in Request : Claims(q, o)

Init ==
  /\ stock = Opening
  /\ order = [o \in {} |-> None] /\ sale = [s \in {} |-> None]
  /\ owed = 0 /\ due = 0
  /\ book = [d \in OrderId \cup SaleId |-> 0]
  /\ receipts = [o \in OrderId |-> 0]
  /\ req = [q \in Request |-> Idle]

Begin(q, r) == req[q] = Idle /\ req' = [req EXCEPT ![q] = r]
Finish(q) == req' = [req EXCEPT ![q] = Idle]
Slot == (\E q \in Request : req[q] = Idle) /\ UNCHANGED req

Fits(n) == -Capacity <= n /\ n <= Capacity

-----------------------------------------------------------------------------
(* Purchase orders.                                                        *)

CreateOrder(o, m, n) ==
  /\ Slot /\ ~Exists(o)
  /\ order' = Insert(order, o, [status |-> "DRAFT", deleted |-> FALSE, material |-> m, qty |-> n])
  /\ UNCHANGED <<stock, sale, owed, due, book, receipts>>

\* updatePurchaseStatus, updatePurchaseOrder and deletePurchaseOrder read the order.
OrderRead(q, o, op, to, m, n) ==
  /\ LiveOrder(o)
  /\ op = "status" => to # order[o].status
  /\ op = "editOrder" => order[o].status # "RECEIVED"
  /\ op # "status" => to = order[o].status
  /\ op # "editOrder" => m = order[o].material /\ n = order[o].qty
  /\ Begin(q, [op |-> op, id |-> o, to |-> to, seen |-> order[o], claimed |-> FALSE,
               sign |-> 0, onHand |-> 0, line |-> [material |-> m, qty |-> n]])
  /\ UNCHANGED <<stock, order, sale, owed, due, book, receipts>>

\* Faulty variant: the update asks for the id alone.
FaultyClaimable(o, seen) == LiveOrder(o)

\* The update that claims the order finds the status that was read.
Claimable(o, seen) == LiveOrder(o) /\ order[o].status = seen.status

\* What a change of status does to the stock, and with which line: a receipt adds the
\* line as it is now, a reversal takes back the line as it was first read.
Sign(r) ==
  CASE r.seen.status = "RECEIVED"                     -> -1
    [] r.seen.status # "RECEIVED" /\ r.to = "RECEIVED" -> 1
    [] OTHER                                          -> 0

LineOf(r) == IF Sign(r) = -1 THEN r.seen ELSE order[r.id]

\* The claim, and the read of the stock that follows it (applyPurchaseReceipt).
OrderClaim(q) ==
  LET r    == req[q]
      line == [material |-> LineOf(r).material, qty |-> LineOf(r).qty]
  IN
  /\ r.op \in {"status", "deleteOrder"} /\ ~r.claimed
  /\ ~Locked(r.id) /\ Claimable(r.id, r.seen)
  /\ stock[line.material] + Sign(r) * line.qty >= 0
  /\ req' = [req EXCEPT ![q] = [r EXCEPT !.claimed = TRUE, !.sign = Sign(r),
                                         !.onHand = stock[line.material], !.line = line]]
  /\ UNCHANGED <<stock, order, sale, owed, due, book, receipts>>

\* Faulty variant: a reversal adds the goods again.
FaultyReceive(r) ==
  /\ Fits(r.onHand + r.line.qty)
  /\ stock' = IF r.sign = 0 THEN stock
              ELSE [stock EXCEPT ![r.line.material] = r.onHand + r.line.qty]

\* The stock is set to what was computed from the stock that was read.
Receive(r) ==
  /\ Fits(r.onHand + r.sign * r.line.qty)
  /\ stock' = IF r.sign = 0 THEN stock
              ELSE [stock EXCEPT ![r.line.material] = r.onHand + r.sign * r.line.qty]

\* Faulty variant: the row stays when the order is no longer received.
FaultyOrderBook(o, row) ==
  book' = [book EXCEPT ![o] = IF ~row.deleted /\ row.status = "RECEIVED" THEN row.qty ELSE @]

\* syncPurchaseLedger: a received order has a cashbook row of its total.
OrderBook(o, row) ==
  book' = [book EXCEPT ![o] = IF ~row.deleted /\ row.status = "RECEIVED" THEN row.qty ELSE 0]

OrderCommit(q) ==
  LET r == req[q] IN
  /\ r.op \in {"status", "deleteOrder"} /\ r.claimed
  /\ Receive(r)
  /\ order' = IF r.op = "status" THEN [order EXCEPT ![r.id].status = r.to]
                                 ELSE [order EXCEPT ![r.id].deleted = TRUE]
  /\ owed' = owed + r.sign * r.line.qty /\ Fits(owed')
  /\ receipts' = [receipts EXCEPT ![r.id] = @ + r.sign]
  /\ OrderBook(r.id, order'[r.id])
  /\ Finish(q)
  /\ UNCHANGED <<sale, due>>

\* An edit claims the order, too, and replaces its line; no stock moves.
OrderEdit(q) ==
  LET r == req[q] IN
  /\ r.op = "editOrder"
  /\ ~Locked(r.id) /\ Claimable(r.id, r.seen)
  /\ order' = [order EXCEPT ![r.id].material = r.line.material, ![r.id].qty = r.line.qty]
  /\ OrderBook(r.id, order'[r.id])
  /\ Finish(q)
  /\ UNCHANGED <<stock, sale, owed, due, receipts>>

-----------------------------------------------------------------------------
(* Sales.                                                                  *)

\* Faulty variant: the stock is not looked at.
FaultyEnough(level, m, n) == TRUE

\* applySaleStock subtracts in the database, where there is enough.
Enough(level, m, n) == level[m] >= n
Take(level, m, n) == [level EXCEPT ![m] = @ - n]
Restore(level, m, n) == [level EXCEPT ![m] = @ + n]

CreateSale(s, m, n, paid) ==
  /\ Slot /\ ~Exists(s)
  /\ paid <= n
  /\ Enough(stock, m, n)
  /\ stock' = Take(stock, m, n)
  /\ sale' = Insert(sale, s, [deleted |-> FALSE, material |-> m, qty |-> n, paid |-> paid])
  /\ due' = due + n - paid /\ Fits(due')
  /\ book' = [book EXCEPT ![s] = n]
  /\ UNCHANGED <<order, owed, receipts>>

\* updateSale and deleteSale read the sale; an edit brings its new line and payment.
SaleRead(q, s, op, m, n, paid) ==
  /\ LiveSale(s)
  /\ paid <= n
  /\ op = "deleteSale" => m = sale[s].material /\ n = sale[s].qty /\ paid = sale[s].paid
  /\ Begin(q, [op |-> op, id |-> s, seen |-> sale[s],
               new |-> [deleted |-> FALSE, material |-> m, qty |-> n, paid |-> paid]])
  /\ UNCHANGED <<stock, order, sale, owed, due, book, receipts>>

\* updateSale restores the line it read and takes the new one.
SaleEdit(q) ==
  LET r        == req[q]
      restored == Restore(stock, r.seen.material, r.seen.qty)
  IN
  /\ r.op = "editSale" /\ LiveSale(r.id)
  /\ Fits(restored[r.seen.material]) /\ Enough(restored, r.new.material, r.new.qty)
  /\ stock' = Take(restored, r.new.material, r.new.qty)
  /\ sale' = [sale EXCEPT ![r.id] = r.new]
  /\ due' = due - (r.seen.qty - r.seen.paid) + (r.new.qty - r.new.paid) /\ Fits(due')
  /\ book' = [book EXCEPT ![r.id] = r.new.qty]
  /\ Finish(q)
  /\ UNCHANGED <<order, owed, receipts>>

\* Faulty variant: the customer is credited with what was paid, too.
FaultySaleDelete(q) ==
  LET r == req[q] IN
  /\ r.op = "deleteSale" /\ LiveSale(r.id)
  /\ stock' = Restore(stock, r.seen.material, r.seen.qty) /\ Fits(stock'[r.seen.material])
  /\ sale' = [sale EXCEPT ![r.id].deleted = TRUE]
  /\ due' = due - r.seen.qty /\ Fits(due')
  /\ book' = [book EXCEPT ![r.id] = 0]
  /\ Finish(q)
  /\ UNCHANGED <<order, owed, receipts>>

\* Faulty variant: the row is deleted, not marked.
FaultyRemoved(s) == [t \in DOMAIN sale \ {s} |-> sale[t]]

Removed(s) == [sale EXCEPT ![s].deleted = TRUE]

\* deleteSale restores the line it read, provided that the sale is still there.
SaleDelete(q) ==
  LET r == req[q] IN
  /\ r.op = "deleteSale" /\ LiveSale(r.id)
  /\ stock' = Restore(stock, r.seen.material, r.seen.qty) /\ Fits(stock'[r.seen.material])
  /\ sale' = Removed(r.id)
  /\ due' = due - (r.seen.qty - r.seen.paid) /\ Fits(due')
  /\ book' = [book EXCEPT ![r.id] = 0]
  /\ Finish(q)
  /\ UNCHANGED <<order, owed, receipts>>

-----------------------------------------------------------------------------
\* A transaction rolls back: the claim fails, stock is missing, the post is refused.
Abort(q) ==
  /\ req[q] # Idle
  /\ Finish(q)
  /\ UNCHANGED <<stock, order, sale, owed, due, book, receipts>>

Next ==
  \/ \E o \in OrderId, m \in Material, n \in Quantity : CreateOrder(o, m, n)
  \/ \E q \in Request, o \in OrderId, op \in OrderOps, to \in OrderStatus,
        m \in Material, n \in Quantity : OrderRead(q, o, op, to, m, n)
  \/ \E q \in Request : OrderClaim(q)
  \/ \E q \in Request : OrderCommit(q)
  \/ \E q \in Request : OrderEdit(q)
  \/ \E s \in SaleId, m \in Material, n \in Quantity, paid \in {0} \cup Quantity :
        CreateSale(s, m, n, paid)
  \/ \E q \in Request, s \in SaleId, op \in SaleOps, m \in Material, n \in Quantity,
        paid \in {0} \cup Quantity : SaleRead(q, s, op, m, n, paid)
  \/ \E q \in Request : SaleEdit(q)
  \/ \E q \in Request : SaleDelete(q)
  \/ \E q \in Request : Abort(q)

Spec == Init /\ [][Next]_vars

-----------------------------------------------------------------------------
(* What holds under every interleaving.                                    *)

\* No material is oversold, although receipts write a stock computed from an old one.
StockNonNegative == \A m \in Material : stock[m] >= 0

\* An order's goods are on stock once if it is RECEIVED, not at all otherwise ("prevents
\* two requests from receiving the same order twice").
ReceivedOnce == \A o \in OrderId : receipts[o] = IF Received(o) THEN 1 ELSE 0

\* Between its claim and its commit a request owns the order: nobody changes the status
\* it decided on, and the stock it will write is not negative.
ClaimsSound ==
  \A q \in Request : req[q].op \in OrderOps /\ req[q].claimed =>
    /\ LiveOrder(req[q].id) /\ order[req[q].id].status = req[q].seen.status
    /\ req[q].onHand + req[q].sign * req[q].line.qty >= 0
    /\ \A p \in Request \ {q} : ~Claims(p, req[q].id)

\* What a received order and a live sale are worth now.
OrderWorth(o) == IF Received(o) THEN order[o].qty ELSE 0
SaleWorth(s) == IF LiveSale(s) THEN sale[s].qty ELSE 0

\* The cashbook shows every received order and every live sale with what it is worth.
BooksMatch ==
  /\ \A o \in OrderId : book[o] = OrderWorth(o)
  /\ \A s \in SaleId : book[s] = SaleWorth(s)

(* What holds when handlers run one at a time.                             *)

\* What an order brought of a material, and what a sale took of it and left unpaid.
Supplied(o, m) == IF Received(o) /\ order[o].material = m THEN order[o].qty ELSE 0
Sold(s, m) == IF LiveSale(s) /\ sale[s].material = m THEN sale[s].qty ELSE 0
Unpaid(s) == IF LiveSale(s) THEN sale[s].qty - sale[s].paid ELSE 0

\* The stock is the opening stock, plus received orders, less live sales.
StockMatchesDocuments ==
  \A m \in Material :
    stock[m] = Opening[m] + SumFunctionOnSet([o \in OrderId |-> Supplied(o, m)], OrderId)
                          - SumFunctionOnSet([s \in SaleId |-> Sold(s, m)], SaleId)

\* The supplier is owed the received orders, the customer owes what sales left unpaid.
BalancesMatchDocuments ==
  /\ owed = SumFunctionOnSet([o \in OrderId |-> OrderWorth(o)], OrderId)
  /\ due = SumFunctionOnSet([s \in SaleId |-> Unpaid(s)], SaleId)
=============================================================================
