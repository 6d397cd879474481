------------------------- MODULE Materials_proofs -------------------------
(***************************************************************************)
(* For any number of documents and concurrent requests: no material is     *)
(* oversold, and an order's goods are taken on stock at most once.         *)
(***************************************************************************)
EXTENDS MCMaterials, Sums

\* A request that claimed an order will move the stock as the statuses it goes between
\* say; a change of status goes to another status.
Intents ==
  \A q \in Request :
    /\ req[q].op = "status" => req[q].to # req[q].seen.status
    /\ req[q].op = "deleteOrder" => req[q].to = req[q].seen.status
    /\ req[q].op \in OrderOps /\ req[q].claimed =>
         req[q].sign = Sign(req[q]) /\ req[q].op # "editOrder"

IInv == TypeOK /\ StockNonNegative /\ ReceivedOnce /\ ClaimsSound /\ Intents

Claimed(q) == req[q].op \in OrderOps /\ req[q].claimed

\* The four parts of the invariant about the claim of one request.
Sound(q) ==
  /\ LiveOrder(req[q].id) /\ order[req[q].id].status = req[q].seen.status
  /\ req[q].onHand + req[q].sign * req[q].line.qty >= 0
  /\ \A p \in Request \ {q} : ~Claims(p, req[q].id)

-----------------------------------------------------------------------------

LEMMA OpsDistinct ==
  /\ \A r \in OrderRequest : r.op \in OrderOps /\ r.op # "idle" /\ r.op \notin SaleOps
  /\ \A r \in SaleRequest : r.op \in SaleOps /\ r.op # "idle" /\ r.op \notin OrderOps
  /\ Idle.op = "idle" /\ Idle.op \notin OrderOps /\ Idle.op \notin SaleOps
  BY DEF OrderRequest, SaleRequest, OrderOps, SaleOps, Idle

\* A request that changes an order is a record of that kind, and so for sales.
LEMMA RequestKinds ==
  ASSUME TypeOK, NEW q \in Request
  PROVE  /\ req[q].op \in OrderOps => req[q] \in OrderRequest /\ req[q].id \in DOMAIN order
         /\ req[q].op \in SaleOps => req[q] \in SaleRequest /\ req[q].id \in DOMAIN sale
  BY OpsDistinct DEF TypeOK, RequestOK

\* Steps that leave the orders alone, and give one request no claim.
LEMMA Elsewhere ==
  ASSUME IInv, NEW q \in Request, TypeOK', StockNonNegative',
         UNCHANGED <<order, receipts>>,
         \A p \in Request : p # q => req'[p] = req[p],
         req'[q].op \in OrderOps => ~req'[q].claimed,
         req'[q].op = "status" => req'[q].to # req'[q].seen.status,
         req'[q].op = "deleteOrder" => req'[q].to = req'[q].seen.status
  PROVE  IInv'
<1>1. ReceivedOnce'
  BY DEF IInv, ReceivedOnce, Received, LiveOrder
<1>2. ClaimsSound'
  BY DEF IInv, ClaimsSound, Claims, LiveOrder
<1>3. Intents'
  BY DEF IInv, Intents, Sign
<1> QED BY <1>1, <1>2, <1>3 DEF IInv

LEMMA CreateOrderKeeps ==
  ASSUME IInv, NEW o \in OrderId, NEW m \in Material, NEW n \in Quantity, CreateOrder(o, m, n)
  PROVE  IInv'
<1> DEFINE row == [status |-> "DRAFT", deleted |-> FALSE, material |-> m, qty |-> n]
<1>1. row \in OrderRow /\ row.status = "DRAFT"
  BY DEF OrderRow, OrderStatus
<1>2. /\ order' = Insert(order, o, row) /\ o \notin DOMAIN order
      /\ UNCHANGED <<stock, sale, owed, due, book, receipts, req>>
  BY DEF CreateOrder, Slot, Exists
<1> HIDE DEF row
<1>3. /\ DOMAIN order' = DOMAIN order \cup {o} /\ order'[o] = row
      /\ \A i \in DOMAIN order : order'[i] = order[i]
  BY <1>2 DEF Insert
<1>4. TypeOK'
  BY <1>1, <1>2, <1>3 DEF IInv, TypeOK, RequestOK
<1>5. StockNonNegative'
  BY <1>2 DEF IInv, StockNonNegative
<1>6. ReceivedOnce'
  BY <1>1, <1>2, <1>3 DEF IInv, ReceivedOnce, Received, LiveOrder
<1>7. ClaimsSound'
  BY <1>2, <1>3 DEF IInv, ClaimsSound, Claims, LiveOrder
<1>8. Intents'
  BY <1>2 DEF IInv, Intents, Sign
<1> QED BY <1>4, <1>5, <1>6, <1>7, <1>8 DEF IInv

LEMMA OrderReadKeeps ==
  ASSUME IInv, NEW q \in Request, NEW o \in OrderId, NEW op \in OrderOps,
         NEW to \in OrderStatus, NEW m \in Material, NEW n \in Quantity,
         OrderRead(q, o, op, to, m, n)
  PROVE  IInv'
<1> DEFINE r == [op |-> op, id |-> o, to |-> to, seen |-> order[o], claimed |-> FALSE,
                 sign |-> 0, onHand |-> 0, line |-> [material |-> m, qty |-> n]]
<1>1. req' = [req EXCEPT ![q] = r] /\ UNCHANGED <<stock, order, sale, owed, due, book, receipts>>
  BY DEF OrderRead, Begin
<1>2. /\ op = "status" => to # order[o].status
      /\ op = "deleteOrder" => to = order[o].status
  BY DEF OrderRead, LiveOrder
<1>3. o \in DOMAIN order /\ order[o] \in OrderRow
  BY DEF OrderRead, LiveOrder, IInv, TypeOK
<1>4. r \in OrderRequest /\ r.id \in DOMAIN order
  BY <1>3 DEF OrderRequest
<1>5. r.claimed = FALSE /\ r.op = op /\ r.to = to /\ r.seen = order[o]
  OBVIOUS
<1> HIDE DEF r
<1>6. /\ DOMAIN req' = Request /\ req'[q] = r
      /\ \A p \in Request : p # q => req'[p] = req[p]
  BY <1>1 DEF IInv, TypeOK
<1>7. TypeOK'
  BY <1>1, <1>4, <1>6 DEF IInv, TypeOK, RequestOK
<1>8. StockNonNegative'
  BY <1>1 DEF IInv, StockNonNegative
<1>9. /\ ~req'[q].claimed /\ (req'[q].op = "status" => req'[q].to # req'[q].seen.status)
      /\ req'[q].op = "deleteOrder" => req'[q].to = req'[q].seen.status
  BY <1>2, <1>5, <1>6
<1>10. UNCHANGED <<order, receipts>>
  BY <1>1
<1> QED BY <1>6, <1>7, <1>8, <1>9, <1>10, Elsewhere

LEMMA OrderClaimKeeps ==
  ASSUME IInv, NEW q \in Request, OrderClaim(q)
  PROVE  IInv'
<1> DEFINE r == req[q]
           line == [material |-> LineOf(r).material, qty |-> LineOf(r).qty]
           new == [r EXCEPT !.claimed = TRUE, !.sign = Sign(r),
                            !.onHand = stock[line.material], !.line = line]
<1>1. /\ r.op \in {"status", "deleteOrder"} /\ ~Locked(r.id)
      /\ LiveOrder(r.id) /\ order[r.id].status = r.seen.status
      /\ stock[line.material] + Sign(r) * line.qty >= 0
      /\ req' = [req EXCEPT ![q] = new]
      /\ UNCHANGED <<stock, order, sale, owed, due, book, receipts>>
  BY DEF OrderClaim, Claimable
<1>2. r \in OrderRequest /\ r.id \in DOMAIN order
  BY <1>1, RequestKinds DEF IInv, OrderOps
<1>3. line \in [material : Material, qty : Quantity]
  BY <1>2 DEF LineOf, IInv, TypeOK, OrderRequest, OrderRow
<1>4. Sign(r) \in {-1, 0, 1}
  BY <1>2 DEF Sign
<1>5. stock[line.material] \in Int
  BY <1>3 DEF IInv, TypeOK
<1> HIDE DEF line
<1>6. new \in OrderRequest
  BY <1>2, <1>3, <1>4, <1>5 DEF OrderRequest
<1>7. /\ new.op = r.op /\ new.id = r.id /\ new.to = r.to /\ new.seen = r.seen
      /\ new.claimed = TRUE /\ new.sign = Sign(r)
      /\ new.onHand = stock[line.material] /\ new.line = line
  BY <1>2 DEF OrderRequest
<1> HIDE DEF r, new
<1>8. /\ DOMAIN req' = Request /\ req'[q] = new
      /\ \A p \in Request : p # q => req'[p] = req[p]
  BY <1>1 DEF IInv, TypeOK
<1>9. TypeOK'
  BY <1>1, <1>2, <1>6, <1>7, <1>8 DEF IInv, TypeOK, RequestOK
<1>10. StockNonNegative' /\ ReceivedOnce'
  BY <1>1 DEF IInv, StockNonNegative, ReceivedOnce, Received, LiveOrder
<1>11. ClaimsSound'
  <2> SUFFICES ASSUME NEW p \in Request, Claimed(p)'
               PROVE  Sound(p)'
    BY DEF ClaimsSound, Claimed, Sound
  <2>1. \A c \in Request : ~Claims(c, r.id)
    BY <1>1 DEF Locked
  <2>2. CASE p = q
    BY <1>1, <1>7, <1>8, <2>1, <2>2 DEF Sound, Claims, LiveOrder
  <2>3. CASE p # q
    <3>1. Claimed(p) /\ Sound(p) /\ req'[p] = req[p]
      BY <1>8, <2>3 DEF IInv, ClaimsSound, Claimed, Sound
    <3>2. req[p].id # r.id
      BY <2>1, <3>1 DEF Claims, Claimed
    <3> QED BY <1>1, <1>7, <1>8, <3>1, <3>2 DEF Sound, Claims, LiveOrder
  <2> QED BY <2>2, <2>3
<1>12. Intents'
  <2>1. Sign(new) = Sign(r)
    BY <1>7 DEF Sign
  <2>2. ASSUME NEW p \in Request
        PROVE  /\ req'[p].op = "status" => req'[p].to # req'[p].seen.status
               /\ req'[p].op = "deleteOrder" => req'[p].to = req'[p].seen.status
               /\ req'[p].op \in OrderOps /\ req'[p].claimed =>
                    req'[p].sign = Sign(req'[p]) /\ req'[p].op # "editOrder"
    <3>1. CASE p = q
      BY <1>1, <1>7, <1>8, <2>1, <3>1 DEF r, IInv, Intents
    <3>2. CASE p # q
      BY <1>8, <3>2 DEF IInv, Intents
    <3> QED BY <3>1, <3>2
  <2> QED BY <2>2 DEF Intents, Sign
<1> QED BY <1>9, <1>10, <1>11, <1>12 DEF IInv

LEMMA OrderCommitKeeps ==
  ASSUME IInv, NEW q \in Request, OrderCommit(q)
  PROVE  IInv'
<1>r. PICK r \in OrderRequest : r = req[q] /\ r.id \in DOMAIN order
  BY RequestKinds DEF OrderCommit, IInv, OrderOps
<1>o. PICK o \in OrderId : o = r.id
  BY <1>r DEF OrderRequest
<1>1. /\ r.op \in {"status", "deleteOrder"} /\ r.claimed /\ Receive(r)
      /\ order' = IF r.op = "status" THEN [order EXCEPT ![o].status = r.to]
                                     ELSE [order EXCEPT ![o].deleted = TRUE]
      /\ owed' = owed + r.sign * r.line.qty
      /\ receipts' = [receipts EXCEPT ![o] = @ + r.sign]
      /\ OrderBook(o, order'[o])
      /\ req' = [req EXCEPT ![q] = Idle] /\ UNCHANGED <<sale, due>>
  BY <1>r, <1>o DEF OrderCommit, Finish
<1>2. /\ o \in DOMAIN order /\ order[o] \in OrderRow
      /\ r.sign \in {-1, 0, 1} /\ r.line.qty \in Nat /\ r.line.material \in Material
      /\ r.onHand \in Int /\ r.to \in OrderStatus
  BY <1>r, <1>o, ConstantsOK DEF IInv, TypeOK, OrderRequest
<1>3. Sound(q) /\ r.sign = Sign(r)
  BY <1>r, <1>1 DEF IInv, ClaimsSound, Intents, OrderOps, Sound
<1>4. r.sign * r.line.qty \in Int /\ r.onHand + r.sign * r.line.qty >= 0
  BY <1>r, <1>2, <1>3 DEF Sound
<1>5. /\ DOMAIN order' = DOMAIN order /\ order'[o] \in OrderRow
      /\ \A i \in DOMAIN order : i # o => order'[i] = order[i]
      /\ r.op = "status" => order'[o].status = r.to /\ order'[o].deleted = order[o].deleted
      /\ r.op # "status" => order'[o].deleted
      /\ order'[o].qty = order[o].qty
  BY <1>1, <1>2 DEF OrderRow
<1>6. /\ DOMAIN req' = Request /\ req'[q] = Idle
      /\ \A p \in Request : p # q => req'[p] = req[p]
  BY <1>1 DEF IInv, TypeOK
<1>7. stock' \in [Material -> Int] /\ StockNonNegative'
  BY <1>1, <1>2, <1>4 DEF Receive, IInv, TypeOK, StockNonNegative
<1>8. receipts' \in [OrderId -> Int] /\ owed' \in Int
  BY <1>1, <1>2, <1>4 DEF IInv, TypeOK
<1>9. book' \in [OrderId \cup SaleId -> Int]
  BY <1>1, <1>2, <1>5, ConstantsOK DEF OrderBook, IInv, TypeOK, OrderRow
<1>10. TypeOK'
  BY <1>1, <1>5, <1>6, <1>7, <1>8, <1>9 DEF IInv, TypeOK, RequestOK
<1>11. ReceivedOnce'
  <2> SUFFICES ASSUME NEW i \in OrderId
               PROVE  receipts'[i] = IF Received(i)' THEN 1 ELSE 0
    BY DEF ReceivedOnce
  <2>1. CASE i # o
    BY <1>1, <1>2, <1>5, <2>1 DEF IInv, TypeOK, ReceivedOnce, Received, LiveOrder
  <2>2. CASE i = o
    <3>1. /\ receipts[o] = (IF r.seen.status = "RECEIVED" THEN 1 ELSE 0)
          /\ ~order[o].deleted
      BY <1>r, <1>o, <1>2, <1>3 DEF IInv, ReceivedOnce, Received, LiveOrder, Sound
    <3>2. receipts'[o] = receipts[o] + Sign(r)
      BY <1>1, <1>2, <1>3 DEF IInv, TypeOK
    <3>3. CASE r.op = "status"
      <4>1. r.to # r.seen.status
        BY <1>r, <3>3 DEF IInv, Intents
      <4>2. Received(o)' <=> r.to = "RECEIVED"
        BY <1>2, <1>5, <3>1, <3>3 DEF Received, LiveOrder
      <4> QED BY <2>2, <3>1, <3>2, <4>1, <4>2 DEF Sign
    <3>4. CASE r.op = "deleteOrder"
      <4>1. r.to = r.seen.status
        BY <1>r, <3>4 DEF IInv, Intents
      <4>2. ~Received(o)'
        BY <1>5, <3>4 DEF Received, LiveOrder
      <4> QED BY <2>2, <3>1, <3>2, <4>1, <4>2 DEF Sign
    <3> QED BY <1>1, <3>3, <3>4
  <2> QED BY <2>1, <2>2
<1>12. ClaimsSound'
  <2> SUFFICES ASSUME NEW p \in Request, Claimed(p)'
               PROVE  Sound(p)'
    BY DEF ClaimsSound, Claimed, Sound
  <2>1. p # q /\ req'[p] = req[p] /\ Claimed(p)
    BY <1>6, OpsDistinct DEF Claimed
  <2>2. Sound(p) /\ req[p].id # o
    BY <1>r, <1>o, <1>3, <2>1 DEF IInv, ClaimsSound, Claimed, Claims, Sound
  <2> QED BY <1>5, <1>6, <2>1, <2>2, OpsDistinct DEF Sound, Claims, LiveOrder
<1>13. Intents'
  BY <1>6, OpsDistinct DEF IInv, Intents, Sign, Idle
<1> QED BY <1>7, <1>10, <1>11, <1>12, <1>13 DEF IInv

LEMMA OrderEditKeeps ==
  ASSUME IInv, NEW q \in Request, OrderEdit(q)
  PROVE  IInv'
<1>r. PICK r \in OrderRequest : r = req[q] /\ r.id \in DOMAIN order
  BY RequestKinds DEF OrderEdit, IInv, OrderOps
<1>o. PICK o \in OrderId : o = r.id
  BY <1>r DEF OrderRequest
<1>1. /\ \A p \in Request : ~Claims(p, o)
      /\ order' = [order EXCEPT ![o].material = r.line.material, ![o].qty = r.line.qty]
      /\ OrderBook(o, order'[o])
      /\ req' = [req EXCEPT ![q] = Idle]
      /\ UNCHANGED <<stock, sale, owed, due, receipts>>
  BY <1>r, <1>o DEF OrderEdit, Finish, Locked
<1>2. /\ o \in DOMAIN order /\ order[o] \in OrderRow
      /\ r.line.qty \in Quantity /\ r.line.material \in Material
  BY <1>r, <1>o DEF IInv, TypeOK, OrderRequest
<1>3. /\ DOMAIN order' = DOMAIN order /\ order'[o] \in OrderRow
      /\ \A i \in DOMAIN order : i # o => order'[i] = order[i]
      /\ order'[o].status = order[o].status /\ order'[o].deleted = order[o].deleted
  BY <1>1, <1>2 DEF OrderRow
<1>4. /\ DOMAIN req' = Request /\ req'[q] = Idle
      /\ \A p \in Request : p # q => req'[p] = req[p]
  BY <1>1 DEF IInv, TypeOK
<1>5. book' \in [OrderId \cup SaleId -> Int]
  BY <1>1, <1>3, ConstantsOK DEF OrderBook, IInv, TypeOK, OrderRow
<1>6. TypeOK'
  BY <1>1, <1>3, <1>4, <1>5 DEF IInv, TypeOK, RequestOK
<1>7. StockNonNegative' /\ ReceivedOnce'
  BY <1>1, <1>3 DEF IInv, StockNonNegative, ReceivedOnce, Received, LiveOrder
<1>8. ClaimsSound'
  BY <1>1, <1>3, <1>4, OpsDistinct DEF IInv, ClaimsSound, Claims, LiveOrder
<1>9. Intents'
  BY <1>4, OpsDistinct DEF IInv, Intents, Sign, Idle
<1> QED BY <1>6, <1>7, <1>8, <1>9 DEF IInv

LEMMA CreateSaleKeeps ==
  ASSUME IInv, NEW s \in SaleId, NEW m \in Material, NEW n \in Quantity,
         NEW paid \in {0} \cup Quantity, CreateSale(s, m, n, paid)
  PROVE  IInv'
<1> DEFINE row == [deleted |-> FALSE, material |-> m, qty |-> n, paid |-> paid]
<1>1. row \in SaleRow /\ n \in Nat /\ paid \in Nat
  BY ConstantsOK DEF SaleRow
<1> HIDE DEF row
<1>2. /\ s \notin DOMAIN sale /\ sale' = Insert(sale, s, row)
      /\ stock[m] >= n /\ stock' = [stock EXCEPT ![m] = @ - n]
      /\ due' = due + n - paid /\ book' = [book EXCEPT ![s] = n]
      /\ UNCHANGED <<order, owed, receipts, req>>
  BY DEF CreateSale, Slot, Exists, Enough, Take, row
<1>3. /\ DOMAIN sale' = DOMAIN sale \cup {s} /\ sale'[s] = row
      /\ \A i \in DOMAIN sale : i # s => sale'[i] = sale[i]
  BY <1>2 DEF Insert
<1>4. stock' \in [Material -> Int] /\ StockNonNegative'
  BY <1>1, <1>2 DEF IInv, TypeOK, StockNonNegative
<1>5. due' \in Int /\ book' \in [OrderId \cup SaleId -> Int]
  BY <1>1, <1>2 DEF IInv, TypeOK
<1>6. TypeOK'
  BY <1>1, <1>2, <1>3, <1>4, <1>5 DEF IInv, TypeOK, RequestOK
<1> QED BY <1>2, <1>4, <1>6 DEF IInv, ReceivedOnce, Received, LiveOrder, ClaimsSound, Claims,
           Intents, Sign

LEMMA SaleReadKeeps ==
  ASSUME IInv, NEW q \in Request, NEW s \in SaleId, NEW op \in SaleOps, NEW m \in Material,
         NEW n \in Quantity, NEW paid \in {0} \cup Quantity, SaleRead(q, s, op, m, n, paid)
  PROVE  IInv'
<1> DEFINE r == [op |-> op, id |-> s, seen |-> sale[s],
                 new |-> [deleted |-> FALSE, material |-> m, qty |-> n, paid |-> paid]]
<1>1. req' = [req EXCEPT ![q] = r] /\ UNCHANGED <<stock, order, sale, owed, due, book, receipts>>
  BY DEF SaleRead, Begin
<1>2. s \in DOMAIN sale /\ sale[s] \in SaleRow
  BY DEF SaleRead, LiveSale, IInv, TypeOK
<1>3. r \in SaleRequest /\ r.id \in DOMAIN sale /\ r.op = op
  BY <1>2, ConstantsOK DEF SaleRequest, SaleRow
<1> HIDE DEF r
<1>4. /\ DOMAIN req' = Request /\ req'[q] = r
      /\ \A p \in Request : p # q => req'[p] = req[p]
  BY <1>1 DEF IInv, TypeOK
<1>5. TypeOK'
  BY <1>1, <1>3, <1>4 DEF IInv, TypeOK, RequestOK
<1>6. StockNonNegative'
  BY <1>1 DEF IInv, StockNonNegative
<1>7. req'[q].op \notin OrderOps /\ req'[q].op # "status" /\ req'[q].op # "deleteOrder"
  BY <1>3, <1>4 DEF SaleOps, OrderOps
<1> QED BY <1>1, <1>4, <1>5, <1>6, <1>7, Elsewhere

\* A request that ends without a change of the orders.
LEMMA EndKeeps ==
  ASSUME IInv, NEW q \in Request, Finish(q), UNCHANGED <<order, receipts>>,
         StockNonNegative', stock' \in [Material -> Int], owed' \in Int, due' \in Int,
         book' \in [OrderId \cup SaleId -> Int], DOMAIN sale' = DOMAIN sale,
         \A s \in DOMAIN sale : sale'[s] \in SaleRow
  PROVE  IInv'
<1>1. /\ DOMAIN req' = Request /\ req'[q] = Idle
      /\ \A p \in Request : p # q => req'[p] = req[p]
  BY DEF Finish, IInv, TypeOK
<1>2. TypeOK'
  BY <1>1 DEF IInv, TypeOK, RequestOK
<1>3. req'[q].op \notin OrderOps /\ req'[q].op # "status" /\ req'[q].op # "deleteOrder"
  BY <1>1 DEF Idle, OrderOps
<1> QED BY <1>1, <1>2, <1>3, Elsewhere

LEMMA SaleEditKeeps ==
  ASSUME IInv, NEW q \in Request, SaleEdit(q)
  PROVE  IInv'
<1>r. PICK r \in SaleRequest : r = req[q] /\ r.id \in DOMAIN sale
  BY RequestKinds DEF SaleEdit, IInv, SaleOps
<1>1. /\ r.seen \in SaleRow /\ r.new \in SaleRow /\ r.id \in SaleId
      /\ r.seen.qty \in Nat /\ r.seen.paid \in Nat /\ r.new.qty \in Nat /\ r.new.paid \in Nat
      /\ r.seen.material \in Material /\ r.new.material \in Material
  BY ConstantsOK DEF SaleRequest, SaleRow
<1> DEFINE back == Restore(stock, r.seen.material, r.seen.qty)
<1>2. /\ back[r.new.material] >= r.new.qty
      /\ stock' = [back EXCEPT ![r.new.material] = @ - r.new.qty]
      /\ sale' = [sale EXCEPT ![r.id] = r.new]
      /\ due' = due - (r.seen.qty - r.seen.paid) + (r.new.qty - r.new.paid)
      /\ book' = [book EXCEPT ![r.id] = r.new.qty]
      /\ Finish(q) /\ UNCHANGED <<order, owed, receipts>>
  BY <1>r DEF SaleEdit, Enough, Take
<1>3. back \in [Material -> Int] /\ \A m \in Material : back[m] >= 0
  BY <1>1 DEF Restore, IInv, TypeOK, StockNonNegative
<1> HIDE DEF back
<1>4. stock' \in [Material -> Int] /\ StockNonNegative'
  BY <1>1, <1>2, <1>3 DEF StockNonNegative
<1>5. due' \in Int /\ owed' \in Int /\ book' \in [OrderId \cup SaleId -> Int]
  BY <1>1, <1>2 DEF IInv, TypeOK
<1>6. DOMAIN sale' = DOMAIN sale /\ \A s \in DOMAIN sale : sale'[s] \in SaleRow
  BY <1>1, <1>2 DEF IInv, TypeOK
<1> QED BY <1>2, <1>4, <1>5, <1>6, EndKeeps

LEMMA SaleDeleteKeeps ==
  ASSUME IInv, NEW q \in Request, SaleDelete(q)
  PROVE  IInv'
<1>r. PICK r \in SaleRequest : r = req[q] /\ r.id \in DOMAIN sale
  BY RequestKinds DEF SaleDelete, IInv, SaleOps
<1>1. /\ r.seen \in SaleRow /\ r.id \in SaleId /\ r.seen.qty \in Nat /\ r.seen.paid \in Nat
      /\ r.seen.material \in Material
  BY ConstantsOK DEF SaleRequest, SaleRow
<1>2. /\ stock' = [stock EXCEPT ![r.seen.material] = @ + r.seen.qty]
      /\ sale' = [sale EXCEPT ![r.id].deleted = TRUE]
      /\ due' = due - (r.seen.qty - r.seen.paid)
      /\ book' = [book EXCEPT ![r.id] = 0]
      /\ Finish(q) /\ UNCHANGED <<order, owed, receipts>>
  BY <1>r DEF SaleDelete, Restore, Removed
<1>3. stock' \in [Material -> Int] /\ StockNonNegative'
  BY <1>1, <1>2 DEF IInv, TypeOK, StockNonNegative
<1>4. due' \in Int /\ owed' \in Int /\ book' \in [OrderId \cup SaleId -> Int]
  BY <1>1, <1>2 DEF IInv, TypeOK
<1>5. DOMAIN sale' = DOMAIN sale /\ \A s \in DOMAIN sale : sale'[s] \in SaleRow
  BY <1>r, <1>1, <1>2 DEF IInv, TypeOK, SaleRow
<1> QED BY <1>2, <1>3, <1>4, <1>5, EndKeeps

LEMMA AbortKeeps ==
  ASSUME IInv, NEW q \in Request, Abort(q)
  PROVE  IInv'
<1>1. Finish(q) /\ UNCHANGED <<stock, order, sale, owed, due, book, receipts>>
  BY DEF Abort
<1>2. \A s \in DOMAIN sale : sale'[s] \in SaleRow
  BY <1>1 DEF IInv, TypeOK
<1> QED BY <1>1, <1>2, EndKeeps DEF IInv, TypeOK, StockNonNegative

-----------------------------------------------------------------------------

LEMMA InitIInv == Init => IInv
<1> SUFFICES ASSUME Init PROVE IInv
  OBVIOUS
<1>1. TypeOK
  BY ConstantsOK DEF Init, TypeOK, RequestOK
<1>2. StockNonNegative
  BY ConstantsOK DEF Init, StockNonNegative
<1>3. ReceivedOnce
  BY DEF Init, ReceivedOnce, Received, LiveOrder
<1>4. ClaimsSound /\ Intents
  BY OpsDistinct DEF Init, ClaimsSound, Intents, Idle
<1> QED BY <1>1, <1>2, <1>3, <1>4 DEF IInv

LEMMA NextIInv == IInv /\ [Next]_vars => IInv'
<1> SUFFICES ASSUME IInv, [Next]_vars PROVE IInv'
  OBVIOUS
<1>1. ASSUME NEW o \in OrderId, NEW m \in Material, NEW n \in Quantity, CreateOrder(o, m, n)
      PROVE  IInv'
  BY <1>1, CreateOrderKeeps
<1>2. ASSUME NEW q \in Request, NEW o \in OrderId, NEW op \in OrderOps, NEW to \in OrderStatus,
             NEW m \in Material, NEW n \in Quantity, OrderRead(q, o, op, to, m, n)
      PROVE  IInv'
  BY <1>2, OrderReadKeeps
<1>3. ASSUME NEW q \in Request, OrderClaim(q) PROVE IInv'
  BY <1>3, OrderClaimKeeps
<1>4. ASSUME NEW q \in Request, OrderCommit(q) PROVE IInv'
  BY <1>4, OrderCommitKeeps
<1>5. ASSUME NEW q \in Request, OrderEdit(q) PROVE IInv'
  BY <1>5, OrderEditKeeps
<1>6. ASSUME NEW s \in SaleId, NEW m \in Material, NEW n \in Quantity,
             NEW paid \in {0} \cup Quantity, CreateSale(s, m, n, paid)
      PROVE  IInv'
  BY <1>6, CreateSaleKeeps
<1>7. ASSUME NEW q \in Request, NEW s \in SaleId, NEW op \in SaleOps, NEW m \in Material,
             NEW n \in Quantity, NEW paid \in {0} \cup Quantity, SaleRead(q, s, op, m, n, paid)
      PROVE  IInv'
  BY <1>7, SaleReadKeeps
<1>8. ASSUME NEW q \in Request, SaleEdit(q) PROVE IInv'
  BY <1>8, SaleEditKeeps
<1>9. ASSUME NEW q \in Request, SaleDelete(q) PROVE IInv'
  BY <1>9, SaleDeleteKeeps
<1>10. ASSUME NEW q \in Request, Abort(q) PROVE IInv'
  BY <1>10, AbortKeeps
<1>11. CASE UNCHANGED vars
  BY <1>11 DEF vars, IInv, TypeOK, RequestOK, StockNonNegative, ReceivedOnce, Received, LiveOrder,
     ClaimsSound, Claims, Intents, Sign
<1> QED
  BY <1>1, <1>2, <1>3, <1>4, <1>5, <1>6, <1>7, <1>8, <1>9, <1>10, <1>11 DEF Next

LEMMA Inductive == Spec => []IInv
BY InitIInv, NextIInv, PTL DEF Spec

\* Every material's stock is non-negative under every interleaving, although a receipt
\* writes a stock it computed from an earlier read (applyPurchaseReceipt).
THEOREM NeverOversold == Spec => []StockNonNegative
<1>1. IInv => StockNonNegative
  BY DEF IInv
<1> QED BY <1>1, Inductive, PTL

\* However many requests change one order, its goods are on stock once when it is RECEIVED
\* and not at all otherwise (updatePurchaseStatus, deletePurchaseOrder).
THEOREM ReceivedAtMostOnce == Spec => []ReceivedOnce
<1>1. IInv => ReceivedOnce
  BY DEF IInv
<1> QED BY <1>1, Inductive, PTL

\* Between the claim and the commit of a request nobody changes what it decided on.
THEOREM ClaimsHold == Spec => []ClaimsSound
<1>1. IInv => ClaimsSound
  BY DEF IInv
<1> QED BY <1>1, Inductive, PTL

\* Every table holds rows of its type, and a request the id of a row of the table it is about.
THEOREM TypeCorrect == Spec => []TypeOK
<1>1. IInv => TypeOK
  BY DEF IInv
<1> QED BY <1>1, Inductive, PTL

-----------------------------------------------------------------------------
(* The cashbook.                                                           *)

\* The form of an edit is of a live sale.
NewLive == \A q \in Request : req[q].op \in SaleOps => ~req[q].new.deleted

Books == BooksMatch /\ NewLive

\* Steps on one order, which is booked, and on one sale.
LEMMA OrderBooked ==
  ASSUME TypeOK, BooksMatch, NEW o \in OrderId, UNCHANGED sale,
         book' = [book EXCEPT ![o] = OrderWorth(o)'],
         \A i \in OrderId \ {o} : OrderWorth(i)' = OrderWorth(i)
  PROVE  BooksMatch'
<1>1. \A i \in OrderId : book'[i] = OrderWorth(i)'
  BY DEF TypeOK, BooksMatch, OrderWorth
<1>2. \A s \in SaleId : book'[s] = book[s] /\ SaleWorth(s)' = SaleWorth(s)
  BY ConstantsOK DEF TypeOK, SaleWorth, LiveSale
<1> QED BY <1>1, <1>2 DEF BooksMatch, OrderWorth, SaleWorth

LEMMA SaleBooked ==
  ASSUME TypeOK, BooksMatch, NEW s \in SaleId, UNCHANGED order,
         book' = [book EXCEPT ![s] = SaleWorth(s)'],
         \A i \in SaleId \ {s} : SaleWorth(i)' = SaleWorth(i)
  PROVE  BooksMatch'
<1>1. \A i \in SaleId : book'[i] = SaleWorth(i)'
  BY DEF TypeOK, BooksMatch, SaleWorth
<1>2. \A o \in OrderId : book'[o] = book[o] /\ OrderWorth(o)' = OrderWorth(o)
  BY ConstantsOK DEF TypeOK, OrderWorth, Received, LiveOrder
<1> QED BY <1>1, <1>2 DEF BooksMatch, OrderWorth, SaleWorth

LEMMA FinishKeepsForms ==
  ASSUME TypeOK, NewLive, NEW q \in Request, Finish(q)
  PROVE  NewLive'
BY OpsDistinct DEF TypeOK, NewLive, Finish

LEMMA CreateOrderBooks ==
  ASSUME TypeOK, Books, NEW o \in OrderId, NEW m \in Material, NEW n \in Quantity,
         CreateOrder(o, m, n)
  PROVE  Books'
<1>1. /\ o \notin DOMAIN order /\ UNCHANGED <<sale, book, req>>
      /\ DOMAIN order' = DOMAIN order \cup {o} /\ order'[o].status = "DRAFT"
      /\ \A i \in DOMAIN order : order'[i] = order[i]
  BY DEF CreateOrder, Slot, Exists, Insert
<1>2. \A i \in OrderId : OrderWorth(i)' = OrderWorth(i)
  BY <1>1 DEF OrderWorth, Received, LiveOrder
<1> QED BY <1>1, <1>2 DEF Books, BooksMatch, NewLive, OrderWorth, SaleWorth, LiveSale

LEMMA OrderCommitBooks ==
  ASSUME TypeOK, Books, NEW q \in Request, OrderCommit(q)
  PROVE  Books'
<1>r. PICK r \in OrderRequest : r = req[q] /\ r.id \in DOMAIN order
  BY RequestKinds DEF OrderCommit, OrderOps
<1>o. PICK o \in OrderId : o = r.id
  BY <1>r DEF OrderRequest
<1>1. /\ order' = IF r.op = "status" THEN [order EXCEPT ![o].status = r.to]
                                     ELSE [order EXCEPT ![o].deleted = TRUE]
      /\ OrderBook(o, order'[o]) /\ Finish(q) /\ UNCHANGED sale
  BY <1>r, <1>o DEF OrderCommit
<1>2. /\ DOMAIN order' = DOMAIN order /\ o \in DOMAIN order
      /\ \A i \in DOMAIN order : i # o => order'[i] = order[i]
  BY <1>r, <1>o, <1>1
<1>3. book' = [book EXCEPT ![o] = OrderWorth(o)']
  BY <1>1, <1>2 DEF OrderBook, OrderWorth, Received, LiveOrder
<1>4. \A i \in OrderId \ {o} : OrderWorth(i)' = OrderWorth(i)
  BY <1>2 DEF OrderWorth, Received, LiveOrder
<1> QED BY <1>1, <1>3, <1>4, OrderBooked, FinishKeepsForms DEF Books

LEMMA OrderEditBooks ==
  ASSUME TypeOK, Books, NEW q \in Request, OrderEdit(q)
  PROVE  Books'
<1>r. PICK r \in OrderRequest : r = req[q] /\ r.id \in DOMAIN order
  BY RequestKinds DEF OrderEdit, OrderOps
<1>o. PICK o \in OrderId : o = r.id
  BY <1>r DEF OrderRequest
<1>1. /\ order' = [order EXCEPT ![o].material = r.line.material, ![o].qty = r.line.qty]
      /\ OrderBook(o, order'[o]) /\ Finish(q) /\ UNCHANGED sale
  BY <1>r, <1>o DEF OrderEdit
<1>2. /\ DOMAIN order' = DOMAIN order /\ o \in DOMAIN order
      /\ \A i \in DOMAIN order : i # o => order'[i] = order[i]
  BY <1>r, <1>o, <1>1
<1>3. book' = [book EXCEPT ![o] = OrderWorth(o)']
  BY <1>1, <1>2 DEF OrderBook, OrderWorth, Received, LiveOrder
<1>4. \A i \in OrderId \ {o} : OrderWorth(i)' = OrderWorth(i)
  BY <1>2 DEF OrderWorth, Received, LiveOrder
<1> QED BY <1>1, <1>3, <1>4, OrderBooked, FinishKeepsForms DEF Books

LEMMA CreateSaleBooks ==
  ASSUME TypeOK, Books, NEW s \in SaleId, NEW m \in Material, NEW n \in Quantity,
         NEW paid \in {0} \cup Quantity, CreateSale(s, m, n, paid)
  PROVE  Books'
<1>1. /\ DOMAIN sale' = DOMAIN sale \cup {s} /\ ~sale'[s].deleted /\ sale'[s].qty = n
      /\ \A i \in DOMAIN sale : i # s => sale'[i] = sale[i]
      /\ book' = [book EXCEPT ![s] = n] /\ UNCHANGED <<order, req>>
  BY DEF CreateSale, Slot, Insert
<1>2. /\ book' = [book EXCEPT ![s] = SaleWorth(s)']
      /\ \A i \in SaleId \ {s} : SaleWorth(i)' = SaleWorth(i)
  BY <1>1 DEF SaleWorth, LiveSale
<1>3. NewLive'
  BY <1>1 DEF Books, NewLive
<1> QED BY <1>1, <1>2, <1>3, SaleBooked DEF Books

LEMMA SaleEditBooks ==
  ASSUME TypeOK, Books, NEW q \in Request, SaleEdit(q)
  PROVE  Books'
<1>r. PICK r \in SaleRequest : r = req[q] /\ r.id \in DOMAIN sale
  BY RequestKinds DEF SaleEdit, SaleOps
<1>s. PICK s \in SaleId : s = r.id
  BY <1>r DEF SaleRequest
<1>1. /\ sale' = [sale EXCEPT ![s] = r.new] /\ book' = [book EXCEPT ![s] = r.new.qty]
      /\ Finish(q) /\ UNCHANGED order
  BY <1>r, <1>s DEF SaleEdit
<1>2. ~r.new.deleted
  BY <1>r DEF Books, NewLive, SaleRequest
<1>3. /\ book' = [book EXCEPT ![s] = SaleWorth(s)']
      /\ \A i \in SaleId \ {s} : SaleWorth(i)' = SaleWorth(i)
  BY <1>r, <1>s, <1>1, <1>2 DEF SaleWorth, LiveSale
<1> QED BY <1>1, <1>3, SaleBooked, FinishKeepsForms DEF Books

LEMMA SaleDeleteBooks ==
  ASSUME TypeOK, Books, NEW q \in Request, SaleDelete(q)
  PROVE  Books'
<1>r. PICK r \in SaleRequest : r = req[q] /\ r.id \in DOMAIN sale
  BY RequestKinds DEF SaleDelete, SaleOps
<1>s. PICK s \in SaleId : s = r.id
  BY <1>r DEF SaleRequest
<1>1. /\ sale' = [sale EXCEPT ![s].deleted = TRUE] /\ book' = [book EXCEPT ![s] = 0]
      /\ Finish(q) /\ UNCHANGED order
  BY <1>r, <1>s DEF SaleDelete, Removed
<1>2. sale'[s].deleted
  BY <1>r, <1>s, <1>1 DEF TypeOK, SaleRow
<1>3. /\ book' = [book EXCEPT ![s] = SaleWorth(s)']
      /\ \A i \in SaleId \ {s} : SaleWorth(i)' = SaleWorth(i)
  BY <1>r, <1>s, <1>1, <1>2 DEF SaleWorth, LiveSale
<1> QED BY <1>1, <1>3, SaleBooked, FinishKeepsForms DEF Books

\* Steps on the requests alone.
LEMMA RequestBooks ==
  ASSUME TypeOK, Books, NEW q \in Request, UNCHANGED <<order, sale, book>>,
         \A p \in Request : p # q => req'[p] = req[p],
         req'[q].op \in SaleOps => ~req'[q].new.deleted
  PROVE  Books'
BY DEF Books, BooksMatch, OrderWorth, SaleWorth, NewLive, Received, LiveOrder, LiveSale

LEMMA OtherBooks ==
  ASSUME TypeOK, Books, NEW q \in Request,
         \/ OrderClaim(q)
         \/ Abort(q)
         \/ \E o \in OrderId, op \in OrderOps, to \in OrderStatus, m \in Material, n \in Quantity :
              OrderRead(q, o, op, to, m, n)
         \/ \E s \in SaleId, op \in SaleOps, m \in Material, n \in Quantity,
               paid \in {0} \cup Quantity : SaleRead(q, s, op, m, n, paid)
  PROVE  Books'
<1>1. /\ UNCHANGED <<order, sale, book>>
      /\ \A p \in Request : p # q => req'[p] = req[p]
  BY DEF OrderClaim, Abort, OrderRead, SaleRead, Begin, Finish, TypeOK
<1>2. req'[q].op \in SaleOps => ~req'[q].new.deleted
  <2>1. CASE OrderClaim(q)
    <3>1. req[q] \in OrderRequest
      BY <2>1, RequestKinds DEF OrderClaim, OrderOps
    <3>2. req'[q].op = req[q].op
      BY <2>1, <3>1 DEF OrderClaim, TypeOK, OrderRequest
    <3> QED BY <3>1, <3>2, OpsDistinct
  <2>2. CASE Abort(q)
    BY <2>2, OpsDistinct DEF Abort, Finish, TypeOK
  <2>3. ASSUME NEW o \in OrderId, NEW op \in OrderOps, NEW to \in OrderStatus,
               NEW m \in Material, NEW n \in Quantity, OrderRead(q, o, op, to, m, n)
        PROVE  req'[q].op \notin SaleOps
    BY <2>3 DEF OrderRead, Begin, TypeOK, OrderOps, SaleOps
  <2>4. ASSUME NEW s \in SaleId, NEW op \in SaleOps, NEW m \in Material, NEW n \in Quantity,
               NEW paid \in {0} \cup Quantity, SaleRead(q, s, op, m, n, paid)
        PROVE  ~req'[q].new.deleted
    BY <2>4 DEF SaleRead, Begin, TypeOK
  <2> QED BY <2>1, <2>2, <2>3, <2>4
<1> QED BY <1>1, <1>2, RequestBooks

LEMMA NextBooks == IInv /\ Books /\ [Next]_vars => Books'
<1> SUFFICES ASSUME TypeOK, Books, [Next]_vars PROVE Books'
  BY DEF IInv
<1>1. ASSUME Next PROVE Books'
  BY <1>1, CreateOrderBooks, OrderCommitBooks, OrderEditBooks, CreateSaleBooks, SaleEditBooks,
     SaleDeleteBooks, OtherBooks DEF Next
<1>2. CASE UNCHANGED vars
  BY <1>2 DEF vars, Books, BooksMatch, OrderWorth, SaleWorth, NewLive, Received, LiveOrder, LiveSale
<1> QED BY <1>1, <1>2

\* The cashbook shows every received order and every live sale with its total, and nothing
\* else, whatever runs at the same time (syncPurchaseLedger, syncSaleLedger).
THEOREM CashbookHolds == Spec => []BooksMatch
<1>1. Init => Books
  BY OpsDistinct DEF Init, Books, BooksMatch, OrderWorth, SaleWorth, NewLive, Received, LiveOrder, LiveSale
<1>2. Books => BooksMatch
  BY DEF Books
<1> QED BY <1>1, <1>2, Inductive, NextBooks, PTL DEF Spec
-----------------------------------------------------------------------------
(* Requests that run one by one.                                           *)

\* At most one request is in flight.
Sole == \A p, q \in Request : req[p] # Idle /\ req[q] # Idle => p = q

Matches == StockMatchesDocuments /\ BalancesMatchDocuments

\* What a request has read is still so.
StillSo(r) ==
  /\ r.op \in OrderOps => LiveOrder(r.id) /\ order[r.id] = r.seen
  /\ r.op = "editOrder" => r.seen.status # "RECEIVED"
  /\ r.op \in OrderOps /\ r.claimed =>
       /\ r.line.material = r.seen.material /\ r.line.qty = r.seen.qty
       /\ r.onHand = stock[r.line.material]
  /\ r.op \in SaleOps => LiveSale(r.id) /\ sale[r.id] = r.seen /\ ~r.new.deleted

AloneFacts == Sole /\ Matches /\ \A q \in Request : StillSo(req[q])

LEMMA StepsAlone ==
  ASSUME MCNext, alone', DOMAIN req' = Request
  PROVE  alone /\ Sole' /\ (req' # req \/ \A q \in Request : req[q] = Idle)
<1>1. alone /\ Cardinality(InFlight') <= 1 /\ (InFlight = {} \/ req' # req)
  BY DEF MCNext
<1>2. IsFiniteSet(InFlight')
  BY ConstantsOK, FS_Subset DEF InFlight
<1>3. Sole'
  BY <1>1, <1>2, AtMostOne DEF Sole, InFlight
<1> QED BY <1>1, <1>3 DEF InFlight

\* What documents amount to are integers.
AmountsOK ==
  /\ \A o \in OrderId, m \in Material : Supplied(o, m) \in Int
  /\ \A s \in SaleId, m \in Material : Sold(s, m) \in Int
  /\ \A o \in OrderId : OrderWorth(o) \in Int
  /\ \A s \in SaleId : Unpaid(s) \in Int

LEMMA RowsCount ==
  /\ \A row \in OrderRow : row.qty \in Int
  /\ \A row \in SaleRow : row.qty \in Int /\ row.paid \in Int /\ row.qty - row.paid \in Int
<1>1. Quantity \subseteq Int
  BY ConstantsOK
<1>2. ASSUME NEW row \in SaleRow
      PROVE  row.qty \in Int /\ row.paid \in Int
  <2>1. row.qty \in Quantity
    BY DEF SaleRow
  <2>2. row.paid \in Nat
    BY DEF SaleRow
  <2>3. row.paid \in Int
    BY <2>2
  <2> QED BY <1>1, <2>1, <2>3, Zenon
<1>3. \A row \in OrderRow : row.qty \in Int
  BY <1>1 DEF OrderRow
<1> QED BY <1>1, <1>2, <1>3

LEMMA Amounts == ASSUME TypeOK PROVE AmountsOK
  BY RowsCount DEF TypeOK, AmountsOK, Supplied, Sold, OrderWorth, Unpaid, Received, LiveOrder,
     LiveSale

LEMMA AmountsNext == ASSUME TypeOK' PROVE AmountsOK'
  BY RowsCount DEF TypeOK, AmountsOK, Supplied, Sold, OrderWorth, Unpaid, Received, LiveOrder,
     LiveSale

\* A sum over documents of which one changes.
LEMMA OneChanges ==
  ASSUME NEW D, IsFiniteSet(D), NEW f, NEW g, NEW d \in D,
         \A x \in D : f[x] \in Int /\ g[x] \in Int, \A x \in D \ {d} : g[x] = f[x]
  PROVE  /\ SumFunctionOnSet(g, D) = SumFunctionOnSet(f, D) - f[d] + g[d]
         /\ SumFunctionOnSet(f, D) \in Int
  BY SumChanges, SumRemoves DEF Integral

\* A step that changes one order, and stock and balance with it.
LEMMA OrderMoves ==
  ASSUME TypeOK, TypeOK', Matches, NEW o \in OrderId, UNCHANGED <<sale, due>>,
         \A i \in OrderId \ {o} : /\ OrderWorth(i)' = OrderWorth(i)
                                  /\ \A m \in Material : Supplied(i, m)' = Supplied(i, m),
         \A m \in Material : stock'[m] = stock[m] - Supplied(o, m) + Supplied(o, m)',
         owed' = owed - OrderWorth(o) + OrderWorth(o)'
  PROVE  Matches'
<1>1. ASSUME NEW m \in Material
      PROVE  stock'[m] = Opening[m]
                         + SumFunctionOnSet([i \in OrderId |-> Supplied(i, m)'], OrderId)
                         - SumFunctionOnSet([s \in SaleId |-> Sold(s, m)'], SaleId)
  <2>1. PICK f : f = [i \in OrderId |-> Supplied(i, m)]
    OBVIOUS
  <2>2. PICK g : g = [i \in OrderId |-> Supplied(i, m)']
    OBVIOUS
  <2>3. PICK h : h = [s \in SaleId |-> Sold(s, m)] /\ h = [s \in SaleId |-> Sold(s, m)']
    BY DEF Sold, LiveSale
  <2>4. /\ \A i \in OrderId : f[i] \in Int /\ g[i] \in Int
        /\ \A s \in SaleId : h[s] \in Int
    BY <2>1, <2>2, <2>3, Amounts, AmountsNext DEF AmountsOK
  <2>5. \A i \in OrderId \ {o} : g[i] = f[i]
    BY <2>1, <2>2
  <2>6. /\ SumFunctionOnSet(g, OrderId) = SumFunctionOnSet(f, OrderId) - f[o] + g[o]
        /\ SumFunctionOnSet(f, OrderId) \in Int
    BY <2>4, <2>5, ConstantsOK, OneChanges
  <2>7. SumFunctionOnSet(h, SaleId) \in Int
    BY <2>4, ConstantsOK, SumRemoves DEF Integral
  <2>8. stock[m] = Opening[m] + SumFunctionOnSet(f, OrderId) - SumFunctionOnSet(h, SaleId)
    BY <2>1, <2>3 DEF Matches, StockMatchesDocuments
  <2>9. /\ stock'[m] = stock[m] - f[o] + g[o] /\ Opening[m] \in Int /\ stock[m] \in Int
        /\ f[o] \in Int /\ g[o] \in Int
    BY <2>1, <2>2, <2>4, ConstantsOK DEF TypeOK
  <2>10. stock'[m] = Opening[m] + SumFunctionOnSet(g, OrderId) - SumFunctionOnSet(h, SaleId)
    BY <2>6, <2>7, <2>8, <2>9
  <2> QED BY <2>2, <2>3, <2>10
<1>2. owed' = SumFunctionOnSet([i \in OrderId |-> OrderWorth(i)'], OrderId)
  <2>1. PICK f : f = [i \in OrderId |-> OrderWorth(i)]
    OBVIOUS
  <2>2. PICK g : g = [i \in OrderId |-> OrderWorth(i)']
    OBVIOUS
  <2>3. \A i \in OrderId : f[i] \in Int /\ g[i] \in Int
    BY <2>1, <2>2, Amounts, AmountsNext DEF AmountsOK
  <2>4. \A i \in OrderId \ {o} : g[i] = f[i]
    BY <2>1, <2>2
  <2>5. SumFunctionOnSet(g, OrderId) = SumFunctionOnSet(f, OrderId) - f[o] + g[o]
    BY <2>3, <2>4, ConstantsOK, OneChanges
  <2>6. owed = SumFunctionOnSet(f, OrderId) /\ owed' = owed - f[o] + g[o]
    BY <2>1, <2>2 DEF Matches, BalancesMatchDocuments
  <2> QED BY <2>2, <2>5, <2>6
<1>3. [s \in SaleId |-> Unpaid(s)'] = [s \in SaleId |-> Unpaid(s)]
  BY DEF Unpaid, LiveSale
<1>4. due' = SumFunctionOnSet([s \in SaleId |-> Unpaid(s)'], SaleId)
  BY <1>3 DEF Matches, BalancesMatchDocuments
<1> QED BY <1>1, <1>2, <1>4 DEF Matches, StockMatchesDocuments, BalancesMatchDocuments

\* A step that changes one sale, and stock and balance with it.
LEMMA SaleMoves ==
  ASSUME TypeOK, TypeOK', Matches, NEW s \in SaleId, UNCHANGED <<order, owed>>,
         \A i \in SaleId \ {s} : /\ Unpaid(i)' = Unpaid(i)
                                 /\ \A m \in Material : Sold(i, m)' = Sold(i, m),
         \A m \in Material : stock'[m] = stock[m] + Sold(s, m) - Sold(s, m)',
         due' = due - Unpaid(s) + Unpaid(s)'
  PROVE  Matches'
<1>1. ASSUME NEW m \in Material
      PROVE  stock'[m] = Opening[m]
                         + SumFunctionOnSet([o \in OrderId |-> Supplied(o, m)'], OrderId)
                         - SumFunctionOnSet([i \in SaleId |-> Sold(i, m)'], SaleId)
  <2>1. PICK f : f = [i \in SaleId |-> Sold(i, m)]
    OBVIOUS
  <2>2. PICK g : g = [i \in SaleId |-> Sold(i, m)']
    OBVIOUS
  <2>3. PICK h : h = [o \in OrderId |-> Supplied(o, m)] /\ h = [o \in OrderId |-> Supplied(o, m)']
    BY DEF Supplied, Received, LiveOrder
  <2>4. /\ \A i \in SaleId : f[i] \in Int /\ g[i] \in Int
        /\ \A o \in OrderId : h[o] \in Int
    BY <2>1, <2>2, <2>3, Amounts, AmountsNext DEF AmountsOK
  <2>5. \A i \in SaleId \ {s} : g[i] = f[i]
    BY <2>1, <2>2
  <2>6. /\ SumFunctionOnSet(g, SaleId) = SumFunctionOnSet(f, SaleId) - f[s] + g[s]
        /\ SumFunctionOnSet(f, SaleId) \in Int
    BY <2>4, <2>5, ConstantsOK, OneChanges
  <2>7. SumFunctionOnSet(h, OrderId) \in Int
    BY <2>4, ConstantsOK, SumRemoves DEF Integral
  <2>8. stock[m] = Opening[m] + SumFunctionOnSet(h, OrderId) - SumFunctionOnSet(f, SaleId)
    BY <2>1, <2>3 DEF Matches, StockMatchesDocuments
  <2>9. /\ stock'[m] = stock[m] + f[s] - g[s] /\ Opening[m] \in Int /\ stock[m] \in Int
        /\ f[s] \in Int /\ g[s] \in Int
    BY <2>1, <2>2, <2>4, ConstantsOK DEF TypeOK
  <2>10. stock'[m] = Opening[m] + SumFunctionOnSet(h, OrderId) - SumFunctionOnSet(g, SaleId)
    BY <2>6, <2>7, <2>8, <2>9
  <2> QED BY <2>2, <2>3, <2>10
<1>2. due' = SumFunctionOnSet([i \in SaleId |-> Unpaid(i)'], SaleId)
  <2>1. PICK f : f = [i \in SaleId |-> Unpaid(i)]
    OBVIOUS
  <2>2. PICK g : g = [i \in SaleId |-> Unpaid(i)']
    OBVIOUS
  <2>3. \A i \in SaleId : f[i] \in Int /\ g[i] \in Int
    BY <2>1, <2>2, Amounts, AmountsNext DEF AmountsOK
  <2>4. \A i \in SaleId \ {s} : g[i] = f[i]
    BY <2>1, <2>2
  <2>5. SumFunctionOnSet(g, SaleId) = SumFunctionOnSet(f, SaleId) - f[s] + g[s]
    BY <2>3, <2>4, ConstantsOK, OneChanges
  <2>6. due = SumFunctionOnSet(f, SaleId) /\ due' = due - f[s] + g[s]
    BY <2>1, <2>2 DEF Matches, BalancesMatchDocuments
  <2> QED BY <2>2, <2>5, <2>6
<1>3. [o \in OrderId |-> OrderWorth(o)'] = [o \in OrderId |-> OrderWorth(o)]
  BY DEF OrderWorth, Received, LiveOrder
<1>4. owed' = SumFunctionOnSet([o \in OrderId |-> OrderWorth(o)'], OrderId)
  BY <1>3 DEF Matches, BalancesMatchDocuments
<1> QED BY <1>1, <1>2, <1>4 DEF Matches, StockMatchesDocuments, BalancesMatchDocuments

\* The only request ends.
LEMMA AllIdle ==
  ASSUME TypeOK, AloneFacts, NEW q \in Request, req[q] # Idle, Finish(q)
  PROVE  \A p \in Request : StillSo(req[p])'
<1>1. \A p \in Request : req'[p] = Idle
  BY DEF TypeOK, AloneFacts, Sole, Finish
<1> QED BY <1>1, OpsDistinct DEF StillSo

LEMMA NoneInFlight ==
  ASSUME \A q \in Request : req[q] = Idle, UNCHANGED req
  PROVE  \A p \in Request : StillSo(req[p])'
BY OpsDistinct DEF StillSo

\* A request that reads or claims.
LEMMA ReadsAlone ==
  ASSUME TypeOK, AloneFacts, Sole', NEW q \in Request, NEW r, req' = [req EXCEPT ![q] = r],
         UNCHANGED <<stock, order, sale, owed, due>>, StillSo(r)
  PROVE  AloneFacts'
<1>1. \A p \in Request : req'[p] = IF p = q THEN r ELSE req[p]
  BY DEF TypeOK
<1>2. \A p \in Request : StillSo(req[p])'
  BY <1>1 DEF AloneFacts, StillSo, LiveOrder, LiveSale
<1>3. Matches'
  BY DEF AloneFacts, Matches, StockMatchesDocuments, BalancesMatchDocuments, OrderWorth, Supplied,
     Sold, Unpaid, Received, LiveOrder, LiveSale
<1> QED BY <1>2, <1>3 DEF AloneFacts

\* Steps that change no stock and nothing that a document amounts to.
LEMMA SameAmounts ==
  ASSUME TypeOK, TypeOK', Matches, NEW o \in OrderId, UNCHANGED <<stock, sale, owed, due>>,
         \A i \in OrderId : /\ OrderWorth(i)' = OrderWorth(i)
                            /\ \A m \in Material : Supplied(i, m)' = Supplied(i, m)
  PROVE  Matches'
<1>1. owed' = owed - OrderWorth(o) + OrderWorth(o)'
  BY Amounts DEF AmountsOK, TypeOK
<1>2. \A m \in Material : stock'[m] = stock[m] - Supplied(o, m) + Supplied(o, m)'
  BY Amounts DEF AmountsOK, TypeOK
<1> QED BY <1>1, <1>2, OrderMoves

LEMMA CreateOrderAlone ==
  ASSUME TypeOK, TypeOK', AloneFacts, Sole', \A q \in Request : req[q] = Idle,
         NEW o \in OrderId, NEW m \in Material, NEW n \in Quantity, CreateOrder(o, m, n)
  PROVE  AloneFacts'
<1>1. /\ o \notin DOMAIN order /\ UNCHANGED <<stock, sale, owed, due, req>>
      /\ DOMAIN order' = DOMAIN order \cup {o} /\ order'[o].status = "DRAFT"
      /\ \A i \in DOMAIN order : order'[i] = order[i]
  BY DEF CreateOrder, Slot, Exists, Insert
<1>2. \A i \in OrderId : /\ OrderWorth(i)' = OrderWorth(i)
                         /\ \A k \in Material : Supplied(i, k)' = Supplied(i, k)
  BY <1>1 DEF OrderWorth, Supplied, Received, LiveOrder
<1>3. Matches'
  BY <1>1, <1>2, SameAmounts DEF AloneFacts
<1> QED BY <1>1, <1>3, NoneInFlight DEF AloneFacts

LEMMA OrderEditAlone ==
  ASSUME TypeOK, TypeOK', AloneFacts, Sole', NEW q \in Request, OrderEdit(q)
  PROVE  AloneFacts'
<1>r. PICK r \in OrderRequest : r = req[q] /\ r.id \in DOMAIN order
  BY RequestKinds DEF OrderEdit, OrderOps
<1>o. PICK o \in OrderId : o = r.id
  BY <1>r DEF OrderRequest
<1>1. /\ order' = [order EXCEPT ![o].material = r.line.material, ![o].qty = r.line.qty]
      /\ Finish(q) /\ UNCHANGED <<stock, sale, owed, due>>
  BY <1>r, <1>o DEF OrderEdit
<1>2. order[o].status # "RECEIVED" /\ o \in DOMAIN order /\ order[o] \in OrderRow
  <2>1. r.op = "editOrder" /\ StillSo(r)
    BY <1>r DEF OrderEdit, AloneFacts
  <2> QED BY <2>1, <1>r, <1>o DEF StillSo, OrderOps, TypeOK
<1>3. /\ DOMAIN order' = DOMAIN order /\ order'[o].status = order[o].status
      /\ \A i \in DOMAIN order : i # o => order'[i] = order[i]
  BY <1>1, <1>2 DEF OrderRow
<1>4. \A i \in OrderId : /\ OrderWorth(i)' = OrderWorth(i)
                         /\ \A k \in Material : Supplied(i, k)' = Supplied(i, k)
  BY <1>2, <1>3 DEF OrderWorth, Supplied, Received, LiveOrder
<1>5. Matches'
  BY <1>1, <1>4, SameAmounts DEF AloneFacts
<1>6. req[q] # Idle
  BY <1>r, OpsDistinct
<1> QED BY <1>1, <1>5, <1>6, AllIdle DEF AloneFacts

\* The goods of an order move by its quantity, in the direction its statuses say.
LEMMA OrderCommitAlone ==
  ASSUME IInv, TypeOK', AloneFacts, Sole', NEW q \in Request, OrderCommit(q)
  PROVE  AloneFacts'
<1>r. PICK r \in OrderRequest : r = req[q] /\ r.id \in DOMAIN order
  BY RequestKinds DEF OrderCommit, IInv, OrderOps
<1>o. PICK o \in OrderId : o = r.id
  BY <1>r DEF OrderRequest
<1>1. /\ r.op \in {"status", "deleteOrder"} /\ r.claimed /\ Receive(r)
      /\ order' = IF r.op = "status" THEN [order EXCEPT ![o].status = r.to]
                                     ELSE [order EXCEPT ![o].deleted = TRUE]
      /\ owed' = owed + r.sign * r.line.qty
      /\ Finish(q) /\ UNCHANGED <<sale, due>>
  BY <1>r, <1>o DEF OrderCommit
<1>2. StillSo(r) /\ r.op \in OrderOps
  BY <1>r, <1>1 DEF AloneFacts, OrderOps
<1>3. /\ o \in DOMAIN order /\ order[o] \in OrderRow /\ order[o] = r.seen /\ ~order[o].deleted
      /\ r.line.material = order[o].material /\ r.line.qty = order[o].qty
      /\ r.onHand = stock[order[o].material]
  BY <1>r, <1>o, <1>1, <1>2 DEF StillSo, LiveOrder, IInv, TypeOK
<1>4. PICK k \in Material : k = order[o].material
  BY <1>3 DEF OrderRow
<1>5. PICK n \in Int : n = order[o].qty
  BY <1>3, RowsCount
<1>6. /\ r.sign = Sign(r)
      /\ r.op = "status" => r.to # r.seen.status
      /\ r.op = "deleteOrder" => r.to = r.seen.status
  BY <1>r, <1>1, <1>2 DEF IInv, Intents
<1>7. /\ DOMAIN order' = DOMAIN order
      /\ \A i \in DOMAIN order : i # o => order'[i] = order[i]
      /\ order'[o].material = k /\ order'[o].qty = n
      /\ r.op = "status" => order'[o].status = r.to /\ ~order'[o].deleted
      /\ r.op # "status" => order'[o].deleted
  BY <1>1, <1>3, <1>4, <1>5 DEF OrderRow
<1>8. /\ OrderWorth(o) = IF r.seen.status = "RECEIVED" THEN n ELSE 0
      /\ OrderWorth(o)' = IF r.op = "status" /\ r.to = "RECEIVED" THEN n ELSE 0
      /\ \A m \in Material : /\ Supplied(o, m) = IF m = k THEN OrderWorth(o) ELSE 0
                             /\ Supplied(o, m)' = IF m = k THEN OrderWorth(o)' ELSE 0
  BY <1>3, <1>4, <1>5, <1>7 DEF OrderWorth, Supplied, Received, LiveOrder
<1>9. PICK d \in Int : /\ d = r.sign * n
                       /\ r.sign = 0 => d = 0
                       /\ d = OrderWorth(o)' - OrderWorth(o)
  <2>1. CASE r.seen.status = "RECEIVED"
    <3>1. r.sign = -1 /\ OrderWorth(o) = n /\ OrderWorth(o)' = 0
      BY <2>1, <1>1, <1>6, <1>8 DEF Sign
    <3>2. (-1) * n = 0 - n /\ 0 - n \in Int
      BY <1>5
    <3>3. r.sign * n = 0 - n
      BY <3>1, <3>2
    <3> QED BY <3>1, <3>2, <3>3, <1>5
  <2>2. CASE r.seen.status # "RECEIVED" /\ r.to = "RECEIVED"
    <3>1. r.sign = 1 /\ OrderWorth(o) = 0 /\ OrderWorth(o)' = n
      BY <2>2, <1>1, <1>6, <1>8 DEF Sign
    <3> QED BY <3>1, <1>5
  <2>3. CASE r.seen.status # "RECEIVED" /\ r.to # "RECEIVED"
    <3>1. r.sign = 0 /\ OrderWorth(o) = 0 /\ OrderWorth(o)' = 0
      BY <2>3, <1>1, <1>6, <1>8 DEF Sign
    <3> QED BY <3>1, <1>5
  <2> QED BY <2>1, <2>2, <2>3
<1>10. owed' = owed - OrderWorth(o) + OrderWorth(o)'
  BY <1>1, <1>3, <1>5, <1>8, <1>9 DEF IInv, TypeOK
<1>11. \A m \in Material : stock'[m] = IF m = k THEN stock[m] + d ELSE stock[m]
  BY <1>1, <1>3, <1>4, <1>5, <1>9 DEF Receive, IInv, TypeOK
<1>12. \A m \in Material : stock'[m] = stock[m] - Supplied(o, m) + Supplied(o, m)'
  BY <1>8, <1>9, <1>11 DEF IInv, TypeOK
<1>13. \A i \in OrderId \ {o} : /\ OrderWorth(i)' = OrderWorth(i)
                                /\ \A m \in Material : Supplied(i, m)' = Supplied(i, m)
  BY <1>7 DEF OrderWorth, Supplied, Received, LiveOrder
<1>14. Matches'
  BY <1>1, <1>10, <1>12, <1>13, OrderMoves DEF AloneFacts, IInv
<1>15. req[q] # Idle
  BY <1>r, OpsDistinct
<1> QED BY <1>1, <1>14, <1>15, AllIdle DEF AloneFacts, IInv

LEMMA CreateSaleAlone ==
  ASSUME TypeOK, TypeOK', AloneFacts, Sole', \A q \in Request : req[q] = Idle,
         NEW s \in SaleId, NEW m \in Material, NEW n \in Quantity,
         NEW paid \in {0} \cup Quantity, CreateSale(s, m, n, paid)
  PROVE  AloneFacts'
<1>0. n \in Int /\ paid \in Int
  BY ConstantsOK
<1>1. /\ s \notin DOMAIN sale /\ UNCHANGED <<order, owed, req>>
      /\ stock' = [stock EXCEPT ![m] = @ - n] /\ due' = due + n - paid
      /\ DOMAIN sale' = DOMAIN sale \cup {s}
      /\ sale'[s] = [deleted |-> FALSE, material |-> m, qty |-> n, paid |-> paid]
      /\ \A i \in DOMAIN sale : sale'[i] = sale[i]
  BY DEF CreateSale, Slot, Exists, Insert, Take
<1>2. /\ Unpaid(s) = 0 /\ Unpaid(s)' = n - paid
      /\ \A k \in Material : Sold(s, k) = 0 /\ Sold(s, k)' = IF k = m THEN n ELSE 0
  BY <1>1 DEF Unpaid, Sold, LiveSale
<1>3. \A i \in SaleId \ {s} : /\ Unpaid(i)' = Unpaid(i)
                              /\ \A k \in Material : Sold(i, k)' = Sold(i, k)
  BY <1>1 DEF Unpaid, Sold, LiveSale
<1>4. due' = due - Unpaid(s) + Unpaid(s)'
  BY <1>0, <1>1, <1>2 DEF TypeOK
<1>5. \A k \in Material : stock'[k] = stock[k] + Sold(s, k) - Sold(s, k)'
  BY <1>0, <1>1, <1>2 DEF TypeOK
<1>6. Matches'
  BY <1>1, <1>3, <1>4, <1>5, SaleMoves DEF AloneFacts
<1> QED BY <1>1, <1>6, NoneInFlight DEF AloneFacts

\* What a request about a sale has read is the sale as it is.
LEMMA SaleSeen ==
  ASSUME TypeOK, AloneFacts, NEW q \in Request, req[q].op \in SaleOps
  PROVE  /\ req[q].id \in SaleId /\ req[q].id \in DOMAIN sale
         /\ req[q].seen = sale[req[q].id] /\ ~req[q].seen.deleted
         /\ req[q].seen \in SaleRow /\ req[q].new \in SaleRow /\ ~req[q].new.deleted
         /\ req[q] # Idle
<1>1. req[q] \in SaleRequest /\ req[q].id \in DOMAIN sale
  BY RequestKinds
<1>2. StillSo(req[q])
  BY DEF AloneFacts
<1> QED BY <1>1, <1>2, OpsDistinct DEF SaleRequest, StillSo, LiveSale

LEMMA SaleEditAlone ==
  ASSUME TypeOK, TypeOK', AloneFacts, Sole', NEW q \in Request, SaleEdit(q)
  PROVE  AloneFacts'
<1>1. PICK s \in SaleId : s = req[q].id
  BY SaleSeen DEF SaleEdit, SaleOps
<1>2. PICK old \in SaleRow : old = req[q].seen
  BY SaleSeen DEF SaleEdit, SaleOps
<1>3. PICK new \in SaleRow : new = req[q].new
  BY SaleSeen DEF SaleEdit, SaleOps
<1>4. s \in DOMAIN sale /\ sale[s] = old /\ ~old.deleted /\ ~new.deleted /\ req[q] # Idle
  BY <1>1, <1>2, <1>3, SaleSeen DEF SaleEdit, SaleOps
<1>5. /\ stock' = Take(Restore(stock, old.material, old.qty), new.material, new.qty)
      /\ sale' = [sale EXCEPT ![s] = new]
      /\ due' = due - (old.qty - old.paid) + (new.qty - new.paid)
      /\ Finish(q) /\ UNCHANGED <<order, owed>>
  BY <1>1, <1>2, <1>3 DEF SaleEdit
<1>6. /\ DOMAIN sale' = DOMAIN sale /\ sale'[s] = new
      /\ \A i \in DOMAIN sale : i # s => sale'[i] = sale[i]
  BY <1>4, <1>5
<1>7. /\ old.qty \in Int /\ old.qty - old.paid \in Int /\ old.material \in Material
      /\ new.qty \in Int /\ new.qty - new.paid \in Int /\ new.material \in Material
  BY RowsCount DEF SaleRow
<1>8. /\ Unpaid(s) = old.qty - old.paid /\ Unpaid(s)' = new.qty - new.paid
      /\ \A k \in Material : /\ Sold(s, k) = IF k = old.material THEN old.qty ELSE 0
                             /\ Sold(s, k)' = IF k = new.material THEN new.qty ELSE 0
  BY <1>4, <1>6 DEF Unpaid, Sold, LiveSale
<1>9. \A i \in SaleId \ {s} : /\ Unpaid(i)' = Unpaid(i)
                              /\ \A k \in Material : Sold(i, k)' = Sold(i, k)
  BY <1>6 DEF Unpaid, Sold, LiveSale
<1>10. due' = due - Unpaid(s) + Unpaid(s)'
  BY <1>5, <1>7, <1>8 DEF TypeOK
<1>11. ASSUME NEW k \in Material
       PROVE  stock'[k] = stock[k] + Sold(s, k) - Sold(s, k)'
  <2>0. Sold(s, k) \in Int /\ Sold(s, k)' \in Int /\ stock[k] \in Int
    BY <1>7, <1>8 DEF TypeOK
  <2>1. PICK level : level = Restore(stock, old.material, old.qty)
    OBVIOUS
  <2>l. level \in [Material -> Int] /\ level[k] = stock[k] + Sold(s, k)
    <3>1. level = [stock EXCEPT ![old.material] = stock[old.material] + old.qty]
      BY <2>1 DEF Restore
    <3> QED BY <3>1, <1>7, <1>8 DEF TypeOK
  <2>2. stock' = [level EXCEPT ![new.material] = @ - new.qty]
    BY <1>5, <2>1 DEF Take
  <2>3. stock'[k] = level[k] - Sold(s, k)'
    BY <1>7, <1>8, <2>l, <2>2
  <2> QED BY <2>0, <2>l, <2>3
<1>12. Matches'
  BY <1>5, <1>9, <1>10, <1>11, SaleMoves DEF AloneFacts
<1> QED BY <1>4, <1>5, <1>12, AllIdle DEF AloneFacts

LEMMA SaleDeleteAlone ==
  ASSUME TypeOK, TypeOK', AloneFacts, Sole', NEW q \in Request, SaleDelete(q)
  PROVE  AloneFacts'
<1>1. PICK s \in SaleId : s = req[q].id
  BY SaleSeen DEF SaleDelete, SaleOps
<1>2. PICK old \in SaleRow : old = req[q].seen
  BY SaleSeen DEF SaleDelete, SaleOps
<1>3. s \in DOMAIN sale /\ sale[s] = old /\ ~old.deleted /\ req[q] # Idle
  BY <1>1, <1>2, SaleSeen DEF SaleDelete, SaleOps
<1>4. /\ stock' = [stock EXCEPT ![old.material] = @ + old.qty]
      /\ sale' = [sale EXCEPT ![s].deleted = TRUE]
      /\ due' = due - (old.qty - old.paid)
      /\ Finish(q) /\ UNCHANGED <<order, owed>>
  BY <1>1, <1>2 DEF SaleDelete, Restore, Removed
<1>5. /\ DOMAIN sale' = DOMAIN sale /\ sale'[s].deleted
      /\ \A i \in DOMAIN sale : i # s => sale'[i] = sale[i]
  BY <1>3, <1>4 DEF SaleRow
<1>6. old.qty \in Int /\ old.qty - old.paid \in Int /\ old.material \in Material
  BY RowsCount DEF SaleRow
<1>7. /\ Unpaid(s) = old.qty - old.paid /\ Unpaid(s)' = 0
      /\ \A k \in Material : /\ Sold(s, k) = IF k = old.material THEN old.qty ELSE 0
                             /\ Sold(s, k)' = 0
  BY <1>3, <1>5 DEF Unpaid, Sold, LiveSale
<1>8. \A i \in SaleId \ {s} : /\ Unpaid(i)' = Unpaid(i)
                              /\ \A k \in Material : Sold(i, k)' = Sold(i, k)
  BY <1>5 DEF Unpaid, Sold, LiveSale
<1>9. due' = due - Unpaid(s) + Unpaid(s)'
  BY <1>4, <1>6, <1>7 DEF TypeOK
<1>10. \A k \in Material : stock'[k] = stock[k] + Sold(s, k) - Sold(s, k)'
  BY <1>4, <1>6, <1>7 DEF TypeOK
<1>11. Matches'
  BY <1>4, <1>8, <1>9, <1>10, SaleMoves DEF AloneFacts
<1> QED BY <1>3, <1>4, <1>11, AllIdle DEF AloneFacts

LEMMA OrderClaimAlone ==
  ASSUME TypeOK, AloneFacts, Sole', NEW q \in Request, OrderClaim(q)
  PROVE  AloneFacts'
<1>r. PICK r \in OrderRequest : r = req[q]
  BY RequestKinds DEF OrderClaim, OrderOps
<1>1. PICK line : line = [material |-> LineOf(r).material, qty |-> LineOf(r).qty]
  OBVIOUS
<1>2. PICK new : new = [r EXCEPT !.claimed = TRUE, !.sign = Sign(r),
                                 !.onHand = stock[line.material], !.line = line]
  OBVIOUS
<1>3. req' = [req EXCEPT ![q] = new] /\ UNCHANGED <<stock, order, sale, owed, due>>
  BY <1>r, <1>1, <1>2 DEF OrderClaim
<1>4. StillSo(r) /\ r.op \in {"status", "deleteOrder"}
  BY <1>r DEF AloneFacts, OrderClaim
<1>5. line.material = r.seen.material /\ line.qty = r.seen.qty
  BY <1>1, <1>4 DEF LineOf, StillSo, OrderOps
<1>6. /\ new.op = r.op /\ new.id = r.id /\ new.seen = r.seen
      /\ new.onHand = stock[line.material] /\ new.line = line
  BY <1>2 DEF OrderRequest
<1>7. StillSo(new)
  BY <1>4, <1>5, <1>6 DEF StillSo, OrderOps, SaleOps
<1> QED BY <1>3, <1>7, ReadsAlone

LEMMA NextAlone ==
  ASSUME IInv, IInv', AloneFacts, Sole', req' # req \/ \A q \in Request : req[q] = Idle, Next
  PROVE  AloneFacts'
<1>0. TypeOK /\ TypeOK'
  BY DEF IInv
<1>1. ASSUME NEW o \in OrderId, NEW m \in Material, NEW n \in Quantity, CreateOrder(o, m, n)
      PROVE  AloneFacts'
  <2>1. \A q \in Request : req[q] = Idle
    BY <1>1 DEF CreateOrder, Slot
  <2> QED BY <1>0, <1>1, <2>1, CreateOrderAlone
<1>2. ASSUME NEW q \in Request, NEW o \in OrderId, NEW op \in OrderOps, NEW to \in OrderStatus,
             NEW m \in Material, NEW n \in Quantity, OrderRead(q, o, op, to, m, n)
      PROVE  AloneFacts'
  <2>1. PICK r : r = [op |-> op, id |-> o, to |-> to, seen |-> order[o], claimed |-> FALSE,
                      sign |-> 0, onHand |-> 0, line |-> [material |-> m, qty |-> n]]
    OBVIOUS
  <2>2. req' = [req EXCEPT ![q] = r] /\ UNCHANGED <<stock, order, sale, owed, due>>
    BY <1>2, <2>1 DEF OrderRead, Begin
  <2>3. StillSo(r)
    BY <1>2, <2>1 DEF OrderRead, StillSo, OrderOps, SaleOps
  <2> QED BY <1>0, <2>2, <2>3, ReadsAlone
<1>3. ASSUME NEW q \in Request, OrderClaim(q) \/ OrderCommit(q) \/ OrderEdit(q)
      PROVE  AloneFacts'
  BY <1>0, <1>3, OrderClaimAlone, OrderCommitAlone, OrderEditAlone
<1>4. ASSUME NEW s \in SaleId, NEW m \in Material, NEW n \in Quantity,
             NEW paid \in {0} \cup Quantity, CreateSale(s, m, n, paid)
      PROVE  AloneFacts'
  <2>1. \A q \in Request : req[q] = Idle
    BY <1>4 DEF CreateSale, Slot
  <2> QED BY <1>0, <1>4, <2>1, CreateSaleAlone
<1>5. ASSUME NEW q \in Request, NEW s \in SaleId, NEW op \in SaleOps, NEW m \in Material,
             NEW n \in Quantity, NEW paid \in {0} \cup Quantity, SaleRead(q, s, op, m, n, paid)
      PROVE  AloneFacts'
  <2>1. PICK r : r = [op |-> op, id |-> s, seen |-> sale[s],
                      new |-> [deleted |-> FALSE, material |-> m, qty |-> n, paid |-> paid]]
    OBVIOUS
  <2>2. req' = [req EXCEPT ![q] = r] /\ UNCHANGED <<stock, order, sale, owed, due>>
    BY <1>5, <2>1 DEF SaleRead, Begin
  <2>3. StillSo(r)
    BY <1>5, <2>1 DEF SaleRead, StillSo, OrderOps, SaleOps
  <2> QED BY <1>0, <2>2, <2>3, ReadsAlone
<1>6. ASSUME NEW q \in Request, SaleEdit(q) \/ SaleDelete(q)
      PROVE  AloneFacts'
  BY <1>0, <1>6, SaleEditAlone, SaleDeleteAlone
<1>7. ASSUME NEW q \in Request, Abort(q)
      PROVE  AloneFacts'
  <2>1. StillSo(Idle)
    BY OpsDistinct DEF StillSo
  <2>2. req' = [req EXCEPT ![q] = Idle] /\ UNCHANGED <<stock, order, sale, owed, due>>
    BY <1>7 DEF Abort, Finish
  <2> QED BY <1>0, <2>1, <2>2, ReadsAlone
<1> QED BY <1>1, <1>2, <1>3, <1>4, <1>5, <1>6, <1>7 DEF Next

Alone == alone => AloneFacts

LEMMA AlonesHold == MCSpec => []Alone
<1>1. MCSpec => []IInv
  <2>1. MCInit => Init
    BY DEF MCInit
  <2>2. [MCNext]_mcvars => [Next]_vars
    BY DEF MCNext, mcvars, vars
  <2> QED BY <2>1, <2>2, Inductive, PTL DEF MCSpec, Spec
<1>2. MCInit => Alone
  <2> SUFFICES ASSUME Init PROVE AloneFacts
    BY DEF MCInit, Alone
  <2>1. Sole /\ \A q \in Request : StillSo(req[q])
    BY OpsDistinct DEF Init, Sole, StillSo
  <2>2. /\ \A o \in OrderId : OrderWorth(o) = 0 /\ \A m \in Material : Supplied(o, m) = 0
        /\ \A s \in SaleId : Unpaid(s) = 0 /\ \A m \in Material : Sold(s, m) = 0
    BY DEF Init, OrderWorth, Supplied, Unpaid, Sold, Received, LiveOrder, LiveSale
  <2>3. /\ SumFunctionOnSet([o \in OrderId |-> 0], OrderId) = 0
        /\ SumFunctionOnSet([s \in SaleId |-> 0], SaleId) = 0
    BY ConstantsOK, SumOfZeros
  <2>4. StockMatchesDocuments
    <3> SUFFICES ASSUME NEW m \in Material
                 PROVE  stock[m] = Opening[m]
                          + SumFunctionOnSet([o \in OrderId |-> Supplied(o, m)], OrderId)
                          - SumFunctionOnSet([s \in SaleId |-> Sold(s, m)], SaleId)
      BY DEF StockMatchesDocuments
    <3>1. /\ [o \in OrderId |-> Supplied(o, m)] = [o \in OrderId |-> 0]
          /\ [s \in SaleId |-> Sold(s, m)] = [s \in SaleId |-> 0]
      BY <2>2
    <3>2. stock[m] = Opening[m] /\ Opening[m] \in Int
      BY ConstantsOK DEF Init
    <3> QED BY <2>3, <3>1, <3>2
  <2>5. BalancesMatchDocuments
    <3>1. /\ [o \in OrderId |-> OrderWorth(o)] = [o \in OrderId |-> 0]
          /\ [s \in SaleId |-> Unpaid(s)] = [s \in SaleId |-> 0]
      BY <2>2
    <3> QED BY <2>3, <3>1 DEF BalancesMatchDocuments, Init
  <2> QED BY <2>1, <2>4, <2>5 DEF AloneFacts, Matches
<1>3. Alone /\ IInv /\ IInv' /\ [MCNext]_mcvars => Alone'
  <2> SUFFICES ASSUME Alone, IInv, IInv', [MCNext]_mcvars, alone'
               PROVE  AloneFacts'
    BY DEF Alone
  <2>1. CASE MCNext
    <3>1. DOMAIN req' = Request
      BY DEF IInv, TypeOK
    <3>2. alone /\ Sole' /\ (req' # req \/ \A q \in Request : req[q] = Idle)
      BY <2>1, <3>1, StepsAlone
    <3> QED BY <2>1, <3>2, NextAlone DEF Alone, MCNext
  <2>2. CASE UNCHANGED mcvars
    <3>1. AloneFacts /\ UNCHANGED <<stock, order, sale, owed, due, req>>
      BY <2>2 DEF mcvars, vars, Alone
    <3>2. Sole' /\ \A q \in Request : StillSo(req[q])'
      BY <3>1 DEF AloneFacts, Sole, StillSo, LiveOrder, LiveSale
    <3>3. Matches'
      BY <3>1 DEF AloneFacts, Matches, StockMatchesDocuments, BalancesMatchDocuments, OrderWorth,
         Supplied, Sold, Unpaid, Received, LiveOrder, LiveSale
    <3> QED BY <3>2, <3>3 DEF AloneFacts
  <2> QED BY <2>1, <2>2
<1> QED BY <1>1, <1>2, <1>3, PTL DEF MCSpec

\* One request at a time, the stock of every material is what was there at first, and the
\* received orders, less the live sales, for any number of documents (applyPurchaseReceipt,
\* applySaleStock, restoreSaleStock and their callers).
THEOREM StockRecomputed == MCSpec => []StockMatchesAlone
<1>1. Alone => StockMatchesAlone
  BY DEF Alone, AloneFacts, Matches, StockMatchesAlone
<1> QED BY <1>1, AlonesHold, PTL

\* One request at a time, the supplier is owed the received orders, and the customer owes what
\* the live sales left unpaid.
THEOREM BalancesRecomputed == MCSpec => []BalancesMatchAlone
<1>1. Alone => BalancesMatchAlone
  BY DEF Alone, AloneFacts, Matches, BalancesMatchAlone
<1> QED BY <1>1, AlonesHold, PTL
=============================================================================
