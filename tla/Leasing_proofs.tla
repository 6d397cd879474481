--------------------------- MODULE Leasing_proofs ---------------------------
(***************************************************************************)
(* For any number of properties, leases, deals and concurrent requests:    *)
(* a lease that is created or edited is alone in force on its property,    *)
(* and when requests run one by one the status of every property is the    *)
(* one its leases and deals make of it.                                    *)
(***************************************************************************)
EXTENDS MCLeasing, SequenceTheorems, Sums

\* A deletion that was read means to delete.
DeletionsDelete ==
  \A q \in Request : req[q].op = "delete_lease" => ~req[q].to.live

IInv == TypeOK /\ DeletionsDelete

RequestRow == {Idle} \cup LeaseRequest \cup DealRequest \cup DeleteRequest

-----------------------------------------------------------------------------

LEMMA Shapes ==
  ASSUME NEW r \in RequestRow
  PROVE  /\ r.op \in {"transition", "update_lease", "delete_lease"} => r \in LeaseRequest
         /\ r.op \in {"update_deal", "delete_deal"} => r \in DealRequest
         /\ r.op = "delete_property" => r.id \in Property /\ r.stage = "read"
         /\ r.op = "delete_client" => r.id \in Client /\ r.stage = "read"
  BY DEF RequestRow, Idle, LeaseRequest, DealRequest, DeleteRequest

\* A status that is computed is one of the four, whatever the rows are.
LEMMA StatusTyped ==
  ASSUME NEW leases, NEW deals, NEW p
  PROVE  SyncedStatus(leases, deals, p) \in PropertyStatus
  BY DEF SyncedStatus, DealtStatus, PropertyStatus

\* The status of one or two properties is changed.
LEMMA PropertyStep ==
  ASSUME TypeOK, NEW p, NEW o, NEW s \in PropertyStatus, NEW t \in PropertyStatus,
         property' \in {[property EXCEPT ![p].status = s],
                       [property EXCEPT ![p].status = s, ![o].status = t]}
  PROVE  DOMAIN property' \subseteq Property /\ \A x \in DOMAIN property' : property'[x] \in PropertyRow
  BY DEF TypeOK, PropertyRow

\* Another row for a lease or a deal that may exist or not.
LEMMA RowStep ==
  ASSUME NEW Row, NEW s \in Seq(Row), NEW i, NEW row, i \in DOMAIN s => row \in Row
  PROVE  /\ [s EXCEPT ![i] = row] \in Seq(Row)
         /\ Len([s EXCEPT ![i] = row]) = Len(s)
         /\ DOMAIN [s EXCEPT ![i] = row] = DOMAIN s
<1>1. CASE i \in DOMAIN s
  <2>1. row \in Row
    BY <1>1
  <2> QED BY <1>1, <2>1, ExceptSeq
<1>2. CASE i \notin DOMAIN s
  <2>1. s = [j \in DOMAIN s |-> s[j]]
    BY LenProperties
  <2>2. [s EXCEPT ![i] = row] = s
    BY <1>2, <2>1
  <2> QED BY <2>2
<1> QED BY <1>1, <1>2

\* Every step changes at most one request.
LEMMA RequestStep ==
  ASSUME IInv, NEW q \in Request, NEW r \in RequestRow, req' = [req EXCEPT ![q] = r],
         r.op = "delete_lease" => ~r.to.live
  PROVE  req' \in [Request -> RequestRow] /\ DeletionsDelete'
  BY DEF IInv, TypeOK, DeletionsDelete, RequestRow

LEMMA Finished ==
  ASSUME IInv, NEW q \in Request, Finish(q)
  PROVE  req' \in [Request -> RequestRow] /\ DeletionsDelete'
<1>1. Idle \in RequestRow /\ Idle.op # "delete_lease"
  BY DEF RequestRow, Idle
<1> QED BY <1>1, RequestStep DEF Finish

\* Steps that change one request only.
LEMMA Reads ==
  ASSUME IInv, NEW q \in Request, NEW r \in RequestRow, req' = [req EXCEPT ![q] = r],
         r.op = "delete_lease" => ~r.to.live, UNCHANGED <<property, client, lease, deal>>
  PROVE  IInv'
<1>1. req' \in [Request -> RequestRow] /\ DeletionsDelete'
  BY RequestStep
<1> QED BY <1>1 DEF IInv, TypeOK, RequestRow

\* What a deletion or a transition leaves is another row for its lease.
LEMMA RewrittenLease ==
  ASSUME IInv, NEW q \in Request, Syncing(q, LeaseOps)
  PROVE  /\ Rewritten(q) \in Seq(LeaseRow)
         /\ Len(Rewritten(q)) = Len(lease) /\ DOMAIN Rewritten(q) = DOMAIN lease
         /\ \A c \in DOMAIN lease : c # req[q].id => Rewritten(q)[c] = lease[c]
         /\ req[q].id \in DOMAIN lease /\ req[q].op = "delete_lease" =>
              ~Rewritten(q)[req[q].id].live
<1>1. PICK r \in LeaseRequest : r = req[q]
  BY Shapes DEF IInv, TypeOK, RequestRow, Syncing, LeaseOps
<1> DEFINE row == [lease[r.id] EXCEPT !.status = r.to.status, !.live = @ /\ r.to.live]
<1>2. lease \in Seq(LeaseRow)
  BY DEF IInv, TypeOK
<1>3. lease \in [1..Len(lease) -> LeaseRow] /\ DOMAIN lease = 1..Len(lease)
  BY <1>2, LenProperties
<1>4. r.id \in DOMAIN lease => row \in LeaseRow
  BY <1>1, <1>3 DEF LeaseRequest, LeaseRow
<1>5. Rewritten(q) = [lease EXCEPT ![r.id] = row]
  BY <1>1, <1>3, <1>4 DEF Rewritten, LeaseRow
<1>6. r.id \in DOMAIN lease /\ r.op = "delete_lease" => ~row.live
  BY <1>1, <1>3, <1>4 DEF IInv, DeletionsDelete, LeaseRow, LeaseRequest
<1>7. /\ [lease EXCEPT ![r.id] = row] \in Seq(LeaseRow)
      /\ Len([lease EXCEPT ![r.id] = row]) = Len(lease)
      /\ DOMAIN [lease EXCEPT ![r.id] = row] = DOMAIN lease
  BY <1>2, <1>4, RowStep
<1> HIDE DEF row
<1> QED BY <1>1, <1>3, <1>5, <1>6, <1>7

\* An edit leaves the form in the row of its lease.
LEMMA SavedLease ==
  ASSUME IInv, NEW q \in Request, req[q].op = "update_lease",
         NEW saved,
         saved = [lease EXCEPT ![req[q].id] = [req[q].to EXCEPT !.live = lease[req[q].id].live]]
  PROVE  /\ saved \in Seq(LeaseRow) /\ Len(saved) = Len(lease) /\ DOMAIN saved = DOMAIN lease
         /\ \A c \in DOMAIN lease : c # req[q].id => saved[c] = lease[c]
         /\ req[q].id \in DOMAIN lease =>
              /\ saved[req[q].id].status = req[q].to.status
              /\ saved[req[q].id].property = req[q].to.property
<1>1. PICK r \in LeaseRequest : r = req[q]
  BY Shapes DEF IInv, TypeOK, RequestRow
<1> DEFINE row == [r.to EXCEPT !.live = lease[r.id].live]
<1>2. lease \in Seq(LeaseRow)
  BY DEF IInv, TypeOK
<1>3. lease \in [1..Len(lease) -> LeaseRow] /\ DOMAIN lease = 1..Len(lease)
  BY <1>2, LenProperties
<1>4. r.id \in DOMAIN lease => row \in LeaseRow
  BY <1>1, <1>3 DEF LeaseRequest, LeaseRow
<1>5. row.status = r.to.status /\ row.property = r.to.property
  BY <1>1 DEF LeaseRequest, LeaseRow
<1>6. saved = [lease EXCEPT ![r.id] = row]
  BY <1>1
<1>7. /\ [lease EXCEPT ![r.id] = row] \in Seq(LeaseRow)
      /\ Len([lease EXCEPT ![r.id] = row]) = Len(lease)
      /\ DOMAIN [lease EXCEPT ![r.id] = row] = DOMAIN lease
  BY <1>2, <1>4, RowStep
<1> HIDE DEF row
<1> QED BY <1>1, <1>3, <1>5, <1>6, <1>7

\* What an edit or a deletion leaves is another row for its deal.
LEMMA RewrittenDeals ==
  ASSUME IInv, NEW q \in Request, Syncing(q, DealOps)
  PROVE  RewrittenDeal(q) \in Seq(DealRow) /\ Len(RewrittenDeal(q)) = Len(deal)
<1>1. PICK r \in DealRequest : r = req[q]
  BY Shapes DEF IInv, TypeOK, RequestRow, Syncing, DealOps
<1>2. deal \in Seq(DealRow)
  BY DEF IInv, TypeOK
<1>3. deal \in [1..Len(deal) -> DealRow] /\ DOMAIN deal = 1..Len(deal)
  BY <1>2, LenProperties
<1>4. r.to \in DealRow
  BY <1>1 DEF DealRequest
<1> DEFINE row == [deal[r.id] EXCEPT !.live = FALSE]
<1>5. r.id \in DOMAIN deal => row \in DealRow
  BY <1>3 DEF DealRow
<1>6. RewrittenDeal(q) \in {[deal EXCEPT ![r.id] = r.to], [deal EXCEPT ![r.id] = row]}
  BY <1>1, <1>3 DEF RewrittenDeal
<1>7. /\ [deal EXCEPT ![r.id] = r.to] \in Seq(DealRow)
      /\ Len([deal EXCEPT ![r.id] = r.to]) = Len(deal)
  BY <1>2, <1>4, RowStep
<1>8. /\ [deal EXCEPT ![r.id] = row] \in Seq(DealRow)
      /\ Len([deal EXCEPT ![r.id] = row]) = Len(deal)
  BY <1>2, <1>5, RowStep
<1> QED BY <1>6, <1>7, <1>8

-----------------------------------------------------------------------------
(* Every step keeps the types.                                             *)

LEMMA CreatePropertyTyped ==
  ASSUME IInv, NEW p \in Property, CreateProperty(p)
  PROVE  IInv'
<1>1. DOMAIN property' = DOMAIN property \cup {p}
  BY DEF CreateProperty
<1>2. \A o \in DOMAIN property' : property'[o] \in PropertyRow
  BY DEF CreateProperty, IInv, TypeOK, PropertyRow, PropertyStatus
<1> QED BY <1>1, <1>2 DEF CreateProperty, Slot, IInv, TypeOK, DeletionsDelete

LEMMA CreateTenantTyped ==
  ASSUME IInv, NEW k \in Client, CreateTenant(k)
  PROVE  IInv'
  BY DEF CreateTenant, Slot, IInv, TypeOK, DeletionsDelete

LEMMA DeletePropertyTyped ==
  ASSUME IInv, NEW q \in Request,
         DeletePropertyCommit(q) \/ \E p \in DOMAIN property : DeletePropertyRead(q, p)
  PROVE  IInv'
<1>1. ASSUME NEW p \in DOMAIN property, DeletePropertyRead(q, p)
      PROVE  IInv'
  <2>1. [op |-> "delete_property", stage |-> "read", id |-> p] \in RequestRow
    BY DEF IInv, TypeOK, RequestRow, DeleteRequest
  <2> QED BY <1>1, <2>1, Reads DEF DeletePropertyRead, Begin
<1>2. CASE DeletePropertyCommit(q)
  <2>1. req' \in [Request -> RequestRow] /\ DeletionsDelete'
    BY <1>2, Finished DEF DeletePropertyCommit
  <2>2. DOMAIN property' \subseteq Property /\ \A x \in DOMAIN property' : property'[x] \in PropertyRow
    BY <1>2 DEF DeletePropertyCommit, IInv, TypeOK, PropertyRow
  <2> QED BY <1>2, <2>1, <2>2 DEF DeletePropertyCommit, IInv, TypeOK, RequestRow
<1> QED BY <1>1, <1>2

LEMMA DeleteTenantTyped ==
  ASSUME IInv, NEW q \in Request,
         DeleteTenantCommit(q) \/ \E k \in Client : DeleteTenantRead(q, k)
  PROVE  IInv'
<1>1. ASSUME NEW k \in Client, DeleteTenantRead(q, k)
      PROVE  IInv'
  <2>1. [op |-> "delete_client", stage |-> "read", id |-> k] \in RequestRow
    BY DEF RequestRow, DeleteRequest
  <2> QED BY <1>1, <2>1, Reads DEF DeleteTenantRead, Begin
<1>2. CASE DeleteTenantCommit(q)
  <2>1. req' \in [Request -> RequestRow] /\ DeletionsDelete'
    BY <1>2, Finished DEF DeleteTenantCommit
  <2>2. client' \in [Client -> {"NONE", "LIVE", "DELETED"}]
    BY <1>2 DEF DeleteTenantCommit, IInv, TypeOK
  <2> QED BY <1>2, <2>1, <2>2 DEF DeleteTenantCommit, IInv, TypeOK, RequestRow
<1> QED BY <1>1, <1>2

LEMMA CreateLeaseTyped ==
  ASSUME IInv, NEW p \in Property, NEW k \in Client, CreateRentalContract(p, k)
  PROVE  IInv'
<1> DEFINE row == [live |-> TRUE, status |-> "ACTIVE", property |-> p, client |-> k]
<1>1. row \in LeaseRow
  BY DEF LeaseRow, LeaseStatus, InForce
<1>2. lease \in Seq(LeaseRow) /\ Len(lease) < MaxLease /\ lease' = Append(lease, row)
  BY DEF IInv, TypeOK, CreateRentalContract
<1>3. lease' \in Seq(LeaseRow) /\ Len(lease') = Len(lease) + 1 /\ Len(lease) \in Nat
  BY <1>1, <1>2, AppendProperties, LenProperties
<1>4. "RENTED" \in PropertyStatus /\ property' = [property EXCEPT ![p].status = "RENTED"]
  BY DEF PropertyStatus, CreateRentalContract, SetStatus
<1>5. DOMAIN property' \subseteq Property /\ \A x \in DOMAIN property' : property'[x] \in PropertyRow
  BY <1>4, PropertyStep DEF IInv
<1>6. Len(lease') <= MaxLease
  BY <1>2, <1>3, ConstantsOK
<1> QED BY <1>3, <1>5, <1>6 DEF CreateRentalContract, Slot, IInv, TypeOK, DeletionsDelete

\* The three handlers of an existing lease start alike.
LEMMA LeaseReadTyped ==
  ASSUME IInv, NEW q \in Request, NEW c \in DOMAIN lease,
         NEW op \in {"transition", "update_lease", "delete_lease"}, NEW to \in LeaseRow,
         op = "delete_lease" => ~to.live, LeaseRead(q, op, c, to)
  PROVE  IInv'
<1> DEFINE r == [op |-> op, stage |-> "read", id |-> c, from |-> lease[c].property,
                 to |-> to, status |-> "AVAILABLE"]
<1>1. lease \in Seq(LeaseRow) /\ Len(lease) <= MaxLease
  BY DEF IInv, TypeOK
<1>2. c \in 1..Len(lease) /\ Len(lease) \in Nat
  BY <1>1, LenProperties
<1>3. lease[c] \in LeaseRow
  BY <1>1, <1>2, ElementOfSeq
<1>4. c \in Leases /\ lease[c].property \in Property
  BY <1>1, <1>2, <1>3, ConstantsOK DEF Leases, LeaseRow
<1>5. r \in RequestRow
  BY <1>4 DEF RequestRow, LeaseRequest, PropertyStatus
<1>6. req' = [req EXCEPT ![q] = r] /\ UNCHANGED <<property, client, lease, deal>>
  BY DEF LeaseRead, Begin
<1>7. r.op = "delete_lease" => ~r.to.live
  OBVIOUS
<1> HIDE DEF r
<1> QED BY <1>5, <1>6, <1>7, Reads

LEMMA LeaseReadsTyped ==
  ASSUME IInv, NEW q \in Request, NEW c \in DOMAIN lease,
         \/ \E p \in Property, k \in Client : UpdateRentalContractRead(q, c, p, k)
         \/ \E s \in LeaseStatus : TransitionRead(q, c, s)
         \/ DeleteRentalContractRead(q, c)
  PROVE  IInv'
<1>1. lease[c] \in LeaseRow
  <2>1. lease \in Seq(LeaseRow)
    BY DEF IInv, TypeOK
  <2>2. c \in 1..Len(lease)
    BY <2>1, LenProperties
  <2> QED BY <2>1, <2>2, ElementOfSeq
<1>2. ASSUME NEW p \in Property, NEW k \in Client, UpdateRentalContractRead(q, c, p, k)
      PROVE  IInv'
  <2>1. Edited(lease[c], p, k) \in LeaseRow
    BY <1>1 DEF Edited, LeaseRow
  <2>2. LeaseRead(q, "update_lease", c, Edited(lease[c], p, k))
    BY <1>2 DEF UpdateRentalContractRead
  <2> QED BY <2>1, <2>2, LeaseReadTyped
<1>3. ASSUME NEW s \in LeaseStatus, TransitionRead(q, c, s)
      PROVE  IInv'
  <2>1. [lease[c] EXCEPT !.status = s] \in LeaseRow
    BY <1>1 DEF LeaseRow
  <2>2. LeaseRead(q, "transition", c, [lease[c] EXCEPT !.status = s])
    BY <1>3 DEF TransitionRead
  <2> QED BY <2>1, <2>2, LeaseReadTyped
<1>4. CASE DeleteRentalContractRead(q, c)
  <2> DEFINE to == [lease[c] EXCEPT !.live = FALSE, !.status = "TERMINATED"]
  <2>1. to \in LeaseRow /\ ~to.live
    BY <1>1 DEF LeaseRow, LeaseStatus, InForce
  <2>2. LeaseRead(q, "delete_lease", c, to)
    BY <1>4 DEF DeleteRentalContractRead
  <2> HIDE DEF to
  <2> QED BY <2>1, <2>2, LeaseReadTyped
<1> QED BY <1>2, <1>3, <1>4

LEMMA UpdateLeaseTyped ==
  ASSUME IInv, NEW q \in Request, UpdateRentalContractCommit(q)
  PROVE  IInv'
<1> DEFINE saved == [lease EXCEPT ![req[q].id] = [req[q].to EXCEPT !.live = lease[req[q].id].live]]
           s == SyncedStatus(saved, deal, req[q].from)
           t == SyncedStatus(saved, deal, req[q].to.property)
<1>1. /\ req[q].op = "update_lease" /\ lease' = saved /\ Finish(q) /\ UNCHANGED <<client, deal>>
      /\ property' = [property EXCEPT ![req[q].from].status = s, ![req[q].to.property].status = t]
  BY DEF UpdateRentalContractCommit
<1>2. lease' \in Seq(LeaseRow) /\ Len(lease') = Len(lease)
  BY <1>1, SavedLease
<1>3. s \in PropertyStatus /\ t \in PropertyStatus
  BY StatusTyped
<1> HIDE DEF saved, s, t
<1>4. DOMAIN property' \subseteq Property /\ \A x \in DOMAIN property' : property'[x] \in PropertyRow
  BY <1>1, <1>3, PropertyStep DEF IInv
<1>5. req' \in [Request -> RequestRow] /\ DeletionsDelete'
  BY <1>1, Finished
<1> QED BY <1>1, <1>2, <1>4, <1>5 DEF IInv, TypeOK, RequestRow

\* The row lock is taken and the status is computed, of a lease or of a deal.
LEMMA SyncTyped ==
  ASSUME IInv, NEW q \in Request, LeaseSync(q) \/ DealSync(q)
  PROVE  IInv'
<1>1. PICK s \in PropertyStatus :
        /\ req' = [req EXCEPT ![q] = [@ EXCEPT !.stage = "sync", !.status = s]]
        /\ req[q].op \in LeaseOps \cup DealOps /\ UNCHANGED <<property, client, lease, deal>>
  <2>1. CASE LeaseSync(q)
    BY <2>1, StatusTyped DEF LeaseSync, IInv, TypeOK
  <2>2. CASE DealSync(q)
    BY <2>2, StatusTyped DEF DealSync, IInv, TypeOK
  <2> QED BY <2>1, <2>2
<1>2. PICK r \in LeaseRequest \cup DealRequest : r = req[q]
  BY <1>1, Shapes DEF IInv, TypeOK, RequestRow, LeaseOps, DealOps
<1> DEFINE new == [r EXCEPT !.stage = "sync", !.status = s]
<1>3. new \in RequestRow /\ (new.op = "delete_lease" => ~new.to.live)
  <2>1. r.op = "delete_lease" => ~r.to.live
    BY <1>2 DEF IInv, DeletionsDelete
  <2> QED BY <1>2, <2>1 DEF RequestRow, LeaseRequest, DealRequest
<1>4. req' = [req EXCEPT ![q] = new]
  BY <1>1, <1>2
<1> HIDE DEF new
<1> QED BY <1>1, <1>3, <1>4, Reads

LEMMA LeaseCommitTyped ==
  ASSUME IInv, NEW q \in Request, LeaseCommit(q)
  PROVE  IInv'
<1>1. PICK r \in LeaseRequest : r = req[q]
  BY Shapes DEF IInv, TypeOK, RequestRow, LeaseCommit, Syncing, LeaseOps
<1>2. /\ Syncing(q, LeaseOps) /\ lease' = Rewritten(q) /\ Finish(q) /\ UNCHANGED <<client, deal>>
      /\ property' = [property EXCEPT ![r.from].status = r.status]
  BY <1>1 DEF LeaseCommit, SetStatus
<1>3. lease' \in Seq(LeaseRow) /\ Len(lease') = Len(lease)
  BY <1>2, RewrittenLease
<1>4. r.status \in PropertyStatus
  BY DEF LeaseRequest
<1>5. DOMAIN property' \subseteq Property /\ \A x \in DOMAIN property' : property'[x] \in PropertyRow
  BY <1>2, <1>4, PropertyStep DEF IInv
<1>6. req' \in [Request -> RequestRow] /\ DeletionsDelete'
  BY <1>2, Finished
<1> QED BY <1>2, <1>3, <1>5, <1>6 DEF IInv, TypeOK, RequestRow

LEMMA DealTyped ==
  ASSUME NEW form \in Form, NEW p \in Property, NEW k \in Client
  PROVE  DealOf(form, p, k) \in DealRow
  BY ConstantsOK DEF DealOf, DealRow

LEMMA CreateDealTyped ==
  ASSUME IInv, NEW form \in Form, NEW p \in Property, NEW k \in Client, CreateDeal(form, p, k)
  PROVE  IInv'
<1> DEFINE row == DealOf(form, p, k)
           s == SyncedStatus(lease, Append(deal, row), p)
<1>1. /\ deal \in Seq(DealRow) /\ Len(deal) < MaxDeal /\ deal' = Append(deal, row)
      /\ property' = [property EXCEPT ![p].status = s]
      /\ Slot /\ UNCHANGED <<client, lease>>
  BY DEF IInv, TypeOK, CreateDeal, SetStatus
<1>2. deal' \in Seq(DealRow) /\ Len(deal') = Len(deal) + 1 /\ Len(deal) \in Nat
  BY <1>1, DealTyped, AppendProperties, LenProperties
<1>3. s \in PropertyStatus
  BY StatusTyped
<1> HIDE DEF row, s
<1>4. DOMAIN property' \subseteq Property /\ \A x \in DOMAIN property' : property'[x] \in PropertyRow
  BY <1>1, <1>3, PropertyStep DEF IInv
<1>5. Len(deal') <= MaxDeal
  BY <1>1, <1>2, ConstantsOK
<1> QED BY <1>1, <1>2, <1>4, <1>5 DEF Slot, IInv, TypeOK, DeletionsDelete

LEMMA DealReadTyped ==
  ASSUME IInv, NEW q \in Request, NEW d \in DOMAIN deal,
         NEW op \in {"update_deal", "delete_deal"}, NEW to \in DealRow, DealRead(q, op, d, to)
  PROVE  IInv'
<1> DEFINE r == [op |-> op, stage |-> "read", id |-> d, from |-> deal[d].property,
                 to |-> to, status |-> "AVAILABLE"]
<1>1. deal \in Seq(DealRow) /\ Len(deal) <= MaxDeal
  BY DEF IInv, TypeOK
<1>2. d \in 1..Len(deal) /\ Len(deal) \in Nat
  BY <1>1, LenProperties
<1>3. deal[d] \in DealRow
  BY <1>1, <1>2, ElementOfSeq
<1>4. d \in Deals /\ deal[d].property \in Property
  BY <1>1, <1>2, <1>3, ConstantsOK DEF Deals, DealRow
<1>5. r \in RequestRow /\ r.op # "delete_lease"
  BY <1>4 DEF RequestRow, DealRequest, PropertyStatus
<1>6. req' = [req EXCEPT ![q] = r] /\ UNCHANGED <<property, client, lease, deal>>
  BY DEF DealRead, Begin
<1> HIDE DEF r
<1> QED BY <1>5, <1>6, Reads

LEMMA DealReadsTyped ==
  ASSUME IInv, NEW q \in Request, NEW d \in DOMAIN deal,
         \/ \E form \in Form, p \in Property, k \in Client :
              \E paid \in {form.paid, deal[d].paid} : UpdateDealRead(q, d, form, p, k, paid)
         \/ DeleteDealRead(q, d)
  PROVE  IInv'
<1>1. deal[d] \in DealRow
  <2>1. deal \in Seq(DealRow)
    BY DEF IInv, TypeOK
  <2>2. d \in 1..Len(deal)
    BY <2>1, LenProperties
  <2> QED BY <2>1, <2>2, ElementOfSeq
<1>2. CASE DeleteDealRead(q, d)
  <2>1. [deal[d] EXCEPT !.live = FALSE] \in DealRow
    BY <1>1 DEF DealRow
  <2>2. DealRead(q, "delete_deal", d, [deal[d] EXCEPT !.live = FALSE])
    BY <1>2 DEF DeleteDealRead
  <2> QED BY <2>1, <2>2, DealReadTyped
<1>3. ASSUME NEW form \in Form, NEW p \in Property, NEW k \in Client,
             NEW paid \in {form.paid, deal[d].paid}, UpdateDealRead(q, d, form, p, k, paid)
      PROVE  IInv'
  <2> DEFINE to == [DealOf(form, p, k) EXCEPT !.paid = paid]
  <2>1. paid \in Nat
    BY <1>1, ConstantsOK DEF DealRow
  <2>2. to \in DealRow
    BY <2>1, DealTyped DEF DealRow
  <2>3. DealRead(q, "update_deal", d, to)
    BY <1>3 DEF UpdateDealRead
  <2> HIDE DEF to
  <2> QED BY <2>2, <2>3, DealReadTyped
<1> QED BY <1>2, <1>3

LEMMA DealCommitTyped ==
  ASSUME IInv, NEW q \in Request, DealCommit(q)
  PROVE  IInv'
<1>1. PICK r \in DealRequest : r = req[q]
  BY Shapes DEF IInv, TypeOK, RequestRow, DealCommit, Syncing, DealOps
<1> DEFINE s == SyncedStatus(lease, RewrittenDeal(q), r.to.property)
<1>2. /\ Syncing(q, DealOps) /\ deal' = RewrittenDeal(q) /\ Finish(q) /\ UNCHANGED <<client, lease>>
      /\ property' = [property EXCEPT ![r.to.property].status = s, ![r.from].status = r.status]
  BY <1>1 DEF DealCommit
<1>3. deal' \in Seq(DealRow) /\ Len(deal') = Len(deal)
  BY <1>2, RewrittenDeals
<1>4. s \in PropertyStatus /\ r.status \in PropertyStatus
  BY StatusTyped DEF DealRequest
<1> HIDE DEF s
<1>5. DOMAIN property' \subseteq Property /\ \A x \in DOMAIN property' : property'[x] \in PropertyRow
  BY <1>2, <1>4, PropertyStep DEF IInv
<1>6. req' \in [Request -> RequestRow] /\ DeletionsDelete'
  BY <1>2, Finished
<1> QED BY <1>2, <1>3, <1>5, <1>6 DEF IInv, TypeOK, RequestRow

LEMMA AbortTyped ==
  ASSUME IInv, NEW q \in Request, Abort(q)
  PROVE  IInv'
<1>1. req' \in [Request -> RequestRow] /\ DeletionsDelete'
  BY Finished DEF Abort
<1> QED BY <1>1 DEF Abort, IInv, TypeOK, RequestRow

LEMMA Initially ==
  ASSUME Init
  PROVE  IInv
<1>1. DOMAIN property = {}
  BY DEF Init
<1>2. lease \in Seq(LeaseRow) /\ deal \in Seq(DealRow) /\ Len(lease) = 0 /\ Len(deal) = 0
  BY EmptySeq DEF Init
<1>3. \A q \in Request : req[q].op # "delete_lease"
  BY DEF Init, Idle
<1> QED BY <1>1, <1>2, <1>3, ConstantsOK DEF Init, IInv, TypeOK, DeletionsDelete

LEMMA Inductive ==
  ASSUME IInv, [Next]_vars
  PROVE  IInv'
<1>1. ASSUME NEW p \in Property, CreateProperty(p)
      PROVE  IInv'
  BY <1>1, CreatePropertyTyped
<1>2. ASSUME NEW k \in Client, CreateTenant(k)
      PROVE  IInv'
  BY <1>2, CreateTenantTyped
<1>3. ASSUME NEW p \in Property, NEW k \in Client, CreateRentalContract(p, k)
      PROVE  IInv'
  BY <1>3, CreateLeaseTyped
<1>4. ASSUME NEW form \in Form, NEW p \in Property, NEW k \in Client, CreateDeal(form, p, k)
      PROVE  IInv'
  BY <1>4, CreateDealTyped
<1>5. ASSUME NEW q \in Request,
             \/ \E p \in DOMAIN property : DeletePropertyRead(q, p)
             \/ DeletePropertyCommit(q)
      PROVE  IInv'
  BY <1>5, DeletePropertyTyped
<1>6. ASSUME NEW q \in Request,
             \/ \E k \in Client : DeleteTenantRead(q, k)
             \/ DeleteTenantCommit(q)
      PROVE  IInv'
  BY <1>6, DeleteTenantTyped
<1>7. ASSUME NEW q \in Request, NEW c \in DOMAIN lease,
             \/ \E p \in Property, k \in Client : UpdateRentalContractRead(q, c, p, k)
             \/ \E s \in LeaseStatus : TransitionRead(q, c, s)
             \/ DeleteRentalContractRead(q, c)
      PROVE  IInv'
  BY <1>7, LeaseReadsTyped
<1>8. ASSUME NEW q \in Request, UpdateRentalContractCommit(q)
      PROVE  IInv'
  BY <1>8, UpdateLeaseTyped
<1>9. ASSUME NEW q \in Request, LeaseSync(q) \/ DealSync(q)
      PROVE  IInv'
  BY <1>9, SyncTyped
<1>10. ASSUME NEW q \in Request, LeaseCommit(q)
       PROVE  IInv'
  BY <1>10, LeaseCommitTyped
<1>11. ASSUME NEW q \in Request, NEW d \in DOMAIN deal,
              \/ \E form \in Form, p \in Property, k \in Client :
                   \E paid \in {form.paid, deal[d].paid} : UpdateDealRead(q, d, form, p, k, paid)
              \/ DeleteDealRead(q, d)
       PROVE  IInv'
  BY <1>11, DealReadsTyped
<1>12. ASSUME NEW q \in Request, DealCommit(q)
       PROVE  IInv'
  BY <1>12, DealCommitTyped
<1>13. ASSUME NEW q \in Request, Abort(q)
       PROVE  IInv'
  BY <1>13, AbortTyped
<1>14. CASE UNCHANGED vars
  BY <1>14 DEF vars, IInv, TypeOK, DeletionsDelete
<1> QED
  BY <1>1, <1>2, <1>3, <1>4, <1>5, <1>6, <1>7, <1>8, <1>9, <1>10, <1>11, <1>12, <1>13, <1>14 DEF Next

LEMMA Always ==
  Spec => []IInv
<1>1. Init => IInv
  BY Initially
<1>2. IInv /\ [Next]_vars => IInv'
  BY Inductive
<1> QED BY <1>1, <1>2, PTL DEF Spec

\* Every row keeps its type, whatever requests run together.
THEOREM TypeCorrect == Spec => []TypeOK
<1>1. IInv => TypeOK
  BY DEF IInv
<1> QED BY <1>1, Always, PTL

-----------------------------------------------------------------------------
(* A claim is exclusive.                                                   *)

\* What a step may not do to a lease.
Excludes == \A c \in Leases : Enters(c) /\ ~Transitioned(c) => Lets(lease', lease'[c].property) = {c}

LEMMA NoneEnters ==
  ASSUME UNCHANGED lease
  PROVE  Excludes
  BY DEF Excludes, Enters

LEMMA CreationExcludes ==
  ASSUME IInv, NEW p \in Property, NEW k \in Client, CreateRentalContract(p, k)
  PROVE  Excludes
<1> DEFINE row == [live |-> TRUE, status |-> "ACTIVE", property |-> p, client |-> k]
           n == Len(lease) + 1
<1>1. row \in LeaseRow /\ row.status \in InForce /\ row.live /\ row.property = p
  BY DEF LeaseRow, LeaseStatus, InForce
<1>2. lease \in Seq(LeaseRow) /\ lease' = Append(lease, row) /\ Lets(lease, p) \ {n} = {}
  BY DEF IInv, TypeOK, CreateRentalContract, NoRival
<1> HIDE DEF row
<1>3. /\ Len(lease) \in Nat /\ DOMAIN lease = 1..Len(lease)
      /\ lease' \in Seq(LeaseRow) /\ Len(lease') = n /\ lease'[n] = row
      /\ \A c \in 1..Len(lease) : lease'[c] = lease[c]
  BY <1>1, <1>2, AppendProperties, LenProperties
<1>4. DOMAIN lease' = DOMAIN lease \cup {n} /\ n \notin DOMAIN lease
  <2>1. DOMAIN lease' = 1..n
    BY <1>3, LenProperties
  <2> QED BY <1>3, <2>1
<1>5. Lets(lease', p) = {n}
  <2>1. n \in Lets(lease', p)
    BY <1>1, <1>3, <1>4 DEF Lets
  <2>2. ASSUME NEW c \in Lets(lease', p), c # n
        PROVE  FALSE
    <3>1. c \in DOMAIN lease /\ lease'[c] = lease[c]
      BY <1>3, <1>4, <2>2 DEF Lets
    <3>2. c \in Lets(lease, p)
      BY <3>1 DEF Lets
    <3> QED BY <1>2, <2>2, <3>2
  <2> QED BY <2>1, <2>2
<1>6. ASSUME NEW c \in Leases, Enters(c)
      PROVE  c = n
  <2>1. c \in DOMAIN lease => lease'[c] = lease[c]
    BY <1>3
  <2> QED BY <1>4, <1>6, <2>1 DEF Enters
<1> QED BY <1>1, <1>3, <1>5, <1>6 DEF Excludes

LEMMA EditExcludes ==
  ASSUME IInv, NEW q \in Request, UpdateRentalContractCommit(q)
  PROVE  Excludes
<1> DEFINE n == req[q].id
           p == req[q].to.property
           saved == [lease EXCEPT ![n] = [req[q].to EXCEPT !.live = lease[n].live]]
<1>1. /\ req[q].op = "update_lease" /\ lease' = saved
      /\ req[q].to.status \in InForce => Lets(lease, p) \ {n} = {}
  BY DEF UpdateRentalContractCommit, NoRival
<1>2. /\ DOMAIN lease' = DOMAIN lease
      /\ \A c \in DOMAIN lease : c # n => lease'[c] = lease[c]
      /\ n \in DOMAIN lease => lease'[n].status = req[q].to.status /\ lease'[n].property = p
  BY <1>1, SavedLease
<1> HIDE DEF saved
<1> SUFFICES ASSUME NEW c \in Leases, Enters(c)
             PROVE  Lets(lease', lease'[c].property) = {c}
  BY DEF Excludes
<1>3. c = n /\ n \in DOMAIN lease
  BY <1>2 DEF Enters
<1>4. /\ lease'[c].property = p /\ req[q].to.status \in InForce
      /\ c \in Lets(lease', p)
  BY <1>2, <1>3 DEF Enters, Lets
<1>5. ASSUME NEW o \in Lets(lease', p), o # n
      PROVE  FALSE
  <2>1. o \in DOMAIN lease /\ lease'[o] = lease[o]
    BY <1>2, <1>5 DEF Lets
  <2>2. o \in Lets(lease, p)
    BY <2>1, <1>5 DEF Lets
  <2> QED BY <1>1, <1>4, <1>5, <2>2
<1> QED BY <1>3, <1>4, <1>5

LEMMA RewritingExcludes ==
  ASSUME IInv, NEW q \in Request, LeaseCommit(q)
  PROVE  Excludes
<1>1. /\ Syncing(q, LeaseOps) /\ lease' = Rewritten(q) /\ req' = [req EXCEPT ![q] = Idle]
  BY DEF LeaseCommit, Finish
<1>2. /\ DOMAIN lease' = DOMAIN lease
      /\ \A c \in DOMAIN lease : c # req[q].id => lease'[c] = lease[c]
      /\ req[q].id \in DOMAIN lease /\ req[q].op = "delete_lease" => ~lease'[req[q].id].live
  BY <1>1, RewrittenLease
<1>3. ASSUME NEW c \in Leases, Enters(c)
      PROVE  Transitioned(c)
  <2>1. c = req[q].id /\ c \in DOMAIN lease
    BY <1>2, <1>3 DEF Enters
  <2>2. req[q].op # "delete_lease"
    BY <1>2, <1>3, <2>1 DEF Enters
  <2>3. Syncing(q, {"transition"})
    BY <1>1, <2>2 DEF Syncing, LeaseOps
  <2>4. req'[q] = Idle
    BY <1>1 DEF IInv, TypeOK
  <2> QED BY <2>1, <2>3, <2>4 DEF Transitioned
<1> QED BY <1>3 DEF Excludes

LEMMA StepExcludes ==
  ASSUME IInv, [Next]_vars
  PROVE  Excludes
<1>1. ASSUME NEW p \in Property, NEW k \in Client, CreateRentalContract(p, k)
      PROVE  Excludes
  BY <1>1, CreationExcludes
<1>2. ASSUME NEW q \in Request, UpdateRentalContractCommit(q)
      PROVE  Excludes
  BY <1>2, EditExcludes
<1>3. ASSUME NEW q \in Request, LeaseCommit(q)
      PROVE  Excludes
  BY <1>3, RewritingExcludes
<1>4. CASE UNCHANGED lease
  BY <1>4, NoneEnters
<1>5. \/ UNCHANGED lease
      \/ \E p \in Property, k \in Client : CreateRentalContract(p, k)
      \/ \E q \in Request : UpdateRentalContractCommit(q) \/ LeaseCommit(q)
  BY DEF Next, vars, CreateProperty, CreateTenant, CreateDeal, DeletePropertyRead,
         DeletePropertyCommit, DeleteTenantRead, DeleteTenantCommit, UpdateRentalContractRead,
         TransitionRead, DeleteRentalContractRead, LeaseRead, LeaseSync, UpdateDealRead,
         DeleteDealRead, DealRead, DealSync, DealCommit, Abort
<1> QED BY <1>1, <1>2, <1>3, <1>4, <1>5

\* However many requests create, edit, move, transition and delete leases together, one
\* that is created or edited into force on a property is the only one there.
THEOREM ClaimsExclusive == Spec => ClaimExclusive
<1>1. IInv /\ [Next]_vars => Excludes
  BY StepExcludes
<1>2. Excludes => [\A c \in Leases : Enters(c) /\ ~Transitioned(c) =>
                     Lets(lease', lease'[c].property) = {c}]_vars
  BY DEF Excludes
<1> QED BY <1>1, <1>2, Always, PTL DEF Spec, ClaimExclusive

-----------------------------------------------------------------------------
(* Requests that run one by one.                                           *)

\* Only one request is in flight.
Sole == \A p, q \in Request : req[p] # Idle /\ req[q] # Idle => p = q

\* The rows that are live on a property.
Held(rows, p) == {o \in DOMAIN rows : rows[o].live /\ rows[o].property = p}

\* A lease and a deal stand on a property that exists.
Placed ==
  /\ \A c \in DOMAIN lease : lease[c].live => lease[c].property \in DOMAIN property
  /\ \A d \in DOMAIN deal : deal[d].live => deal[d].property \in DOMAIN property

\* What the request in flight has read is still so.
StillLeased(q) ==
  req[q].op \in {"transition", "update_lease", "delete_lease"} =>
    /\ req[q].id \in DOMAIN lease /\ lease[req[q].id].live
    /\ req[q].from = lease[req[q].id].property
    /\ req[q].stage = "sync" => req[q].status = SyncedStatus(Rewritten(q), deal, req[q].from)

StillDealt(q) ==
  req[q].op \in {"update_deal", "delete_deal"} =>
    /\ req[q].id \in DOMAIN deal /\ deal[req[q].id].live
    /\ req[q].from = deal[req[q].id].property
    /\ req[q].op = "delete_deal" => req[q].to.property = req[q].from
    /\ req[q].stage = "sync" =>
         /\ LiveProperty(req[q].to.property)
         /\ req[q].status = SyncedStatus(lease, RewrittenDeal(q), req[q].from)

StillEmpty(q) ==
  req[q].op = "delete_property" =>
    Held(lease, req[q].id) = {} /\ DealsOn(deal, req[q].id) = {}

StillSo(q) == StillLeased(q) /\ StillDealt(q) /\ StillEmpty(q)

\* What holds while requests run one by one.
AloneFacts == Sole /\ Placed /\ StatusMatches /\ \A q \in Request : StillSo(q)

Alone == alone => AloneFacts

LEMMA StepsAlone ==
  ASSUME MCNext, alone', DOMAIN req' = Request
  PROVE  alone /\ Sole' /\ (req' # req \/ \A q \in Request : req[q] = Idle)
<1>1. alone /\ Cardinality(InFlight') <= 1 /\ (InFlight = {} \/ req' # req)
  BY DEF MCNext
<1>2. IsFiniteSet(InFlight')
  BY ConstantsOK, FS_Subset DEF InFlight
<1>3. Sole'
  BY <1>1, <1>2, AtMostOne DEF Sole, InFlight
<1> QED BY <1>1, <1>3 DEF InFlight

\* The latest of some rows is one of them.
LEMMA MaxIn ==
  ASSUME NEW n \in Nat, NEW S, S \subseteq 1..n, S # {}
  PROVE  Max(S) \in S
<1> DEFINE A == {n - x : x \in S}
<1>1. A \subseteq Nat /\ A # {}
  <2>1. \A x \in S : n - x \in Nat
    OBVIOUS
  <2>2. A \subseteq Nat
    BY <2>1
  <2>3. PICK x \in S : TRUE
    OBVIOUS
  <2>4. n - x \in A
    OBVIOUS
  <2> QED BY <2>2, <2>4
<1>2. PICK m \in A : \A a \in A : m <= a
  BY <1>1, LeastNat
<1>3. PICK x \in S : m = n - x
  OBVIOUS
<1>4. \A y \in S : x >= y
  <2> SUFFICES ASSUME NEW y \in S
               PROVE  x >= y
    OBVIOUS
  <2>1. n - y \in A
    OBVIOUS
  <2>2. n - x <= n - y
    BY <1>2, <1>3, <2>1
  <2>3. x \in Int /\ y \in Int
    OBVIOUS
  <2> HIDE DEF A
  <2> QED BY <2>2, <2>3
<1> HIDE DEF A
<1> QED BY <1>4 DEF Max

\* The same leases in force and the same deals make the same status.
LEMMA SyncedSame ==
  ASSUME NEW old \in Seq(DealRow), NEW new, NEW leases, NEW saved, NEW p,
         Lets(saved, p) = Lets(leases, p), DealsOn(new, p) = DealsOn(old, p),
         \A d \in DealsOn(old, p) : new[d] = old[d]
  PROVE  SyncedStatus(saved, new, p) = SyncedStatus(leases, old, p)
<1>1. Len(old) \in Nat /\ DealsOn(old, p) \subseteq 1..Len(old)
  BY LenProperties DEF DealsOn
<1>2. DealsOn(old, p) # {} => new[Max(DealsOn(old, p))] = old[Max(DealsOn(old, p))]
  BY <1>1, MaxIn
<1> QED BY <1>2 DEF SyncedStatus

\* Rows that differ in one record, which is not on p before or after.
LEMMA Elsewhere ==
  ASSUME NEW old, NEW new, NEW c, NEW p, DOMAIN new \ {c} = DOMAIN old \ {c},
         \A o \in DOMAIN old \ {c} : new[o] = old[o],
         c \in DOMAIN old => old[c].property # p,
         c \in DOMAIN new => new[c].property # p
  PROVE  /\ Held(new, p) = Held(old, p) /\ Lets(new, p) = Lets(old, p)
         /\ DealsOn(new, p) = DealsOn(old, p) /\ \A d \in DealsOn(old, p) : new[d] = old[d]
<1>1. \A o : o \in DOMAIN new /\ new[o].property = p =>
                o \in DOMAIN old /\ new[o] = old[o]
  OBVIOUS
<1>2. \A o : o \in DOMAIN old /\ old[o].property = p =>
                o \in DOMAIN new /\ new[o] = old[o]
  OBVIOUS
<1> QED BY <1>1, <1>2 DEF Held, Lets, DealsOn

\* Nothing that the status of p depends on is changed.
SameOn(p) ==
  /\ Held(lease', p) = Held(lease, p) /\ Lets(lease', p) = Lets(lease, p)
  /\ DealsOn(deal', p) = DealsOn(deal, p)
  /\ \A d \in DealsOn(deal, p) : deal'[d] = deal[d]

\* The properties of T get the status their rows make, the others keep rows and status.
LEMMA Restated ==
  ASSUME IInv, StatusMatches, NEW T, DOMAIN property' = DOMAIN property,
         \A p \in DOMAIN property \ T : property'[p] = property[p] /\ SameOn(p),
         \A p \in T \cap DOMAIN property :
           property'[p].live /\ property'[p].status = SyncedStatus(lease', deal', p)
  PROVE  StatusMatches'
<1>1. deal \in Seq(DealRow)
  BY DEF IInv, TypeOK
<1>2. ASSUME NEW p \in DOMAIN property \ T
      PROVE  IF property'[p].live
             THEN property'[p].status = SyncedStatus(lease', deal', p)
             ELSE Held(lease', p) = {} /\ DealsOn(deal', p) = {}
  <2>1. property'[p] = property[p] /\ SameOn(p)
    OBVIOUS
  <2>2. SyncedStatus(lease', deal', p) = SyncedStatus(lease, deal, p)
    BY <1>1, <2>1, SyncedSame DEF SameOn
  <2>3. IF property[p].live
        THEN property[p].status = SyncedStatus(lease, deal, p)
        ELSE Held(lease, p) = {} /\ DealsOn(deal, p) = {}
    BY DEF StatusMatches, Held
  <2> QED BY <2>1, <2>2, <2>3 DEF SameOn
<1>3. \A p \in DOMAIN property :
        IF property'[p].live
        THEN property'[p].status = SyncedStatus(lease', deal', p)
        ELSE Held(lease', p) = {} /\ DealsOn(deal', p) = {}
  BY <1>2
<1>4. \A p : Held(lease', p) = {} =>
              \A c \in DOMAIN lease' : ~(lease'[c].live /\ lease'[c].property = p)
  BY DEF Held
<1> HIDE DEF SameOn
<1> QED BY <1>3, <1>4, Zenon DEF StatusMatches

\* No request is in flight after a handler that ran alone ends.
LEMMA Ended ==
  ASSUME IInv, Sole, NEW q \in Request, req[q] # Idle, Finish(q)
  PROVE  Sole' /\ (\A r \in Request : req'[r] = Idle) /\ \A r \in Request : StillSo(r)'
<1>1. \A r \in Request : req'[r] = Idle
  BY DEF Sole, Finish, IInv, TypeOK
<1>2. Sole'
  BY <1>1 DEF Sole
<1>3. \A r \in Request : StillSo(r)'
  BY <1>1 DEF StillSo, StillLeased, StillDealt, StillEmpty, Idle
<1> QED BY <1>1, <1>2, <1>3

\* A handler of one step that ran alone.
LEMMA NoneInFlight ==
  ASSUME \A r \in Request : req[r] = Idle, UNCHANGED req
  PROVE  \A r \in Request : StillSo(r)'
BY DEF StillSo, StillLeased, StillDealt, StillEmpty, Idle

\* What a request has read is still so when no row is changed.
LEMMA StillSoStays ==
  ASSUME NEW x \in Request, req'[x] = req[x], UNCHANGED <<property, lease, deal>>, StillSo(x)
  PROVE  StillSo(x)'
<1>1. Rewritten(x)' = Rewritten(x)
  BY DEF Rewritten
<1>2. RewrittenDeal(x)' = RewrittenDeal(x)
  BY DEF RewrittenDeal
<1>3. StillLeased(x)'
  BY <1>1 DEF StillSo, StillLeased
<1>4. StillDealt(x)'
  BY <1>2 DEF StillSo, StillDealt, LiveProperty
<1>5. StillEmpty(x)'
  BY DEF StillSo, StillEmpty
<1> QED BY <1>3, <1>4, <1>5 DEF StillSo

\* Steps that change one request, and nothing that another depends on.
LEMMA ReadsAlone ==
  ASSUME IInv, AloneFacts, Sole', NEW q \in Request, NEW r, req' = [req EXCEPT ![q] = r],
         UNCHANGED <<property, client, lease, deal>>, StillSo(q)'
  PROVE  AloneFacts'
<1>1. ASSUME NEW x \in Request, x # q
      PROVE  StillSo(x)'
  <2>1. req'[x] = req[x]
    BY <1>1 DEF IInv, TypeOK
  <2> QED BY <2>1, StillSoStays DEF AloneFacts
<1>2. \A x \in Request : StillSo(x)'
  BY <1>1
<1>3. Placed'
  BY DEF AloneFacts, Placed
<1>4. StatusMatches'
  BY DEF AloneFacts, StatusMatches
<1> QED BY <1>2, <1>3, <1>4 DEF AloneFacts

\* Steps that change no row that is live, and leave no new request.
LEMMA QuietAlone ==
  ASSUME IInv, AloneFacts, Sole', UNCHANGED <<property, lease, deal>>,
         \A r \in Request : req'[r] \in {req[r], Idle}
  PROVE  AloneFacts'
<1>1. ASSUME NEW x \in Request
      PROVE  StillSo(x)'
  <2>1. CASE req'[x] = Idle
    BY <2>1 DEF StillSo, StillLeased, StillDealt, StillEmpty, Idle
  <2>2. CASE req'[x] = req[x]
    BY <2>2, StillSoStays DEF AloneFacts
  <2> QED BY <2>1, <2>2
<1>2. \A x \in Request : StillSo(x)'
  BY <1>1
<1>3. Placed'
  BY DEF AloneFacts, Placed
<1>4. StatusMatches'
  BY DEF AloneFacts, StatusMatches
<1> QED BY <1>2, <1>3, <1>4 DEF AloneFacts

\* A property that a live lease or deal stands on is live.
LEMMA StandsOnLive ==
  ASSUME AloneFacts, NEW p, Held(lease, p) # {} \/ DealsOn(deal, p) # {}
  PROVE  LiveProperty(p)
<1>1. p \in DOMAIN property
  BY DEF AloneFacts, Placed, Held, DealsOn
<1>2. property[p].live
  BY <1>1 DEF AloneFacts, StatusMatches, Held
<1> QED BY <1>1, <1>2 DEF LiveProperty

-----------------------------------------------------------------------------
(* Each handler keeps them: properties and clients.                        *)

\* A new property has neither leases nor deals.
LEMMA CreatePropertyAlone ==
  ASSUME IInv, AloneFacts, Sole', \A r \in Request : req[r] = Idle,
         NEW p \in Property, CreateProperty(p)
  PROVE  AloneFacts'
<1>1. /\ p \notin DOMAIN property /\ DOMAIN property' = DOMAIN property \cup {p}
      /\ property'[p] = [live |-> TRUE, status |-> "AVAILABLE"]
      /\ \A o \in DOMAIN property : property'[o] = property[o]
      /\ UNCHANGED <<lease, deal, req>>
  BY DEF CreateProperty, Slot
<1>2. \A r \in Request : StillSo(r)'
  BY <1>1, NoneInFlight
<1>3. Placed'
  BY <1>1 DEF AloneFacts, Placed
<1>4. Held(lease, p) = {} /\ DealsOn(deal, p) = {} /\ Lets(lease, p) = {}
  BY <1>1 DEF AloneFacts, Placed, Held, DealsOn, Lets
<1>5. SyncedStatus(lease, deal, p) = "AVAILABLE"
  BY <1>4 DEF SyncedStatus
<1>6. StatusMatches'
  <2> SUFFICES ASSUME NEW o \in DOMAIN property'
               PROVE  (IF property[o].live
                       THEN property[o].status = SyncedStatus(lease, deal, o)
                       ELSE /\ \A c \in DOMAIN lease : ~(lease[c].live /\ lease[c].property = o)
                            /\ DealsOn(deal, o) = {})'
    BY DEF StatusMatches
  <2>1. CASE o = p
    BY <1>1, <1>5, <2>1
  <2>2. CASE o # p
    <3>1. o \in DOMAIN property /\ property'[o] = property[o]
      BY <1>1, <2>2
    <3> QED BY <1>1, <3>1 DEF AloneFacts, StatusMatches
  <2> QED BY <2>1, <2>2
<1> QED BY <1>2, <1>3, <1>6 DEF AloneFacts

\* What was counted before a deletion is still so when nothing ran in between.
LEMMA DeletePropertyAlone ==
  ASSUME IInv, AloneFacts, Sole', NEW q \in Request,
         DeletePropertyCommit(q) \/ \E p \in DOMAIN property : DeletePropertyRead(q, p)
  PROVE  AloneFacts'
<1>1. ASSUME NEW p \in DOMAIN property, DeletePropertyRead(q, p)
      PROVE  AloneFacts'
  <2> DEFINE r == [op |-> "delete_property", stage |-> "read", id |-> p]
  <2>1. /\ req' = [req EXCEPT ![q] = r] /\ UNCHANGED <<property, client, lease, deal>>
        /\ Held(lease, p) = {} /\ DealsOn(deal, p) = {}
    BY <1>1 DEF DeletePropertyRead, Begin, Held
  <2>2. req'[q] = r
    BY <2>1 DEF IInv, TypeOK
  <2>3. StillSo(q)'
    BY <2>1, <2>2 DEF StillSo, StillLeased, StillDealt, StillEmpty
  <2> HIDE DEF r
  <2> QED BY <2>1, <2>3, ReadsAlone
<1>2. CASE DeletePropertyCommit(q)
  <2>1. PICK p : p = req[q].id
    OBVIOUS
  <2>2. /\ p \in DOMAIN property /\ property' = [property EXCEPT ![p].live = FALSE]
        /\ req[q].op = "delete_property" /\ Finish(q) /\ UNCHANGED <<lease, deal>>
    BY <1>2, <2>1 DEF DeletePropertyCommit, LiveProperty
  <2>3. Held(lease, p) = {} /\ DealsOn(deal, p) = {}
    BY <2>1, <2>2 DEF AloneFacts, StillSo, StillEmpty
  <2>4. /\ DOMAIN property' = DOMAIN property /\ ~property'[p].live
        /\ \A o \in DOMAIN property : o # p => property'[o] = property[o]
    BY <2>2 DEF IInv, TypeOK, PropertyRow
  <2>5. StatusMatches'
    <3> SUFFICES ASSUME NEW o \in DOMAIN property
                 PROVE  (IF property[o].live
                         THEN property[o].status = SyncedStatus(lease, deal, o)
                         ELSE /\ \A c \in DOMAIN lease : ~(lease[c].live /\ lease[c].property = o)
                              /\ DealsOn(deal, o) = {})'
      BY <2>4 DEF StatusMatches
    <3>1. CASE o = p
      BY <2>2, <2>3, <2>4, <3>1 DEF Held
    <3>2. CASE o # p
      BY <2>2, <2>4, <3>2 DEF AloneFacts, StatusMatches
    <3> QED BY <3>1, <3>2
  <2>6. Placed'
    BY <2>2, <2>4 DEF AloneFacts, Placed
  <2>7. req[q] # Idle
    BY <2>2 DEF Idle
  <2>8. \A x \in Request : StillSo(x)'
    BY <2>2, <2>7, Ended DEF AloneFacts
  <2> QED BY <2>5, <2>6, <2>8 DEF AloneFacts
<1> QED BY <1>1, <1>2

-----------------------------------------------------------------------------
(* Leases.                                                                 *)

LEMMA CreateLeaseAlone ==
  ASSUME IInv, AloneFacts, Sole', \A r \in Request : req[r] = Idle,
         NEW p \in Property, NEW k \in Client, CreateRentalContract(p, k)
  PROVE  AloneFacts'
<1> DEFINE row == [live |-> TRUE, status |-> "ACTIVE", property |-> p, client |-> k]
           n == Len(lease) + 1
<1>1. /\ row \in LeaseRow /\ row.status \in InForce /\ row.live /\ row.property = p
  BY DEF LeaseRow, LeaseStatus, InForce
<1>2. /\ lease \in Seq(LeaseRow) /\ lease' = Append(lease, row)
      /\ p \in DOMAIN property /\ property[p].live
      /\ property' = [property EXCEPT ![p].status = "RENTED"] /\ UNCHANGED <<deal, req>>
  BY DEF IInv, TypeOK, CreateRentalContract, LiveProperty, SetStatus, Slot
<1> HIDE DEF row
<1>3. /\ Len(lease) \in Nat /\ DOMAIN lease = 1..Len(lease)
      /\ lease' \in Seq(LeaseRow) /\ Len(lease') = n /\ lease'[n] = row
      /\ \A c \in 1..Len(lease) : lease'[c] = lease[c]
  BY <1>1, <1>2, AppendProperties, LenProperties
<1>4. DOMAIN lease' = DOMAIN lease \cup {n} /\ n \notin DOMAIN lease
  <2>1. DOMAIN lease' = 1..n
    BY <1>3, LenProperties
  <2> QED BY <1>3, <2>1
<1>5. SyncedStatus(lease', deal', p) = "RENTED"
  <2>1. n \in Lets(lease', p)
    BY <1>1, <1>3, <1>4 DEF Lets
  <2> QED BY <2>1 DEF SyncedStatus
<1>6. /\ DOMAIN property' = DOMAIN property /\ \A o \in DOMAIN property \ {p} : property'[o] = property[o]
      /\ property'[p].live /\ property'[p].status = "RENTED"
  BY <1>2 DEF IInv, TypeOK, PropertyRow
<1>7. ASSUME NEW o \in DOMAIN property \ {p}
      PROVE  SameOn(o)
  <2>1. DOMAIN lease' \ {n} = DOMAIN lease \ {n} /\ \A c \in DOMAIN lease \ {n} : lease'[c] = lease[c]
    BY <1>3, <1>4
  <2>2. lease'[n].property # o
    BY <1>1, <1>3
  <2>4. n \in DOMAIN lease => lease[n].property # o
    BY <1>4
  <2> HIDE DEF n
  <2>3. Held(lease', o) = Held(lease, o) /\ Lets(lease', o) = Lets(lease, o)
    BY <2>1, <2>2, <2>4, Elsewhere
  <2> QED BY <1>2, <2>3 DEF SameOn
<1>8. StatusMatches'
  <2>1. \A o \in {p} \cap DOMAIN property :
          property'[o].live /\ property'[o].status = SyncedStatus(lease', deal', o)
    BY <1>5, <1>6
  <2> QED BY <1>6, <1>7, <2>1, Restated DEF AloneFacts
<1>9. Placed'
  BY <1>1, <1>2, <1>3, <1>4, <1>6 DEF AloneFacts, Placed
<1>10. \A r \in Request : StillSo(r)'
  BY <1>2, NoneInFlight
<1> QED BY <1>8, <1>9, <1>10 DEF AloneFacts

\* The three handlers of an existing lease start alike.
LEMMA LeaseReadAlone ==
  ASSUME IInv, AloneFacts, Sole', NEW q \in Request, NEW c \in DOMAIN lease,
         NEW op \in {"transition", "update_lease", "delete_lease"}, NEW to, LeaseRead(q, op, c, to)
  PROVE  AloneFacts'
<1> DEFINE r == [op |-> op, stage |-> "read", id |-> c, from |-> lease[c].property,
                 to |-> to, status |-> "AVAILABLE"]
<1>1. req' = [req EXCEPT ![q] = r] /\ UNCHANGED <<property, client, lease, deal>> /\ lease[c].live
  BY DEF LeaseRead, Begin
<1>2. req'[q] = r
  BY <1>1 DEF IInv, TypeOK
<1>3. StillSo(q)'
  BY <1>1, <1>2 DEF StillSo, StillLeased, StillDealt, StillEmpty
<1> HIDE DEF r
<1> QED BY <1>1, <1>3, ReadsAlone

\* A lease row is saved, and the properties it leaves and enters get their status.
LEMMA LeaseSavedAlone ==
  ASSUME IInv, AloneFacts, NEW c \in DOMAIN lease, lease[c].live, DOMAIN lease' = DOMAIN lease,
         \A o \in DOMAIN lease : o # c => lease'[o] = lease[o],
         UNCHANGED deal, NEW from, from = lease[c].property, NEW to, to = lease'[c].property,
         DOMAIN property' = DOMAIN property, to \in DOMAIN property,
         \A p \in DOMAIN property : p \notin {from, to} => property'[p] = property[p],
         \A p \in {from, to} :
           property'[p].live /\ property'[p].status = SyncedStatus(lease', deal', p)
  PROVE  StatusMatches' /\ Placed'
<1>1. ASSUME NEW p \in DOMAIN property \ {from, to}
      PROVE  SameOn(p)
  <2>1. Held(lease', p) = Held(lease, p) /\ Lets(lease', p) = Lets(lease, p)
    BY Elsewhere
  <2> QED BY <2>1 DEF SameOn
<1>2. StatusMatches'
  <2> DEFINE T == {from, to}
  <2>1. \A p \in DOMAIN property \ T : property'[p] = property[p] /\ SameOn(p)
    BY <1>1
  <2>2. \A p \in T \cap DOMAIN property :
          property'[p].live /\ property'[p].status = SyncedStatus(lease', deal', p)
    OBVIOUS
  <2> HIDE DEF T
  <2> QED BY <2>1, <2>2, Restated DEF AloneFacts
<1>3. Placed'
  BY DEF AloneFacts, Placed
<1> QED BY <1>2, <1>3

LEMMA UpdateLeaseAlone ==
  ASSUME IInv, AloneFacts, Sole', NEW q \in Request, UpdateRentalContractCommit(q)
  PROVE  AloneFacts'
<1>1. PICK r \in LeaseRequest : r = req[q]
  BY Shapes DEF IInv, TypeOK, RequestRow, UpdateRentalContractCommit
<1> DEFINE saved == [lease EXCEPT ![r.id] = [r.to EXCEPT !.live = lease[r.id].live]]
           s == SyncedStatus(saved, deal, r.from)
           t == SyncedStatus(saved, deal, r.to.property)
<1>2. /\ r.op = "update_lease" /\ lease' = saved /\ Finish(q) /\ UNCHANGED <<client, deal>>
      /\ property' = [property EXCEPT ![r.from].status = s, ![r.to.property].status = t]
      /\ LiveProperty(r.from) /\ LiveProperty(r.to.property)
  BY <1>1 DEF UpdateRentalContractCommit
<1>3. r.id \in DOMAIN lease /\ lease[r.id].live /\ r.from = lease[r.id].property
  BY <1>1, <1>2 DEF AloneFacts, StillSo, StillLeased
<1>4. /\ DOMAIN lease' = DOMAIN lease /\ \A o \in DOMAIN lease : o # r.id => lease'[o] = lease[o]
      /\ lease'[r.id].property = r.to.property
  <2>1. /\ req[q].op = "update_lease"
        /\ lease' = [lease EXCEPT ![req[q].id] = [req[q].to EXCEPT !.live = lease[req[q].id].live]]
    BY <1>1, <1>2
  <2>2. /\ DOMAIN lease' = DOMAIN lease
        /\ \A o \in DOMAIN lease : o # req[q].id => lease'[o] = lease[o]
        /\ req[q].id \in DOMAIN lease => lease'[req[q].id].property = req[q].to.property
    BY <2>1, SavedLease
  <2> QED BY <1>1, <1>3, <2>2
<1>5. s = SyncedStatus(lease', deal', r.from) /\ t = SyncedStatus(lease', deal', r.to.property)
  BY <1>2
<1> HIDE DEF saved, s, t
<1>6. /\ DOMAIN property' = DOMAIN property
      /\ \A p \in DOMAIN property : p \notin {r.from, r.to.property} => property'[p] = property[p]
      /\ property'[r.to.property].live /\ property'[r.to.property].status = t
      /\ property'[r.from].live
      /\ r.from # r.to.property => property'[r.from].status = s
  BY <1>2 DEF IInv, TypeOK, PropertyRow, LiveProperty
<1>7. \A p \in {r.from, r.to.property} :
        property'[p].live /\ property'[p].status = SyncedStatus(lease', deal', p)
  BY <1>5, <1>6
<1>8. StatusMatches' /\ Placed'
  BY <1>2, <1>3, <1>4, <1>6, <1>7, LeaseSavedAlone DEF LiveProperty
<1>9. req[q] # Idle
  BY <1>1, <1>2 DEF Idle
<1>10. \A x \in Request : StillSo(x)'
  BY <1>2, <1>9, Ended DEF AloneFacts
<1> QED BY <1>8, <1>10 DEF AloneFacts

\* The status is computed from what the commit will leave.
LEMMA LeaseSyncAlone ==
  ASSUME IInv, AloneFacts, Sole', NEW q \in Request, LeaseSync(q)
  PROVE  AloneFacts'
<1>1. PICK r \in LeaseRequest : r = req[q]
  BY Shapes DEF IInv, TypeOK, RequestRow, LeaseSync, LeaseOps
<1>2. PICK s : s = SyncedStatus(Rewritten(q), deal, r.from)
  OBVIOUS
<1> DEFINE new == [r EXCEPT !.stage = "sync", !.status = s]
<1>3. req' = [req EXCEPT ![q] = new] /\ UNCHANGED <<property, client, lease, deal>> /\ r.op \in LeaseOps
  BY <1>1, <1>2 DEF LeaseSync
<1>4. req'[q] = new
  BY <1>3 DEF IInv, TypeOK
<1>5. new.op = r.op /\ new.id = r.id /\ new.from = r.from /\ new.to = r.to /\ new.status = s
  BY <1>1 DEF LeaseRequest
<1> HIDE DEF new
<1>6. Rewritten(q)' = Rewritten(q)
  BY <1>1, <1>3, <1>4, <1>5 DEF Rewritten
<1>7. StillLeased(q)'
  <2>1. StillLeased(q)
    BY DEF AloneFacts, StillSo
  <2> QED BY <1>1, <1>2, <1>3, <1>4, <1>5, <1>6, <2>1 DEF StillLeased, LeaseOps
<1>8. StillDealt(q)' /\ StillEmpty(q)'
  BY <1>3, <1>4, <1>5 DEF StillDealt, StillEmpty, LeaseOps
<1> QED BY <1>3, <1>7, <1>8, ReadsAlone DEF StillSo

LEMMA LeaseCommitAlone ==
  ASSUME IInv, AloneFacts, Sole', NEW q \in Request, LeaseCommit(q)
  PROVE  AloneFacts'
<1>1. PICK r \in LeaseRequest : r = req[q]
  BY Shapes DEF IInv, TypeOK, RequestRow, LeaseCommit, Syncing, LeaseOps
<1>2. /\ Syncing(q, LeaseOps) /\ lease' = Rewritten(q) /\ Finish(q) /\ UNCHANGED <<client, deal>>
      /\ property' = [property EXCEPT ![r.from].status = r.status]
  BY <1>1 DEF LeaseCommit, SetStatus
<1>3. /\ r.id \in DOMAIN lease /\ lease[r.id].live /\ r.from = lease[r.id].property
      /\ r.status = SyncedStatus(lease', deal', r.from)
  BY <1>1, <1>2 DEF AloneFacts, StillSo, StillLeased, Syncing, LeaseOps
<1>4. DOMAIN lease' = DOMAIN lease /\ \A o \in DOMAIN lease : o # r.id => lease'[o] = lease[o]
  BY <1>1, <1>2, RewrittenLease
<1>5. lease'[r.id].property = r.from
  <2>1. lease' = [lease EXCEPT ![r.id].status = r.to.status, ![r.id].live = @ /\ r.to.live]
    BY <1>1, <1>2 DEF Rewritten
  <2>2. lease[r.id] \in LeaseRow
    <3>1. lease \in Seq(LeaseRow)
      BY DEF IInv, TypeOK
    <3>2. r.id \in 1..Len(lease)
      BY <1>3, <3>1, LenProperties
    <3> QED BY <3>1, <3>2, ElementOfSeq
  <2>3. lease'[r.id].property = lease[r.id].property
    BY <1>3, <2>1, <2>2 DEF LeaseRow
  <2> QED BY <1>3, <2>3
<1>6. LiveProperty(r.from)
  BY <1>3, StandsOnLive DEF Held
<1>7. /\ DOMAIN property' = DOMAIN property
      /\ \A p \in DOMAIN property : p # r.from => property'[p] = property[p]
      /\ property'[r.from].live /\ property'[r.from].status = r.status
  BY <1>2, <1>6 DEF IInv, TypeOK, PropertyRow, LiveProperty
<1>8. StatusMatches' /\ Placed'
  <2>1. \A p \in {r.from, r.from} :
          property'[p].live /\ property'[p].status = SyncedStatus(lease', deal', p)
    BY <1>3, <1>7
  <2> QED BY <1>2, <1>3, <1>4, <1>5, <1>6, <1>7, <2>1, LeaseSavedAlone DEF LiveProperty
<1>9. req[q] # Idle
  BY <1>1, <1>2 DEF Idle, Syncing
<1>10. \A x \in Request : StillSo(x)'
  BY <1>2, <1>9, Ended DEF AloneFacts
<1> QED BY <1>8, <1>10 DEF AloneFacts

-----------------------------------------------------------------------------
(* Deals.                                                                  *)

LEMMA CreateDealAlone ==
  ASSUME IInv, AloneFacts, Sole', \A r \in Request : req[r] = Idle,
         NEW form \in Form, NEW p \in Property, NEW k \in Client, CreateDeal(form, p, k)
  PROVE  AloneFacts'
<1> DEFINE row == DealOf(form, p, k)
           n == Len(deal) + 1
           s == SyncedStatus(lease, Append(deal, row), p)
<1>1. row \in DealRow /\ row.live /\ row.property = p
  BY DealTyped DEF DealOf
<1>2. /\ deal \in Seq(DealRow) /\ deal' = Append(deal, row)
      /\ p \in DOMAIN property /\ property[p].live
      /\ property' = [property EXCEPT ![p].status = s] /\ UNCHANGED <<lease, req>>
  BY DEF IInv, TypeOK, CreateDeal, Claimable, LiveProperty, SetStatus, Slot
<1>3. s = SyncedStatus(lease', deal', p)
  BY <1>2
<1> HIDE DEF row, s
<1>4. /\ Len(deal) \in Nat /\ DOMAIN deal = 1..Len(deal)
      /\ deal' \in Seq(DealRow) /\ Len(deal') = n /\ deal'[n] = row
      /\ \A c \in 1..Len(deal) : deal'[c] = deal[c]
  BY <1>1, <1>2, AppendProperties, LenProperties
<1>5. DOMAIN deal' = DOMAIN deal \cup {n} /\ n \notin DOMAIN deal
  <2>1. DOMAIN deal' = 1..n
    BY <1>4, LenProperties
  <2> QED BY <1>4, <2>1
<1>6. /\ DOMAIN property' = DOMAIN property /\ \A o \in DOMAIN property \ {p} : property'[o] = property[o]
      /\ property'[p].live /\ property'[p].status = s
  BY <1>2 DEF IInv, TypeOK, PropertyRow
<1>7. ASSUME NEW o \in DOMAIN property \ {p}
      PROVE  SameOn(o)
  <2>1. DOMAIN deal' \ {n} = DOMAIN deal \ {n} /\ \A c \in DOMAIN deal \ {n} : deal'[c] = deal[c]
    BY <1>4, <1>5
  <2>2. deal'[n].property # o
    BY <1>1, <1>4
  <2>3. n \in DOMAIN deal => deal[n].property # o
    BY <1>5
  <2> HIDE DEF n
  <2>4. DealsOn(deal', o) = DealsOn(deal, o) /\ \A d \in DealsOn(deal, o) : deal'[d] = deal[d]
    <3>1. \A d : d \in DOMAIN deal /\ deal[d].property = o => d \in DOMAIN deal' /\ deal'[d] = deal[d]
      BY <2>1, <2>3
    <3>2. \A d : d \in DOMAIN deal' /\ deal'[d].property = o => d \in DOMAIN deal /\ deal'[d] = deal[d]
      BY <2>1, <2>2
    <3> QED BY <3>1, <3>2 DEF DealsOn
  <2> QED BY <1>2, <2>4 DEF SameOn
<1>8. StatusMatches'
  <2>1. \A o \in {p} \cap DOMAIN property :
          property'[o].live /\ property'[o].status = SyncedStatus(lease', deal', o)
    BY <1>3, <1>6
  <2> QED BY <1>6, <1>7, <2>1, Restated DEF AloneFacts
<1>9. Placed'
  BY <1>1, <1>2, <1>4, <1>5, <1>6 DEF AloneFacts, Placed
<1>10. \A r \in Request : StillSo(r)'
  BY <1>2, NoneInFlight
<1> QED BY <1>8, <1>9, <1>10 DEF AloneFacts

\* An edit may ask for any property, a deletion leaves the deal where it is.
LEMMA DealReadAlone ==
  ASSUME IInv, AloneFacts, Sole', NEW q \in Request, NEW d \in DOMAIN deal,
         NEW op \in {"update_deal", "delete_deal"}, NEW to, DealRead(q, op, d, to),
         op = "delete_deal" => to.property = deal[d].property
  PROVE  AloneFacts'
<1> DEFINE r == [op |-> op, stage |-> "read", id |-> d, from |-> deal[d].property,
                 to |-> to, status |-> "AVAILABLE"]
<1>1. req' = [req EXCEPT ![q] = r] /\ UNCHANGED <<property, client, lease, deal>> /\ deal[d].live
  BY DEF DealRead, Begin
<1>2. req'[q] = r
  BY <1>1 DEF IInv, TypeOK
<1>3. StillSo(q)'
  BY <1>1, <1>2 DEF StillSo, StillLeased, StillDealt, StillEmpty
<1> HIDE DEF r
<1> QED BY <1>1, <1>3, ReadsAlone

LEMMA DealSyncAlone ==
  ASSUME IInv, AloneFacts, Sole', NEW q \in Request, DealSync(q)
  PROVE  AloneFacts'
<1>1. PICK r \in DealRequest : r = req[q]
  BY Shapes DEF IInv, TypeOK, RequestRow, DealSync, DealOps
<1>2. PICK s : s = SyncedStatus(lease, RewrittenDeal(q), r.from)
  OBVIOUS
<1> DEFINE new == [r EXCEPT !.stage = "sync", !.status = s]
<1>3. /\ req' = [req EXCEPT ![q] = new] /\ UNCHANGED <<property, client, lease, deal>>
      /\ r.op \in DealOps
      /\ r.to.property # r.from => LiveProperty(r.to.property)
  BY <1>1, <1>2 DEF DealSync, Claimable
<1>4. req'[q] = new
  BY <1>3 DEF IInv, TypeOK
<1>5. new.op = r.op /\ new.id = r.id /\ new.from = r.from /\ new.to = r.to /\ new.status = s
  BY <1>1 DEF DealRequest
<1> HIDE DEF new
<1>6. RewrittenDeal(q)' = RewrittenDeal(q)
  <2>1. RewrittenDeal(q) = IF r.op = "update_deal" THEN [deal EXCEPT ![r.id] = r.to]
                           ELSE [deal EXCEPT ![r.id].live = FALSE]
    BY <1>1 DEF RewrittenDeal
  <2>2. RewrittenDeal(q)' = IF new.op = "update_deal" THEN [deal' EXCEPT ![new.id] = new.to]
                            ELSE [deal' EXCEPT ![new.id].live = FALSE]
    BY <1>4 DEF RewrittenDeal
  <2> QED BY <1>3, <1>5, <2>1, <2>2
<1>7. StillDealt(q)
  BY DEF AloneFacts, StillSo
<1>8. r.id \in DOMAIN deal /\ deal[r.id].live /\ r.from = deal[r.id].property
  BY <1>1, <1>3, <1>7 DEF StillDealt, DealOps
<1>9. LiveProperty(r.from)
  BY <1>8, StandsOnLive DEF DealsOn
<1>10. LiveProperty(r.to.property)'
  BY <1>3, <1>9 DEF LiveProperty
<1>11. StillDealt(q)'
  BY <1>1, <1>2, <1>3, <1>4, <1>5, <1>6, <1>7, <1>10 DEF StillDealt, DealOps
<1>12. StillLeased(q)' /\ StillEmpty(q)'
  BY <1>3, <1>4, <1>5 DEF StillLeased, StillEmpty, DealOps
<1> QED BY <1>3, <1>11, <1>12, ReadsAlone DEF StillSo

\* An edit or a deletion rewrites one deal.
LEMMA DealRewritten ==
  ASSUME IInv, AloneFacts, NEW q \in Request, Syncing(q, DealOps)
  PROVE  /\ DOMAIN RewrittenDeal(q) = DOMAIN deal
         /\ \A o \in DOMAIN deal : o # req[q].id => RewrittenDeal(q)[o] = deal[o]
         /\ RewrittenDeal(q)[req[q].id].property = req[q].to.property
<1>1. PICK r \in DealRequest : r = req[q]
  BY Shapes DEF IInv, TypeOK, RequestRow, Syncing, DealOps
<1>2. /\ r.id \in DOMAIN deal /\ r.op \in DealOps
      /\ r.op = "delete_deal" => r.to.property = deal[r.id].property
  BY <1>1 DEF AloneFacts, StillSo, StillDealt, Syncing, DealOps
<1>3. deal[r.id] \in DealRow
  <2>1. deal \in Seq(DealRow)
    BY DEF IInv, TypeOK
  <2>2. r.id \in 1..Len(deal)
    BY <1>2, <2>1, LenProperties
  <2> QED BY <2>1, <2>2, ElementOfSeq
<1> DEFINE row == [deal[r.id] EXCEPT !.live = FALSE]
<1>4. row.property = deal[r.id].property
  BY <1>3 DEF DealRow
<1>5. CASE r.op = "update_deal"
  <2>1. RewrittenDeal(q) = [deal EXCEPT ![r.id] = r.to]
    BY <1>1, <1>5 DEF RewrittenDeal
  <2> QED BY <1>1, <1>2, <2>1
<1>6. CASE r.op = "delete_deal"
  <2>1. RewrittenDeal(q) = [deal EXCEPT ![r.id] = row]
    BY <1>1, <1>6 DEF RewrittenDeal
  <2> HIDE DEF row
  <2> QED BY <1>1, <1>2, <1>4, <1>6, <2>1
<1> QED BY <1>2, <1>5, <1>6 DEF DealOps

\* Both properties of a deal that moves are live, and get the status of what is saved.
LEMMA DealCommitAlone ==
  ASSUME IInv, AloneFacts, Sole', NEW q \in Request, DealCommit(q)
  PROVE  AloneFacts'
<1>1. PICK r \in DealRequest : r = req[q]
  BY Shapes DEF IInv, TypeOK, RequestRow, DealCommit, Syncing, DealOps
<1>2. PICK c : c = r.id
  OBVIOUS
<1>3. PICK from : from = r.from
  OBVIOUS
<1>4. PICK to : to = r.to.property
  OBVIOUS
<1> DEFINE s == SyncedStatus(lease, RewrittenDeal(q), to)
<1>5. /\ Syncing(q, DealOps) /\ deal' = RewrittenDeal(q) /\ Finish(q) /\ UNCHANGED <<client, lease>>
      /\ property' = [property EXCEPT ![to].status = s, ![from].status = r.status]
  BY <1>1, <1>3, <1>4 DEF DealCommit
<1>6. /\ c \in DOMAIN deal /\ deal[c].live /\ from = deal[c].property
      /\ r.status = SyncedStatus(lease, RewrittenDeal(q), from) /\ LiveProperty(to)
  BY <1>1, <1>2, <1>3, <1>4, <1>5 DEF AloneFacts, StillSo, StillDealt, Syncing, DealOps
<1>7. LiveProperty(from)
  BY <1>6, StandsOnLive DEF DealsOn
<1>8. r.status = SyncedStatus(lease', deal', from) /\ s = SyncedStatus(lease', deal', to)
  BY <1>5, <1>6
<1>9. /\ DOMAIN deal' = DOMAIN deal /\ \A o \in DOMAIN deal : o # c => deal'[o] = deal[o]
      /\ deal'[c].property = to
  BY <1>1, <1>2, <1>4, <1>5, DealRewritten
<1> HIDE DEF s
<1>10. /\ DOMAIN property' = DOMAIN property
       /\ \A p \in DOMAIN property : p \notin {from, to} => property'[p] = property[p]
       /\ property'[from].live /\ property'[from].status = r.status
       /\ property'[to].live
       /\ from # to => property'[to].status = s
  BY <1>5, <1>6, <1>7 DEF IInv, TypeOK, PropertyRow, LiveProperty
<1>11. ASSUME NEW p \in DOMAIN property \ {from, to}
       PROVE  SameOn(p)
  <2>1. DealsOn(deal', p) = DealsOn(deal, p) /\ \A d \in DealsOn(deal, p) : deal'[d] = deal[d]
    BY <1>6, <1>9, Elsewhere
  <2> QED BY <1>5, <2>1 DEF SameOn
<1>12. StatusMatches'
  <2> DEFINE T == {from, to}
  <2>1. \A p \in DOMAIN property \ T : property'[p] = property[p] /\ SameOn(p)
    BY <1>10, <1>11
  <2>2. \A p \in T \cap DOMAIN property :
          property'[p].live /\ property'[p].status = SyncedStatus(lease', deal', p)
    BY <1>8, <1>10
  <2> HIDE DEF T
  <2> QED BY <1>10, <2>1, <2>2, Restated DEF AloneFacts
<1>13. Placed'
  BY <1>5, <1>6, <1>9, <1>10 DEF AloneFacts, Placed, LiveProperty
<1>14. req[q] # Idle
  BY <1>5 DEF Idle, Syncing
<1>15. \A x \in Request : StillSo(x)'
  BY <1>5, <1>14, Ended DEF AloneFacts
<1> QED BY <1>12, <1>13, <1>15 DEF AloneFacts

-----------------------------------------------------------------------------
(* The status of a property is the one its rows make.                      *)

LEMMA HandlersReadAlone ==
  ASSUME IInv, AloneFacts, Sole', NEW q \in Request,
         \/ \E c \in DOMAIN lease, p \in Property, k \in Client :
              UpdateRentalContractRead(q, c, p, k)
         \/ \E c \in DOMAIN lease, s \in LeaseStatus : TransitionRead(q, c, s)
         \/ \E c \in DOMAIN lease : DeleteRentalContractRead(q, c)
         \/ \E d \in DOMAIN deal, form \in Form, p \in Property, k \in Client :
              \E paid \in {form.paid, deal[d].paid} : UpdateDealRead(q, d, form, p, k, paid)
         \/ \E d \in DOMAIN deal : DeleteDealRead(q, d)
  PROVE  AloneFacts'
<1>1. ASSUME NEW c \in DOMAIN lease, NEW p \in Property, NEW k \in Client,
             UpdateRentalContractRead(q, c, p, k)
      PROVE  AloneFacts'
  BY <1>1, LeaseReadAlone DEF UpdateRentalContractRead
<1>2. ASSUME NEW c \in DOMAIN lease, NEW s \in LeaseStatus, TransitionRead(q, c, s)
      PROVE  AloneFacts'
  BY <1>2, LeaseReadAlone DEF TransitionRead
<1>3. ASSUME NEW c \in DOMAIN lease, DeleteRentalContractRead(q, c)
      PROVE  AloneFacts'
  BY <1>3, LeaseReadAlone DEF DeleteRentalContractRead
<1>4. ASSUME NEW d \in DOMAIN deal, NEW form \in Form, NEW p \in Property, NEW k \in Client,
             NEW paid, UpdateDealRead(q, d, form, p, k, paid)
      PROVE  AloneFacts'
  BY <1>4, DealReadAlone DEF UpdateDealRead
<1>5. ASSUME NEW d \in DOMAIN deal, DeleteDealRead(q, d)
      PROVE  AloneFacts'
  <2> DEFINE to == [deal[d] EXCEPT !.live = FALSE]
  <2>1. deal[d] \in DealRow
    <3>1. deal \in Seq(DealRow)
      BY DEF IInv, TypeOK
    <3>2. d \in 1..Len(deal)
      BY <3>1, LenProperties
    <3> QED BY <3>1, <3>2, ElementOfSeq
  <2>2. to.property = deal[d].property
    BY <2>1 DEF DealRow
  <2>3. DealRead(q, "delete_deal", d, to)
    BY <1>5 DEF DeleteDealRead
  <2> HIDE DEF to
  <2> QED BY <2>2, <2>3, DealReadAlone
<1> QED BY <1>1, <1>2, <1>3, <1>4, <1>5

LEMMA NextAlone ==
  ASSUME IInv, AloneFacts, Sole', req' # req \/ \A q \in Request : req[q] = Idle, Next
  PROVE  AloneFacts'
<1>1. ASSUME NEW p \in Property, CreateProperty(p)
      PROVE  AloneFacts'
  <2>1. \A q \in Request : req[q] = Idle
    BY <1>1 DEF CreateProperty, Slot
  <2> QED BY <1>1, <2>1, CreatePropertyAlone
<1>2. ASSUME NEW p \in Property, NEW k \in Client, CreateRentalContract(p, k)
      PROVE  AloneFacts'
  <2>1. \A q \in Request : req[q] = Idle
    BY <1>2 DEF CreateRentalContract, Slot
  <2> QED BY <1>2, <2>1, CreateLeaseAlone
<1>3. ASSUME NEW form \in Form, NEW p \in Property, NEW k \in Client, CreateDeal(form, p, k)
      PROVE  AloneFacts'
  <2>1. \A q \in Request : req[q] = Idle
    BY <1>3 DEF CreateDeal, Slot
  <2> QED BY <1>3, <2>1, CreateDealAlone
<1>4. ASSUME NEW q \in Request,
             \/ \E p \in DOMAIN property : DeletePropertyRead(q, p)
             \/ DeletePropertyCommit(q)
      PROVE  AloneFacts'
  BY <1>4, DeletePropertyAlone
<1>5. ASSUME NEW q \in Request, NEW k \in Client, DeleteTenantRead(q, k)
      PROVE  AloneFacts'
  <2> DEFINE r == [op |-> "delete_client", stage |-> "read", id |-> k]
  <2>1. req' = [req EXCEPT ![q] = r] /\ UNCHANGED <<property, client, lease, deal>>
    BY <1>5 DEF DeleteTenantRead, Begin
  <2>2. req'[q] = r
    BY <2>1 DEF IInv, TypeOK
  <2>3. StillSo(q)'
    BY <2>2 DEF StillSo, StillLeased, StillDealt, StillEmpty
  <2> HIDE DEF r
  <2> QED BY <2>1, <2>3, ReadsAlone
<1>6. ASSUME NEW q \in Request, DeleteTenantCommit(q) \/ Abort(q)
      PROVE  AloneFacts'
  <2>1. \A x \in Request : req'[x] \in {req[x], Idle}
    BY <1>6 DEF DeleteTenantCommit, Abort, Finish, IInv, TypeOK
  <2> QED BY <1>6, <2>1, QuietAlone DEF DeleteTenantCommit, Abort
<1>7. ASSUME NEW q \in Request,
             \/ \E c \in DOMAIN lease, p \in Property, k \in Client :
                  UpdateRentalContractRead(q, c, p, k)
             \/ \E c \in DOMAIN lease, s \in LeaseStatus : TransitionRead(q, c, s)
             \/ \E c \in DOMAIN lease : DeleteRentalContractRead(q, c)
             \/ \E d \in DOMAIN deal, form \in Form, p \in Property, k \in Client :
                  \E paid \in {form.paid, deal[d].paid} : UpdateDealRead(q, d, form, p, k, paid)
             \/ \E d \in DOMAIN deal : DeleteDealRead(q, d)
      PROVE  AloneFacts'
  BY <1>7, HandlersReadAlone
<1>8. ASSUME NEW q \in Request,
             \/ UpdateRentalContractCommit(q) \/ LeaseSync(q) \/ LeaseCommit(q)
             \/ DealSync(q) \/ DealCommit(q)
      PROVE  AloneFacts'
  BY <1>8, UpdateLeaseAlone, LeaseSyncAlone, LeaseCommitAlone, DealSyncAlone, DealCommitAlone
<1>9. ASSUME NEW k \in Client, CreateTenant(k)
      PROVE  AloneFacts'
  BY <1>9, QuietAlone DEF CreateTenant, Slot
<1> QED BY <1>1, <1>2, <1>3, <1>4, <1>5, <1>6, <1>7, <1>8, <1>9 DEF Next

\* When requests run one by one, the status of every property is the one that its leases
\* and deals make of it, after any sequence of creations, edits, moves, transitions and
\* deletions, and a property that was deleted has neither a lease nor a deal.
THEOREM StatusesMatch == MCSpec => []StatusMatchesAlone
<1>1. MCInit => Init /\ Alone
  <2>1. Init => \A q \in Request : StillSo(q)
    BY DEF Init, StillSo, StillLeased, StillDealt, StillEmpty, Idle
  <2>2. Init => Sole /\ Placed /\ StatusMatches
    BY DEF Init, Sole, Placed, StatusMatches
  <2> QED BY <2>1, <2>2 DEF MCInit, Alone, AloneFacts
<1>2. [MCNext]_mcvars => [Next]_vars
  BY DEF MCNext, mcvars
<1>3. IInv /\ IInv' /\ Alone /\ [MCNext]_mcvars => Alone'
  <2> SUFFICES ASSUME IInv, IInv', Alone, [MCNext]_mcvars, alone'
               PROVE  AloneFacts'
    BY DEF Alone
  <2>1. CASE MCNext
    <3>1. DOMAIN req' = Request
      BY DEF IInv, TypeOK
    <3>2. alone /\ Sole' /\ (req' # req \/ \A q \in Request : req[q] = Idle)
      BY <2>1, <3>1, StepsAlone
    <3> QED BY <2>1, <3>2, NextAlone DEF Alone, MCNext
  <2>2. CASE UNCHANGED mcvars
    <3>1. AloneFacts /\ UNCHANGED vars
      BY <2>2 DEF mcvars, vars, Alone
    <3>2. Sole'
      BY <3>1 DEF AloneFacts, Sole, vars
    <3> QED BY <3>1, <3>2, QuietAlone DEF vars
  <2> QED BY <2>1, <2>2
<1>4. Alone => StatusMatchesAlone
  BY DEF Alone, AloneFacts, StatusMatchesAlone
<1>5. Init => IInv
  BY Initially
<1>6. IInv /\ [Next]_vars => IInv'
  BY Inductive
<1> QED BY <1>1, <1>2, <1>3, <1>4, <1>5, <1>6, PTL DEF MCSpec
=============================================================================
