------------------------------ MODULE Leasing ------------------------------
(***************************************************************************)
(* Properties, deals and leases (rental contracts) of one tenant database: *)
(* backend/src/modules/real-estate/real-estate.service.ts.                 *)
(*                                                                         *)
(* A handler that claims a property locks its row before it looks for a    *)
(* rival, and every handler that changes a deal or a lease writes the      *)
(* property's row before it ends: a claim is one step here.  The others    *)
(* read their record without a lock ("read"), then lock its row and        *)
(* compute the status of its property ("sync"), and may have to wait for   *)
(* the property's row before they write it and end.                        *)
(*                                                                         *)
(* Left out: names, dates, rents and notes; the copy of a lease's property *)
(* in the row of its client; the version a form may carry (a request       *)
(* without one succeeds more often); the cashbook rows and postings of a   *)
(* deal, which are replaced under the lock of its row by what it says.     *)
(***************************************************************************)
EXTENDS Integers, Sequences, FiniteSets, FiniteSetsExt

CONSTANTS
  Property,      \* bound: the properties that may be created
  PropertyLimit, \* the properties the plan allows, 0 for any number
  Client,        \* bound: the rows of the table "tenants": tenants and buyers
  MaxLease,      \* bound: the leases that may be created
  MaxDeal,       \* bound: the deals that may be created
  Form,          \* what a deal may ask for: type, total amount, paid amount
  Request        \* bound: the requests in flight at one time

DealType == {"SALE", "RENTAL"}

ASSUME ConstantsOK ==
  /\ MaxLease \in Nat /\ MaxDeal \in Nat /\ PropertyLimit \in Nat
  /\ Form \subseteq [type : DealType, total : Nat, paid : Nat]
  /\ IsFiniteSet(Request)

VARIABLES
  property,  \* properties, by id
  client,    \* tenants: which rows exist, and which of them are deleted
  lease,     \* rental_contracts in the order of their creation
  deal,      \* deals in the order of their creation
  req        \* requests between their steps

vars == <<property, client, lease, deal, req>>

Leases == 1..MaxLease
Deals == 1..MaxDeal
InForce == {"ACTIVE", "RENEWAL_DUE"}
LeaseStatus == InForce \cup {"EXPIRED", "TERMINATED"}
PropertyStatus == {"AVAILABLE", "UNDER_CONTRACT", "SOLD", "RENTED"}

\* live is deletedAt = null.
PropertyRow == [live : BOOLEAN, status : PropertyStatus]
LeaseRow == [live : BOOLEAN, status : LeaseStatus, property : Property, client : Client]
DealRow == [live : BOOLEAN, type : DealType, total : Nat, paid : Nat,
            property : Property, client : Client]

LiveProperty(p) == p \in DOMAIN property /\ property[p].live

-----------------------------------------------------------------------------
(* What a property's status should be.                                     *)

\* The leases in force on a property, among the given rows.
Lets(leases, p) ==
  {c \in DOMAIN leases :
     leases[c].live /\ leases[c].status \in InForce /\ leases[c].property = p}

\* dealPaymentStatus.
PaymentStatus(d) ==
  IF d.paid = 0 THEN "PENDING" ELSE IF d.paid >= d.total THEN "PAID" ELSE "PARTIAL"

\* Faulty variant: the payment status is saved as the property's.
FaultyDealtStatus(d) == IF d.type = "SALE" /\ PaymentStatus(d) = "PAID" THEN "SOLD" ELSE PaymentStatus(d)

\* What the latest live deal of a property makes of it.
DealtStatus(d) ==
  CASE d.type = "SALE" /\ PaymentStatus(d) = "PAID" -> "SOLD"
    [] d.type = "RENTAL" /\ PaymentStatus(d) # "PENDING" -> "RENTED"
    [] OTHER -> "UNDER_CONTRACT"

DealsOn(deals, p) == {d \in DOMAIN deals : deals[d].live /\ deals[d].property = p}

\* syncDealPropertyStatus: a lease in force comes before the latest live deal.
SyncedStatus(leases, deals, p) ==
  IF Lets(leases, p) # {} THEN "RENTED"
  ELSE IF DealsOn(deals, p) = {} THEN "AVAILABLE"
       ELSE DealtStatus(deals[Max(DealsOn(deals, p))])

-----------------------------------------------------------------------------
(* Requests and row locks.                                                 *)

Idle == [op |-> "idle", stage |-> "none"]

LeaseRequest ==
  [op : {"transition", "update_lease", "delete_lease"}, stage : {"read", "sync"},
   id : Leases, from : Property, to : LeaseRow, status : PropertyStatus]
DealRequest ==
  [op : {"update_deal", "delete_deal"}, stage : {"read", "sync"},
   id : Deals, from : Property, to : DealRow, status : PropertyStatus]
DeleteRequest ==
  [op : {"delete_property"}, stage : {"read"}, id : Property]
    \cup [op : {"delete_client"}, stage : {"read"}, id : Client]

TypeOK ==
  /\ DOMAIN property \subseteq Property
  /\ \A p \in DOMAIN property : property[p] \in PropertyRow
  /\ client \in [Client -> {"NONE", "LIVE", "DELETED"}]
  /\ lease \in Seq(LeaseRow) /\ Len(lease) <= MaxLease
  /\ deal \in Seq(DealRow) /\ Len(deal) <= MaxDeal
  /\ req \in [Request -> {Idle} \cup LeaseRequest \cup DealRequest \cup DeleteRequest]

Begin(q, r) == req[q] = Idle /\ req' = [req EXCEPT ![q] = r]
\* A handler of one step needs a slot too: with one Request, handlers run one by one.
Slot == (\E q \in Request : req[q] = Idle) /\ UNCHANGED req
Finish(q) == req' = [req EXCEPT ![q] = Idle]

Syncing(q, ops) == req[q].stage = "sync" /\ req[q].op \in ops
LeaseOps == {"transition", "delete_lease"}
DealOps == {"update_deal", "delete_deal"}

\* No other request holds the row of the lease, of the deal, of the property.  Only the
\* edit of a deal that moves to another property waits while it holds a property.
LeaseFree(c) == \A r \in Request : Syncing(r, LeaseOps) => req[r].id # c
DealFree(d) == \A r \in Request : Syncing(r, DealOps) => req[r].id # d
PropertyFree(q, p) ==
  \A r \in Request \ {q} :
    Syncing(r, {"update_deal"}) /\ req[r].to.property # req[r].from =>
      req[r].to.property # p
Unlocked(p) == \A q \in Request : PropertyFree(q, p)

SetStatus(p, s) == property' = [property EXCEPT ![p].status = s]

Init ==
  /\ property = [p \in {} |-> [live |-> FALSE, status |-> "AVAILABLE"]]
  /\ client = [k \in Client |-> "NONE"]
  /\ lease = <<>>
  /\ deal = <<>>
  /\ req = [q \in Request |-> Idle]

-----------------------------------------------------------------------------
(* Properties and clients.                                                 *)

\* createProperty counts and inserts under the advisory lock of the quota.
CreateProperty(p) ==
  /\ Slot
  /\ p \notin DOMAIN property
  /\ PropertyLimit = 0 \/ Cardinality({o \in DOMAIN property : property[o].live}) < PropertyLimit
  /\ property' = [o \in DOMAIN property \cup {p} |->
                    IF o = p THEN [live |-> TRUE, status |-> "AVAILABLE"] ELSE property[o]]
  /\ UNCHANGED <<client, lease, deal>>

\* deleteProperty counts the deals and leases of any status ...
DeletePropertyRead(q, p) ==
  /\ \A c \in DOMAIN lease : ~(lease[c].live /\ lease[c].property = p)
  /\ DealsOn(deal, p) = {}
  /\ Begin(q, [op |-> "delete_property", stage |-> "read", id |-> p])
  /\ UNCHANGED <<property, client, lease, deal>>

\* ... and then deletes the row if it is still there.
DeletePropertyCommit(q) ==
  /\ req[q].op = "delete_property"
  /\ LiveProperty(req[q].id) /\ Unlocked(req[q].id)
  /\ property' = [property EXCEPT ![req[q].id].live = FALSE]
  /\ Finish(q)
  /\ UNCHANGED <<client, lease, deal>>

CreateTenant(k) ==
  /\ Slot
  /\ client[k] = "NONE"
  /\ client' = [client EXCEPT ![k] = "LIVE"]
  /\ UNCHANGED <<property, lease, deal>>

\* deleteTenant counts the leases in force and the deals of the client ...
DeleteTenantRead(q, k) ==
  /\ \A c \in DOMAIN lease :
       ~(lease[c].live /\ lease[c].status \in InForce /\ lease[c].client = k)
  /\ \A d \in DOMAIN deal : ~(deal[d].live /\ deal[d].client = k)
  /\ Begin(q, [op |-> "delete_client", stage |-> "read", id |-> k])
  /\ UNCHANGED <<property, client, lease, deal>>

DeleteTenantCommit(q) ==
  /\ req[q].op = "delete_client"
  /\ client[req[q].id] = "LIVE"
  /\ client' = [client EXCEPT ![req[q].id] = "DELETED"]
  /\ Finish(q)
  /\ UNCHANGED <<property, lease, deal>>

-----------------------------------------------------------------------------
(* Leases.                                                                 *)

\* Faulty variant: a new lease looks for ACTIVE rivals only.
FaultyNoRival(c, p) == {o \in Lets(lease, p) : lease[o].status = "ACTIVE"} \ {c} = {}

\* No other lease is in force on the property.
NoRival(c, p) == Lets(lease, p) \ {c} = {}

CreateRentalContract(p, k) ==
  /\ Slot
  /\ LiveProperty(p) /\ Unlocked(p)
  /\ property[p].status # "SOLD"
  /\ NoRival(Len(lease) + 1, p)
  /\ client[k] = "LIVE"
  /\ Len(lease) < MaxLease
  /\ lease' = Append(lease, [live |-> TRUE, status |-> "ACTIVE", property |-> p, client |-> k])
  /\ SetStatus(p, "RENTED")
  /\ UNCHANGED <<client, deal>>

\* What every handler of an existing lease reads first, and what it means to write.
LeaseRead(q, op, c, to) ==
  /\ lease[c].live
  /\ Begin(q, [op |-> op, stage |-> "read", id |-> c, from |-> lease[c].property,
               to |-> to, status |-> "AVAILABLE"])
  /\ UNCHANGED <<property, client, lease, deal>>

\* What updateRentalContract saves: the form, with the status that it read.
Edited(row, p, k) == [row EXCEPT !.property = p, !.client = k]

UpdateRentalContractRead(q, c, p, k) ==
  LeaseRead(q, "update_lease", c, Edited(lease[c], p, k))

\* The rows of both properties are locked, then rivals of the status that was read are
\* looked for, and the lease is saved by its id: deleted or not, whatever it became.
UpdateRentalContractCommit(q) ==
  LET c == req[q].id
      from == req[q].from
      to == req[q].to.property
      saved == [lease EXCEPT ![c] = [req[q].to EXCEPT !.live = lease[c].live]]
  IN
  /\ req[q].op = "update_lease"
  /\ LiveProperty(from) /\ LiveProperty(to) /\ Unlocked(from) /\ Unlocked(to)
  /\ req[q].to.status \in InForce => NoRival(c, to)
  /\ LeaseFree(c)
  /\ lease' = saved
  /\ property' = [property EXCEPT ![from].status = SyncedStatus(saved, deal, from),
                                  ![to].status = SyncedStatus(saved, deal, to)]
  /\ Finish(q)
  /\ UNCHANGED <<client, deal>>

\* The table of transitionRentalContract.
Allowed(from, to) ==
  CASE from \in InForce -> to \in LeaseStatus \ {from}
    [] from = "EXPIRED" -> to \in {"ACTIVE", "TERMINATED"}
    [] OTHER -> FALSE

TransitionRead(q, c, s) ==
  /\ Allowed(lease[c].status, s)
  /\ LeaseRead(q, "transition", c, [lease[c] EXCEPT !.status = s])

DeleteRentalContractRead(q, c) ==
  LeaseRead(q, "delete_lease", c, [lease[c] EXCEPT !.live = FALSE, !.status = "TERMINATED"])

\* The row a transition or a deletion leaves: it writes these columns only, by id.
Rewritten(q) ==
  [lease EXCEPT ![req[q].id].status = req[q].to.status,
                ![req[q].id].live = @ /\ req[q].to.live]

\* Both lock the lease's row and compute the status of the property they read ...
LeaseSync(q) ==
  /\ req[q].stage = "read" /\ req[q].op \in LeaseOps
  /\ LeaseFree(req[q].id)
  /\ req' = [req EXCEPT ![q].stage = "sync",
                        ![q].status = SyncedStatus(Rewritten(q), deal, req[q].from)]
  /\ UNCHANGED <<property, client, lease, deal>>

\* ... and write it when they get the property's row.
LeaseCommit(q) ==
  /\ Syncing(q, LeaseOps)
  /\ Unlocked(req[q].from)
  /\ lease' = Rewritten(q)
  /\ SetStatus(req[q].from, req[q].status)
  /\ Finish(q)
  /\ UNCHANGED <<client, deal>>

-----------------------------------------------------------------------------
(* Deals.                                                                  *)

\* claimAvailableProperty.
Claimable(p) == LiveProperty(p) /\ property[p].status \notin {"SOLD", "RENTED"}

DealOf(form, p, k) ==
  [live |-> TRUE, type |-> form.type, total |-> form.total, paid |-> form.paid,
   property |-> p, client |-> k]

CreateDeal(form, p, k) ==
  LET deals == Append(deal, DealOf(form, p, k)) IN
  /\ Slot
  /\ form.paid <= form.total
  /\ Claimable(p) /\ Unlocked(p)
  /\ client[k] = "LIVE"
  /\ Len(deal) < MaxDeal
  /\ deal' = deals
  /\ SetStatus(p, SyncedStatus(lease, deals, p))
  /\ UNCHANGED <<client, lease>>

DealRead(q, op, d, to) ==
  /\ deal[d].live
  /\ Begin(q, [op |-> op, stage |-> "read", id |-> d, from |-> deal[d].property,
               to |-> to, status |-> "AVAILABLE"])
  /\ UNCHANGED <<property, client, lease, deal>>

\* A form without a paid amount keeps the one that was read.
UpdateDealRead(q, d, form, p, k, paid) ==
  /\ form.paid <= form.total
  /\ paid \in {form.paid, deal[d].paid}
  /\ DealRead(q, "update_deal", d, [DealOf(form, p, k) EXCEPT !.paid = paid])

DeleteDealRead(q, d) == DealRead(q, "delete_deal", d, [deal[d] EXCEPT !.live = FALSE])

\* updateMany replaces the row of a live deal; a deletion writes by id.
RewrittenDeal(q) ==
  IF req[q].op = "update_deal" THEN [deal EXCEPT ![req[q].id] = req[q].to]
  ELSE [deal EXCEPT ![req[q].id].live = FALSE]

\* A deal that moves claims its new property first.  The deal's row is locked, and the
\* status of the property it had when it was read is computed ...
DealSync(q) ==
  /\ req[q].stage = "read" /\ req[q].op \in DealOps
  /\ req[q].to.property # req[q].from =>
       Claimable(req[q].to.property) /\ Unlocked(req[q].to.property)
  /\ DealFree(req[q].id)
  /\ req[q].op = "update_deal" => deal[req[q].id].live
  /\ req' = [req EXCEPT ![q].stage = "sync",
                        ![q].status = SyncedStatus(lease, RewrittenDeal(q), req[q].from)]
  /\ UNCHANGED <<property, client, lease, deal>>

\* Faulty variant: a deal that moves leaves the status of its old property.
FaultyDealCommit(q) ==
  /\ Syncing(q, DealOps)
  /\ PropertyFree(q, req[q].from)
  /\ deal' = RewrittenDeal(q)
  /\ SetStatus(req[q].to.property, SyncedStatus(lease, RewrittenDeal(q), req[q].to.property))
  /\ Finish(q)
  /\ UNCHANGED <<client, lease>>

\* ... and is written when that property's row is free; the new property, which is
\* locked, gets its own.
DealCommit(q) ==
  LET from == req[q].from
      to == req[q].to.property
  IN
  /\ Syncing(q, DealOps)
  /\ PropertyFree(q, from)
  /\ deal' = RewrittenDeal(q)
  /\ property' = [property EXCEPT
       ![to].status = SyncedStatus(lease, RewrittenDeal(q), to),
       ![from].status = req[q].status]
  /\ Finish(q)
  /\ UNCHANGED <<client, lease>>

\* A transaction may roll back at any time: a row is gone or deleted, a rival was found,
\* PostgreSQL ends a deadlock, the database refuses or times out.
Abort(q) ==
  /\ req[q] # Idle
  /\ Finish(q)
  /\ UNCHANGED <<property, client, lease, deal>>

Next ==
  \/ \E p \in Property : CreateProperty(p)
  \/ \E k \in Client : CreateTenant(k)
  \/ \E p \in Property, k \in Client : CreateRentalContract(p, k)
  \/ \E form \in Form, p \in Property, k \in Client : CreateDeal(form, p, k)
  \/ \E q \in Request :
       \/ \E p \in DOMAIN property : DeletePropertyRead(q, p)
       \/ DeletePropertyCommit(q)
       \/ \E k \in Client : DeleteTenantRead(q, k)
       \/ DeleteTenantCommit(q)
       \/ \E c \in DOMAIN lease, p \in Property, k \in Client :
            UpdateRentalContractRead(q, c, p, k)
       \/ UpdateRentalContractCommit(q)
       \/ \E c \in DOMAIN lease, s \in LeaseStatus : TransitionRead(q, c, s)
       \/ \E c \in DOMAIN lease : DeleteRentalContractRead(q, c)
       \/ LeaseSync(q)
       \/ LeaseCommit(q)
       \/ \E d \in DOMAIN deal, form \in Form, p \in Property, k \in Client :
            \E paid \in {form.paid, deal[d].paid} : UpdateDealRead(q, d, form, p, k, paid)
       \/ \E d \in DOMAIN deal : DeleteDealRead(q, d)
       \/ DealSync(q)
       \/ DealCommit(q)
       \/ Abort(q)

Spec == Init /\ [][Next]_vars
-----------------------------------------------------------------------------
(* Properties.                                                             *)

Enters(c) ==
  /\ c \in DOMAIN lease' /\ lease'[c].live /\ lease'[c].status \in InForce
  /\ c \in DOMAIN lease =>
       ~(lease[c].live /\ lease[c].status \in InForce /\ lease[c].property = lease'[c].property)

Transitioned(c) == \E q \in Request : Syncing(q, {"transition"}) /\ req[q].id = c /\ req'[q] = Idle

\* A lease that is created, moved to another property or saved again with the status of
\* an old read finds no other lease in force there, whatever runs beside it ("lock every
\* affected property in a deterministic order so concurrent updates cannot
\* double-assign the same property").  Transitions do not ask; see the README.
ClaimExclusive ==
  [][\A c \in Leases : Enters(c) /\ ~Transitioned(c) =>
       Lets(lease', lease'[c].property) = {c}]_vars

\* The status of a property can be recomputed from its leases and deals after any
\* sequence of creations, edits, moves, transitions and deletions, and a property that was
\* deleted has no lease and no deal.
StatusMatches ==
  \A p \in DOMAIN property :
    IF property[p].live
    THEN property[p].status = SyncedStatus(lease, deal, p)
    ELSE /\ \A c \in DOMAIN lease : ~(lease[c].live /\ lease[c].property = p)
         /\ DealsOn(deal, p) = {}
=============================================================================
