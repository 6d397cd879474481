---------------------------- MODULE Construction ----------------------------
(***************************************************************************)
(* Workforce contracts and the stock of building materials:                *)
(* backend/src/modules/construction/construction.service.ts.               *)
(*                                                                         *)
(* READ COMMITTED.  Payments and adjustments lock the contract's row       *)
(* before they read it; edits, transitions and deletions read it first and *)
(* write it by id, an edit also by the version its form was opened with    *)
(* if the form sends one.  A movement of stock reads the material and      *)
(* writes it only if its version is still the same.                        *)
(*                                                                         *)
(* Left out: projects and tasks; which workers are assigned, which decides *)
(* who is paid (a payment may be refused: Abort); cashbook rows, ledger    *)
(* entries and postings, which a payment inserts in its transaction; daily *)
(* expenses, booked the way of rent payments (see Rent); unit costs.       *)
(***************************************************************************)
EXTENDS Integers

CONSTANTS
  Contract,    \* bound: the contracts that may be created
  Material,    \* bound: the materials that may be created
  Request,     \* bound: the requests in flight at one time
  Amount,      \* amounts that are paid, moved or budgeted
  Delta,       \* amounts by which a budget is adjusted
  MaxVersion,  \* bound: how often a row is written
  None

ContractStatus == {"DRAFT", "ACTIVE", "COMPLETED", "CANCELLED", "SUSPENDED"}
Payable == {"ACTIVE", "COMPLETED"}

ASSUME ConstantsOK ==
  /\ Amount \subseteq Nat \ {0} /\ Delta \subseteq Int /\ MaxVersion \in Nat
  /\ None \notin Nat /\ None \notin ContractStatus

VARIABLES
  contract,  \* workforce contracts, with the sum of their adjustments
  material,  \* building materials, with the sum of their movements
  req,       \* requests between their read and their commit
  exposed    \* history: contracts whose budget was edited without a version, or when reduced

vars == <<contract, material, req, exposed>>

Row == {"NONE", "LIVE", "DELETED"}

ContractRow ==
  [row : Row, status : ContractStatus, budget : Nat, adjusted : Int, paid : Nat, version : Nat]

\* given: the quantity a form set last; moved: what was moved since.
MaterialRow == [row : Row, quantity : Nat, version : Nat, given : Nat, moved : Int]

PayRequest == [op : {"pay"}, contract : Contract, amount : Amount]
AdjustRequest == [op : {"adjust"}, contract : Contract, delta : Delta]
\* A form may leave out the status and the version.
EditRequest == [op : {"edit"}, contract : Contract, budget : Nat,
                status : ContractStatus \cup {None}, version : Nat \cup {None}]
TransitionRequest == [op : {"transition"}, contract : Contract, status : ContractStatus]
DeleteRequest == [op : {"delete"}, contract : Contract]
MoveRequest == [op : {"move"}, material : Material, effect : Int, quantity : Nat, version : Nat]

Idle == [op |-> "idle"]

TypeOK ==
  /\ contract \in [Contract -> ContractRow]
  /\ material \in [Material -> MaterialRow]
  /\ req \in [Request -> {Idle} \cup PayRequest \cup AdjustRequest \cup EditRequest
                         \cup TransitionRequest \cup DeleteRequest \cup MoveRequest]
  /\ exposed \subseteq Contract

AdjustedBudget(c) == contract[c].budget + contract[c].adjusted
LiveContract(c) == contract[c].row = "LIVE"
LiveMaterial(m) == material[m].row = "LIVE"

Begin(q, r) == req[q] = Idle /\ req' = [req EXCEPT ![q] = r]
Finish(q) == req' = [req EXCEPT ![q] = Idle]
\* A handler of one step needs a slot too: with one Request, handlers run one by one.
Slot == (\E q \in Request : req[q] = Idle) /\ UNCHANGED req

\* Faulty variant: the rows are read without FOR UPDATE.
FaultyLocked(c) == c \notin Contract

\* SELECT ... FOR UPDATE: who wants to write or lock the row waits.
Locked(c) == \E q \in Request : req[q].op \in {"pay", "adjust"} /\ req[q].contract = c

\* A write of the contract's row, at the end of request q.
WriteContract(q, c, row) ==
  /\ contract[c].version < MaxVersion
  /\ contract' = [contract EXCEPT ![c] = [row EXCEPT !.version = @ + 1]]
  /\ Finish(q)
  /\ UNCHANGED material

Init ==
  /\ contract = [c \in Contract |-> [row |-> "NONE", status |-> "DRAFT", budget |-> 0,
                                     adjusted |-> 0, paid |-> 0, version |-> 0]]
  /\ material = [m \in Material |-> [row |-> "NONE", quantity |-> 0, version |-> 0,
                                     given |-> 0, moved |-> 0]]
  /\ req = [q \in Request |-> Idle]
  /\ exposed = {}

-----------------------------------------------------------------------------
(* Workforce contracts.                                                    *)

CreateWorkforceContract(c, budget, status) ==
  /\ Slot
  /\ contract[c].row = "NONE"
  /\ contract' = [contract EXCEPT ![c] = [@ EXCEPT !.row = "LIVE", !.budget = budget,
                                                   !.status = status]]
  /\ UNCHANGED <<material, exposed>>

RecordPaymentLock(q, c, amount) ==
  /\ LiveContract(c) /\ ~Locked(c)
  /\ contract[c].status \in Payable
  /\ contract[c].paid + amount <= AdjustedBudget(c)
  /\ Begin(q, [op |-> "pay", contract |-> c, amount |-> amount])
  /\ UNCHANGED <<contract, material, exposed>>

RecordPaymentCommit(q) ==
  /\ req[q].op = "pay"
  /\ LET c == req[q].contract IN
       WriteContract(q, c, [contract[c] EXCEPT !.paid = @ + req[q].amount])
  /\ UNCHANGED exposed

AdjustBudgetLock(q, c, delta) ==
  /\ LiveContract(c) /\ ~Locked(c)
  /\ AdjustedBudget(c) + delta >= contract[c].paid
  /\ Begin(q, [op |-> "adjust", contract |-> c, delta |-> delta])
  /\ UNCHANGED <<contract, material, exposed>>

AdjustBudgetCommit(q) ==
  /\ req[q].op = "adjust"
  /\ LET c == req[q].contract IN
       WriteContract(q, c, [contract[c] EXCEPT !.adjusted = @ + req[q].delta])
  /\ UNCHANGED exposed

\* The form was opened on the present row; one opened on an older row, and sent with its
\* version, is refused when it is written.
UpdateContractRead(q, c, budget, status, version) ==
  /\ LiveContract(c)
  /\ version \in {contract[c].version, None}
  /\ budget >= contract[c].paid
  /\ Begin(q, [op |-> "edit", contract |-> c, budget |-> budget, status |-> status,
               version |-> version])
  /\ UNCHANGED <<contract, material, exposed>>

\* The condition of the UPDATE.
Current(version, row) == row.row = "LIVE" /\ version \in {row.version, None}

UpdateContractCommit(q) ==
  LET c == req[q].contract
      version == req[q].version
  IN
  /\ req[q].op = "edit"
  /\ ~Locked(c) /\ Current(version, contract[c])
  /\ WriteContract(q, c, [contract[c] EXCEPT !.budget = req[q].budget,
                            !.status = IF req[q].status = None THEN @ ELSE req[q].status])
  /\ exposed' = IF version = None \/ contract[c].adjusted < 0 THEN exposed \cup {c} ELSE exposed

Allowed(status) ==
  CASE status = "DRAFT" -> {"ACTIVE", "CANCELLED"}
    [] status = "ACTIVE" -> {"SUSPENDED", "COMPLETED", "CANCELLED"}
    [] status = "SUSPENDED" -> {"ACTIVE", "CANCELLED"}
    [] OTHER -> {}

TransitionRead(q, c, status) ==
  /\ LiveContract(c)
  /\ status \in Allowed(contract[c].status)
  /\ Begin(q, [op |-> "transition", contract |-> c, status |-> status])
  /\ UNCHANGED <<contract, material, exposed>>

TransitionCommit(q) ==
  /\ req[q].op = "transition"
  /\ LET c == req[q].contract IN
       ~Locked(c) /\ WriteContract(q, c, [contract[c] EXCEPT !.status = req[q].status])
  /\ UNCHANGED exposed

DeleteContractRead(q, c) ==
  /\ LiveContract(c)
  /\ contract[c].paid = 0
  /\ Begin(q, [op |-> "delete", contract |-> c])
  /\ UNCHANGED <<contract, material, exposed>>

DeleteContractCommit(q) ==
  /\ req[q].op = "delete"
  /\ LET c == req[q].contract IN
       ~Locked(c) /\ WriteContract(q, c, [contract[c] EXCEPT !.row = "DELETED"])
  /\ UNCHANGED exposed

-----------------------------------------------------------------------------
(* Building materials.                                                     *)

WriteMaterial(m, row) ==
  /\ material[m].version < MaxVersion
  /\ material' = [material EXCEPT ![m] = [row EXCEPT !.version = @ + 1]]

\* The row with the quantity a form gives it.
Given(row, n) == [row EXCEPT !.quantity = n, !.given = n, !.moved = 0]

CreateMaterial(m, n) ==
  /\ Slot
  /\ material[m].row = "NONE"
  /\ material' = [material EXCEPT ![m] = [Given(@, n) EXCEPT !.row = "LIVE"]]
  /\ UNCHANGED <<contract, exposed>>

\* The form may give a quantity, or leave it out.  Its version is not compared.
UpdateMaterial(m, n) ==
  /\ Slot
  /\ LiveMaterial(m)
  /\ WriteMaterial(m, IF n = None THEN material[m] ELSE Given(material[m], n))
  /\ UNCHANGED <<contract, exposed>>

DeleteMaterial(m) ==
  /\ Slot
  /\ LiveMaterial(m)
  /\ WriteMaterial(m, [material[m] EXCEPT !.row = "DELETED"])
  /\ UNCHANGED <<contract, exposed>>

\* What a movement does to the stock: RESTOCK and ADJUSTMENT add, USAGE takes.
Effect(type, n) == IF type = "USAGE" THEN -n ELSE n

\* Faulty variant: stock that is missing is not noticed.
FaultyMovementRead(q, m, type, n) ==
  /\ LiveMaterial(m)
  /\ Begin(q, [op |-> "move", material |-> m, effect |-> Effect(type, n),
               quantity |-> material[m].quantity + Effect(type, n),
               version |-> material[m].version])
  /\ UNCHANGED <<contract, material, exposed>>

MovementRead(q, m, type, n) ==
  LET next == material[m].quantity + Effect(type, n) IN
  /\ LiveMaterial(m)
  /\ next >= 0
  /\ Begin(q, [op |-> "move", material |-> m, effect |-> Effect(type, n), quantity |-> next,
               version |-> material[m].version])
  /\ UNCHANGED <<contract, material, exposed>>

\* Faulty variant: whatever happened to the material since.
FaultySame(m, version) == LiveMaterial(m)

\* updateMany where { id, version, deletedAt: null }
Same(m, version) == LiveMaterial(m) /\ material[m].version = version

MovementCommit(q) ==
  LET m == req[q].material IN
  /\ req[q].op = "move"
  /\ Same(m, req[q].version)
  /\ WriteMaterial(m, [material[m] EXCEPT !.quantity = req[q].quantity,
                                          !.moved = @ + req[q].effect])
  /\ Finish(q)
  /\ UNCHANGED <<contract, exposed>>

-----------------------------------------------------------------------------

\* A transaction that is refused or fails.
Abort(q) ==
  /\ req[q] # Idle
  /\ Finish(q)
  /\ UNCHANGED <<contract, material, exposed>>

Next ==
  \/ \E c \in Contract, budget \in Amount \cup {0}, status \in ContractStatus :
       CreateWorkforceContract(c, budget, status)
  \/ \E m \in Material, n \in Amount \cup {0} : CreateMaterial(m, n)
  \/ \E m \in Material, n \in Amount \cup {0, None} : UpdateMaterial(m, n)
  \/ \E m \in Material : DeleteMaterial(m)
  \/ \E q \in Request :
       \/ \E c \in Contract, amount \in Amount : RecordPaymentLock(q, c, amount)
       \/ RecordPaymentCommit(q)
       \/ \E c \in Contract, delta \in Delta : AdjustBudgetLock(q, c, delta)
       \/ AdjustBudgetCommit(q)
       \/ \E c \in Contract, budget \in Amount \cup {0}, status \in ContractStatus \cup {None},
             version \in 0..MaxVersion \cup {None} :
            UpdateContractRead(q, c, budget, status, version)
       \/ UpdateContractCommit(q)
       \/ \E c \in Contract, status \in ContractStatus : TransitionRead(q, c, status)
       \/ TransitionCommit(q)
       \/ \E c \in Contract : DeleteContractRead(q, c)
       \/ DeleteContractCommit(q)
       \/ \E m \in Material, type \in {"RESTOCK", "USAGE", "ADJUSTMENT"}, n \in Amount :
            MovementRead(q, m, type, n)
       \/ MovementCommit(q)
       \/ Abort(q)

Spec == Init /\ [][Next]_vars

-----------------------------------------------------------------------------
(* Properties.                                                             *)

\* No more is paid under a contract than its adjusted budget, whatever payments, adjustments
\* and edits run at once ("concurrent payments serialize ... and cannot exceed the remaining
\* adjusted budget").  Contracts that were edited without a version, or below an adjustment
\* that took from the budget, are left out: updateWorkforceContract compares the original
\* budget, with what it read.
WithinBudget == \A c \in Contract \ exposed : contract[c].paid <= AdjustedBudget(c)

\* The stock is what a form gave last and the movements recorded since, none of them lost.
StockFollows == \A m \in Material : material[m].quantity = material[m].given + material[m].moved
=============================================================================
