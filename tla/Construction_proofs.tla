------------------------- MODULE Construction_proofs -------------------------
(***************************************************************************)
(* For any contracts, materials, amounts and concurrent requests: rows     *)
(* keep their types, no contract is paid beyond its adjusted budget unless *)
(* it was exposed, and no movement of stock is lost.                       *)
(***************************************************************************)
EXTENDS Construction, TLAPS

RequestRow == PayRequest \cup AdjustRequest \cup EditRequest \cup TransitionRequest
              \cup DeleteRequest \cup MoveRequest

\* What a request may rely on when it commits: who holds the lock, on all of what it read;
\* who compares the version, on what it read if the version is the same.
PaySound(r, rows) ==
  /\ rows[r.contract].row # "NONE"
  /\ rows[r.contract].paid + r.amount <= rows[r.contract].budget + rows[r.contract].adjusted
AdjustSound(r, rows) ==
  /\ rows[r.contract].row # "NONE"
  /\ rows[r.contract].budget + rows[r.contract].adjusted + r.delta >= rows[r.contract].paid
EditSound(r, rows) ==
  /\ rows[r.contract].row # "NONE"
  /\ r.version # None =>
       /\ r.version <= rows[r.contract].version
       /\ r.version = rows[r.contract].version => rows[r.contract].paid <= r.budget
WriteSound(r, rows) == rows[r.contract].row # "NONE"
MoveSound(r, stock) ==
  /\ stock[r.material].row # "NONE"
  /\ r.version <= stock[r.material].version
  /\ r.version = stock[r.material].version => r.quantity = stock[r.material].quantity + r.effect

Sound(r, rows, stock) ==
  /\ r \in PayRequest => PaySound(r, rows)
  /\ r \in AdjustRequest => AdjustSound(r, rows)
  /\ r \in EditRequest => EditSound(r, rows)
  /\ r \in TransitionRequest \cup DeleteRequest => WriteSound(r, rows)
  /\ r \in MoveRequest => MoveSound(r, stock)

Holder(r, c) == r.op \in {"pay", "adjust"} /\ r.contract = c

AllSound == \A q \in Request : Sound(req[q], contract, material)
OneHolder == \A p, q \in Request, c \in Contract :
               Holder(req[p], c) /\ Holder(req[q], c) => p = q
NothingPaidYet == \A c \in Contract : contract[c].row = "NONE" =>
                    contract[c].paid = 0 /\ contract[c].adjusted = 0

IInv == TypeOK /\ AllSound /\ OneHolder /\ NothingPaidYet /\ WithinBudget /\ StockFollows

-----------------------------------------------------------------------------

LEMMA Kinds ==
  ASSUME NEW r \in RequestRow \cup {Idle}
  PROVE  /\ r.op = "pay" => r \in PayRequest
         /\ r.op = "adjust" => r \in AdjustRequest
         /\ r.op = "edit" => r \in EditRequest
         /\ r.op = "transition" => r \in TransitionRequest
         /\ r.op = "delete" => r \in DeleteRequest
         /\ r.op = "move" => r \in MoveRequest
  BY DEF RequestRow, Idle, PayRequest, AdjustRequest, EditRequest, TransitionRequest,
         DeleteRequest, MoveRequest

LEMMA RequestTyped ==
  ASSUME IInv, NEW q \in Request
  PROVE  req[q] \in RequestRow \cup {Idle} /\ Sound(req[q], contract, material)
  BY DEF IInv, TypeOK, AllSound, RequestRow

LEMMA IdleSound ==
  ASSUME NEW rows, NEW stock
  PROVE  Sound(Idle, rows, stock) /\ \A c : ~Holder(Idle, c)
  BY DEF Sound, Holder, Idle, PayRequest, AdjustRequest, EditRequest, TransitionRequest,
         DeleteRequest, MoveRequest

\* A request begins, or ends without a write.
LEMMA QuietStep ==
  ASSUME IInv, NEW q \in Request, NEW r \in RequestRow \cup {Idle},
         req' = [req EXCEPT ![q] = r], Sound(r, contract, material),
         \A c \in Contract : Holder(r, c) => ~Locked(c),
         UNCHANGED <<contract, material, exposed>>
  PROVE  IInv'
<1>1. TypeOK'
  BY DEF IInv, TypeOK, RequestRow
<1>2. \A p \in Request : req'[p] = IF p = q THEN r ELSE req[p]
  BY DEF IInv, TypeOK
<1>3. AllSound'
  BY <1>2 DEF IInv, AllSound
<1>4. OneHolder'
  <2>1. \A p \in Request, c \in Contract : Holder(r, c) => ~Holder(req[p], c)
    BY DEF Locked, Holder
  <2> QED BY <1>2, <2>1 DEF IInv, OneHolder
<1>5. NothingPaidYet' /\ WithinBudget' /\ StockFollows'
  BY DEF IInv, NothingPaidYet, WithinBudget, AdjustedBudget, StockFollows
<1> QED BY <1>1, <1>3, <1>4, <1>5 DEF IInv

\* What the others rely on survives a write of a contract that nobody else holds.
LEMMA SoundUnderContractWrite ==
  ASSUME NEW r \in RequestRow \cup {Idle}, NEW rows \in [Contract -> ContractRow], NEW stock,
         Sound(r, rows, stock), NEW c \in Contract, ~Holder(r, c), NEW row \in ContractRow,
         row.row # "NONE", row.version = rows[c].version + 1
  PROVE  Sound(r, [rows EXCEPT ![c] = row], stock)
<1> DEFINE after == [rows EXCEPT ![c] = row]
<1>0. \A d \in Contract : after[d] = IF d = c THEN row ELSE rows[d]
  OBVIOUS
<1>1. after[c].version = rows[c].version + 1 /\ rows[c].version \in Nat
  BY DEF ContractRow
<1> HIDE DEF after
<1>2. r \in PayRequest => PaySound(r, after)
  BY <1>0 DEF Sound, PaySound, PayRequest, Holder
<1>3. r \in AdjustRequest => AdjustSound(r, after)
  BY <1>0 DEF Sound, AdjustSound, AdjustRequest, Holder
<1>4. r \in EditRequest => EditSound(r, after)
  BY <1>0, <1>1, ConstantsOK DEF Sound, EditSound, EditRequest
<1>5. r \in TransitionRequest \cup DeleteRequest => WriteSound(r, after)
  BY <1>0 DEF Sound, WriteSound, TransitionRequest, DeleteRequest
<1>6. r \in MoveRequest => MoveSound(r, stock)
  BY DEF Sound
<1>7. Sound(r, after, stock)
  BY <1>2, <1>3, <1>4, <1>5, <1>6 DEF Sound
<1> QED BY <1>7 DEF after

\* A contract is written under the lock, or while nobody holds it.
LEMMA ContractStep ==
  ASSUME IInv, NEW q \in Request, NEW c \in Contract, NEW row \in ContractRow,
         contract' = [contract EXCEPT ![c] = row], req' = [req EXCEPT ![q] = Idle],
         UNCHANGED material, row.row # "NONE", row.version = contract[c].version + 1,
         Holder(req[q], c) \/ ~Locked(c),
         exposed \subseteq exposed', exposed' \subseteq Contract,
         c \notin exposed' => row.paid <= row.budget + row.adjusted
  PROVE  IInv'
<1>1. TypeOK'
  BY DEF IInv, TypeOK
<1>2. \A p \in Request : req'[p] = IF p = q THEN Idle ELSE req[p]
  BY DEF IInv, TypeOK
<1>3. \A p \in Request \ {q} : ~Holder(req[p], c)
  BY DEF IInv, OneHolder, Locked, Holder
<1>4. AllSound'
  <2> SUFFICES ASSUME NEW p \in Request
               PROVE  Sound(req'[p], contract', material')
    BY DEF AllSound
  <2>1. CASE p = q
    BY <1>2, <2>1, IdleSound
  <2>2. CASE p # q
    <3>1. contract \in [Contract -> ContractRow] /\ ~Holder(req[p], c)
      BY <1>3, <2>2 DEF IInv, TypeOK
    <3>2. Sound(req[p], [contract EXCEPT ![c] = row], material)
      BY <3>1, RequestTyped, SoundUnderContractWrite
    <3> QED BY <1>2, <2>2, <3>2
  <2> QED BY <2>1, <2>2
<1>5. OneHolder'
  BY <1>2, IdleSound DEF IInv, OneHolder
<1>6. \A d \in Contract : contract'[d] = IF d = c THEN row ELSE contract[d]
  BY DEF IInv, TypeOK
<1>7. NothingPaidYet' /\ WithinBudget'
  BY <1>6 DEF IInv, NothingPaidYet, WithinBudget, AdjustedBudget
<1>8. StockFollows'
  BY DEF IInv, StockFollows
<1> QED BY <1>1, <1>4, <1>5, <1>7, <1>8 DEF IInv

-----------------------------------------------------------------------------
(* Workforce contracts.                                                    *)

\* The write counts itself.
LEMMA Bump ==
  ASSUME NEW r \in ContractRow
  PROVE  /\ [r EXCEPT !.version = @ + 1] \in ContractRow
         /\ [r EXCEPT !.version = @ + 1].version = r.version + 1
         /\ [r EXCEPT !.version = @ + 1].row = r.row
         /\ [r EXCEPT !.version = @ + 1].budget = r.budget
         /\ [r EXCEPT !.version = @ + 1].adjusted = r.adjusted
         /\ [r EXCEPT !.version = @ + 1].paid = r.paid
  BY DEF ContractRow

LEMMA CreateContractKeeps ==
  ASSUME IInv, NEW c \in Contract, NEW budget \in Amount \cup {0}, NEW status \in ContractStatus,
         CreateWorkforceContract(c, budget, status)
  PROVE  IInv'
<1>1. PICK row : row = [contract[c] EXCEPT !.row = "LIVE", !.budget = budget, !.status = status]
  OBVIOUS
<1>2. contract[c] \in ContractRow /\ budget \in Nat
  BY ConstantsOK DEF IInv, TypeOK
<1>3. row \in ContractRow /\ row.row = "LIVE" /\ row.paid <= row.budget + row.adjusted
  <2>1. PICK old : old = contract[c]
    OBVIOUS
  <2>2. old \in ContractRow /\ old.paid = 0 /\ old.adjusted = 0
    BY <1>2, <2>1 DEF CreateWorkforceContract, IInv, NothingPaidYet
  <2>3. row = [old EXCEPT !.row = "LIVE", !.budget = budget, !.status = status]
    BY <1>1, <2>1
  <2>4. row.row = "LIVE" /\ row.paid = 0 /\ row.adjusted = 0 /\ row.budget = budget
    BY <2>2, <2>3 DEF ContractRow
  <2>5. row \in ContractRow
    BY <1>2, <2>2, <2>3 DEF ContractRow, Row
  <2> QED BY <1>2, <2>4, <2>5
<1>4. contract' = [contract EXCEPT ![c] = row] /\ UNCHANGED <<req, material, exposed>>
  BY <1>1 DEF CreateWorkforceContract, Slot
<1>5. \A d \in Contract : contract'[d] = IF d = c THEN row ELSE contract[d]
  BY <1>4 DEF IInv, TypeOK
<1>6. TypeOK'
  BY <1>3, <1>4 DEF IInv, TypeOK
<1>7. AllSound'
  <2> SUFFICES ASSUME NEW p \in Request
               PROVE  Sound(req[p], contract', material)
    BY <1>4 DEF AllSound
  <2>1. contract[c].row = "NONE"
    BY DEF CreateWorkforceContract
  <2>2. Sound(req[p], contract, material)
    BY RequestTyped
  <2>3. req[p] \in PayRequest => PaySound(req[p], contract')
    BY <1>5, <2>1, <2>2 DEF Sound, PaySound, PayRequest
  <2>4. req[p] \in AdjustRequest => AdjustSound(req[p], contract')
    BY <1>5, <2>1, <2>2 DEF Sound, AdjustSound, AdjustRequest
  <2>5. req[p] \in EditRequest => EditSound(req[p], contract')
    BY <1>5, <2>1, <2>2 DEF Sound, EditSound, EditRequest
  <2>6. req[p] \in TransitionRequest \cup DeleteRequest => WriteSound(req[p], contract')
    BY <1>5, <2>1, <2>2 DEF Sound, WriteSound, TransitionRequest, DeleteRequest
  <2> QED BY <2>2, <2>3, <2>4, <2>5, <2>6 DEF Sound
<1>8. OneHolder'
  BY <1>4 DEF IInv, OneHolder
<1>9. NothingPaidYet' /\ WithinBudget' /\ StockFollows'
  BY <1>3, <1>4, <1>5 DEF IInv, NothingPaidYet, WithinBudget, AdjustedBudget, StockFollows
<1> QED BY <1>6, <1>7, <1>8, <1>9 DEF IInv

LEMMA PaymentLockKeeps ==
  ASSUME IInv, NEW q \in Request, NEW c \in Contract, NEW amount \in Amount,
         RecordPaymentLock(q, c, amount)
  PROVE  IInv'
<1>1. PICK r : r = [op |-> "pay", contract |-> c, amount |-> amount]
  OBVIOUS
<1>2. r \in PayRequest /\ PaySound(r, contract)
  BY <1>1 DEF PayRequest, PaySound, RecordPaymentLock, AdjustedBudget, LiveContract
<1>3. Sound(r, contract, material)
  BY <1>2 DEF Sound, PayRequest, AdjustRequest, EditRequest, TransitionRequest,
              DeleteRequest, MoveRequest
<1>4. req' = [req EXCEPT ![q] = r] /\ UNCHANGED <<contract, material, exposed>> /\ ~Locked(c)
  BY <1>1 DEF RecordPaymentLock, Begin
<1>5. \A d : Holder(r, d) => d = c
  BY <1>1 DEF Holder
<1> QED BY <1>2, <1>3, <1>4, <1>5, QuietStep DEF RequestRow

LEMMA PaymentCommitKeeps ==
  ASSUME IInv, NEW q \in Request, RecordPaymentCommit(q)
  PROVE  IInv'
<1>1. PICK r : r = req[q]
  OBVIOUS
<1>2. PICK c : c = r.contract
  OBVIOUS
<1>3. r \in PayRequest /\ PaySound(r, contract)
  BY <1>1, RequestTyped, Kinds DEF RecordPaymentCommit, Sound
<1>4. c \in Contract /\ r.amount \in Nat /\ contract[c] \in ContractRow
  BY <1>2, <1>3, ConstantsOK DEF PayRequest, IInv, TypeOK
<1>5. PICK next : next = [contract[c] EXCEPT !.paid = @ + r.amount]
  OBVIOUS
<1>6. PICK row : row = [next EXCEPT !.version = @ + 1]
  OBVIOUS
<1>7. row \in ContractRow /\ row.row = contract[c].row /\ row.version = contract[c].version + 1
      /\ row.paid <= row.budget + row.adjusted
  <2>1. PICK old : old = contract[c]
    OBVIOUS
  <2>2. old \in ContractRow
    BY <1>4, <2>1
  <2>3. next \in ContractRow /\ next.row = old.row /\ next.version = old.version
        /\ next.paid = old.paid + r.amount /\ next.budget = old.budget
        /\ next.adjusted = old.adjusted
    BY <1>4, <1>5, <2>1, <2>2 DEF ContractRow, Row
  <2>4. next.paid <= next.budget + next.adjusted
    BY <1>2, <1>3, <1>4, <2>1, <2>2, <2>3 DEF ContractRow, PaySound
  <2> QED BY <1>6, <2>1, <2>3, <2>4, Bump
<1>8. contract' = [contract EXCEPT ![c] = row] /\ req' = [req EXCEPT ![q] = Idle]
      /\ UNCHANGED <<material, exposed>>
  BY <1>1, <1>2, <1>5, <1>6 DEF RecordPaymentCommit, WriteContract, Finish
<1>9. row.row # "NONE" /\ Holder(req[q], c)
  BY <1>1, <1>2, <1>3, <1>7 DEF PaySound, Holder, PayRequest
<1>10. exposed \subseteq exposed' /\ exposed' \subseteq Contract
  BY <1>8 DEF IInv, TypeOK
<1> QED BY <1>4, <1>7, <1>8, <1>9, <1>10, ContractStep

LEMMA AdjustLockKeeps ==
  ASSUME IInv, NEW q \in Request, NEW c \in Contract, NEW delta \in Delta,
         AdjustBudgetLock(q, c, delta)
  PROVE  IInv'
<1>1. PICK r : r = [op |-> "adjust", contract |-> c, delta |-> delta]
  OBVIOUS
<1>2. r \in AdjustRequest /\ AdjustSound(r, contract)
  BY <1>1 DEF AdjustRequest, AdjustSound, AdjustBudgetLock, AdjustedBudget, LiveContract
<1>3. Sound(r, contract, material)
  BY <1>2 DEF Sound, PayRequest, AdjustRequest, EditRequest, TransitionRequest,
              DeleteRequest, MoveRequest
<1>4. req' = [req EXCEPT ![q] = r] /\ UNCHANGED <<contract, material, exposed>> /\ ~Locked(c)
  BY <1>1 DEF AdjustBudgetLock, Begin
<1>5. \A d : Holder(r, d) => d = c
  BY <1>1 DEF Holder
<1> QED BY <1>2, <1>3, <1>4, <1>5, QuietStep DEF RequestRow

LEMMA AdjustCommitKeeps ==
  ASSUME IInv, NEW q \in Request, AdjustBudgetCommit(q)
  PROVE  IInv'
<1>1. PICK r : r = req[q]
  OBVIOUS
<1>2. PICK c : c = r.contract
  OBVIOUS
<1>3. r \in AdjustRequest /\ AdjustSound(r, contract)
  BY <1>1, RequestTyped, Kinds DEF AdjustBudgetCommit, Sound
<1>4. c \in Contract /\ r.delta \in Int /\ contract[c] \in ContractRow
  BY <1>2, <1>3, ConstantsOK DEF AdjustRequest, IInv, TypeOK
<1>5. PICK next : next = [contract[c] EXCEPT !.adjusted = @ + r.delta]
  OBVIOUS
<1>6. PICK row : row = [next EXCEPT !.version = @ + 1]
  OBVIOUS
<1>7. row \in ContractRow /\ row.row = contract[c].row /\ row.version = contract[c].version + 1
      /\ row.paid <= row.budget + row.adjusted
  <2>1. PICK old : old = contract[c]
    OBVIOUS
  <2>2. old \in ContractRow
    BY <1>4, <2>1
  <2>3. next \in ContractRow /\ next.row = old.row /\ next.version = old.version
        /\ next.paid = old.paid /\ next.budget = old.budget
        /\ next.adjusted = old.adjusted + r.delta
    BY <1>4, <1>5, <2>1, <2>2 DEF ContractRow, Row
  <2>4. next.paid <= next.budget + next.adjusted
    BY <1>2, <1>3, <1>4, <2>1, <2>2, <2>3 DEF ContractRow, AdjustSound
  <2> QED BY <1>6, <2>1, <2>3, <2>4, Bump
<1>8. contract' = [contract EXCEPT ![c] = row] /\ req' = [req EXCEPT ![q] = Idle]
      /\ UNCHANGED <<material, exposed>>
  BY <1>1, <1>2, <1>5, <1>6 DEF AdjustBudgetCommit, WriteContract, Finish
<1>9. row.row # "NONE" /\ Holder(req[q], c)
  BY <1>1, <1>2, <1>3, <1>7 DEF AdjustSound, Holder, AdjustRequest
<1>10. exposed \subseteq exposed' /\ exposed' \subseteq Contract
  BY <1>8 DEF IInv, TypeOK
<1> QED BY <1>4, <1>7, <1>8, <1>9, <1>10, ContractStep

LEMMA UpdateReadKeeps ==
  ASSUME IInv, NEW q \in Request, NEW c \in Contract, NEW budget \in Amount \cup {0},
         NEW status \in ContractStatus \cup {None}, NEW version \in 0..MaxVersion \cup {None},
         UpdateContractRead(q, c, budget, status, version)
  PROVE  IInv'
<1>1. PICK r : r = [op |-> "edit", contract |-> c, budget |-> budget, status |-> status,
                    version |-> version]
  OBVIOUS
<1>2. contract[c] \in ContractRow /\ budget \in Nat /\ version \in Nat \cup {None}
  BY ConstantsOK DEF IInv, TypeOK
<1>3. r \in EditRequest
  BY <1>1, <1>2 DEF EditRequest
<1>4. EditSound(r, contract)
  BY <1>1, <1>2 DEF EditSound, UpdateContractRead, LiveContract, ContractRow
<1>5. Sound(r, contract, material)
  BY <1>3, <1>4 DEF Sound, PayRequest, AdjustRequest, EditRequest, TransitionRequest,
              DeleteRequest, MoveRequest
<1>6. req' = [req EXCEPT ![q] = r] /\ UNCHANGED <<contract, material, exposed>>
  BY <1>1 DEF UpdateContractRead, Begin
<1>7. \A d : ~Holder(r, d)
  BY <1>1 DEF Holder
<1> QED BY <1>3, <1>5, <1>6, <1>7, QuietStep DEF RequestRow

LEMMA UpdateCommitKeeps ==
  ASSUME IInv, NEW q \in Request, UpdateContractCommit(q)
  PROVE  IInv'
<1>1. PICK r : r = req[q]
  OBVIOUS
<1>2. PICK c : c = r.contract
  OBVIOUS
<1>3. r \in EditRequest /\ EditSound(r, contract)
  BY <1>1, RequestTyped, Kinds DEF UpdateContractCommit, Sound
<1>4. c \in Contract /\ r.budget \in Nat /\ r.status \in ContractStatus \cup {None}
      /\ contract[c] \in ContractRow
  BY <1>2, <1>3 DEF EditRequest, IInv, TypeOK
<1>5. PICK next : next = [contract[c] EXCEPT !.budget = r.budget,
                           !.status = IF r.status = None THEN @ ELSE r.status]
  OBVIOUS
<1>6. PICK row : row = [next EXCEPT !.version = @ + 1]
  OBVIOUS
<1>7. /\ row \in ContractRow /\ row.row = contract[c].row
      /\ row.version = contract[c].version + 1
      /\ row.paid = contract[c].paid /\ row.adjusted = contract[c].adjusted
      /\ row.budget = r.budget
  <2>1. PICK old : old = contract[c]
    OBVIOUS
  <2>2. old \in ContractRow
    BY <1>4, <2>1
  <2>3. next \in ContractRow /\ next.row = old.row /\ next.version = old.version
        /\ next.paid = old.paid /\ next.budget = r.budget
        /\ next.adjusted = old.adjusted
    BY <1>4, <1>5, <2>1, <2>2 DEF ContractRow, Row
  <2> QED BY <1>6, <2>1, <2>3, Bump
<1>8. /\ contract' = [contract EXCEPT ![c] = row] /\ req' = [req EXCEPT ![q] = Idle]
      /\ UNCHANGED material /\ ~Locked(c) /\ r.version \in {contract[c].version, None}
      /\ exposed' = IF r.version = None \/ contract[c].adjusted < 0
                    THEN exposed \cup {c} ELSE exposed
  BY <1>1, <1>2, <1>5, <1>6 DEF UpdateContractCommit, WriteContract, Finish, Current
<1>9. exposed \subseteq exposed' /\ exposed' \subseteq Contract
  BY <1>4, <1>8 DEF IInv, TypeOK
<1>10. c \notin exposed' => row.paid <= row.budget + row.adjusted
  <2> SUFFICES ASSUME c \notin exposed'
               PROVE  row.paid <= row.budget + row.adjusted
    OBVIOUS
  <2>1. r.version # None /\ ~(contract[c].adjusted < 0)
    BY <1>8
  <2>2. contract[c].paid <= r.budget
    BY <1>2, <1>3, <1>8, <2>1 DEF EditSound
  <2> QED BY <1>4, <1>7, <2>1, <2>2 DEF ContractRow
<1>11. row.row # "NONE"
  BY <1>2, <1>3, <1>7 DEF EditSound
<1> QED BY <1>4, <1>7, <1>8, <1>9, <1>10, <1>11, ContractStep

LEMMA TransitionReadKeeps ==
  ASSUME IInv, NEW q \in Request, NEW c \in Contract, NEW status \in ContractStatus,
         TransitionRead(q, c, status)
  PROVE  IInv'
<1>1. PICK r : r = [op |-> "transition", contract |-> c, status |-> status]
  OBVIOUS
<1>2. r \in TransitionRequest /\ WriteSound(r, contract)
  BY <1>1 DEF TransitionRequest, WriteSound, TransitionRead, LiveContract
<1>3. Sound(r, contract, material)
  BY <1>2 DEF Sound, PayRequest, AdjustRequest, EditRequest, TransitionRequest,
              DeleteRequest, MoveRequest
<1>4. req' = [req EXCEPT ![q] = r] /\ UNCHANGED <<contract, material, exposed>>
  BY <1>1 DEF TransitionRead, Begin
<1>5. \A d : ~Holder(r, d)
  BY <1>1 DEF Holder
<1> QED BY <1>2, <1>3, <1>4, <1>5, QuietStep DEF RequestRow

LEMMA DeleteReadKeeps ==
  ASSUME IInv, NEW q \in Request, NEW c \in Contract, DeleteContractRead(q, c)
  PROVE  IInv'
<1>1. PICK r : r = [op |-> "delete", contract |-> c]
  OBVIOUS
<1>2. r \in DeleteRequest /\ WriteSound(r, contract)
  BY <1>1 DEF DeleteRequest, WriteSound, DeleteContractRead, LiveContract
<1>3. Sound(r, contract, material)
  BY <1>2 DEF Sound, PayRequest, AdjustRequest, EditRequest, TransitionRequest,
              DeleteRequest, MoveRequest
<1>4. req' = [req EXCEPT ![q] = r] /\ UNCHANGED <<contract, material, exposed>>
  BY <1>1 DEF DeleteContractRead, Begin
<1>5. \A d : ~Holder(r, d)
  BY <1>1 DEF Holder
<1> QED BY <1>2, <1>3, <1>4, <1>5, QuietStep DEF RequestRow

\* A transition or a deletion leaves the amounts alone.
LEMMA AmountsAlone ==
  ASSUME IInv, NEW q \in Request, NEW c \in Contract, NEW row \in ContractRow,
         contract' = [contract EXCEPT ![c] = row], req' = [req EXCEPT ![q] = Idle],
         UNCHANGED <<material, exposed>>, ~Locked(c),
         row.row # "NONE", row.version = contract[c].version + 1,
         row.paid = contract[c].paid, row.budget = contract[c].budget,
         row.adjusted = contract[c].adjusted
  PROVE  IInv'
<1>1. exposed \subseteq exposed' /\ exposed' \subseteq Contract
  BY DEF IInv, TypeOK
<1>2. c \notin exposed' => row.paid <= row.budget + row.adjusted
  BY DEF IInv, WithinBudget, AdjustedBudget
<1> QED BY <1>1, <1>2, ContractStep

LEMMA TransitionCommitKeeps ==
  ASSUME IInv, NEW q \in Request, TransitionCommit(q)
  PROVE  IInv'
<1>1. PICK r : r = req[q]
  OBVIOUS
<1>2. PICK c : c = r.contract
  OBVIOUS
<1>3. r \in TransitionRequest /\ WriteSound(r, contract)
  BY <1>1, RequestTyped, Kinds DEF TransitionCommit, Sound
<1>4. c \in Contract /\ r.status \in ContractStatus /\ contract[c] \in ContractRow
  BY <1>2, <1>3 DEF TransitionRequest, IInv, TypeOK
<1>5. PICK next : next = [contract[c] EXCEPT !.status = r.status]
  OBVIOUS
<1>6. PICK row : row = [next EXCEPT !.version = @ + 1]
  OBVIOUS
<1>7. /\ row \in ContractRow /\ row.row = contract[c].row
      /\ row.version = contract[c].version + 1 /\ row.paid = contract[c].paid
      /\ row.budget = contract[c].budget /\ row.adjusted = contract[c].adjusted
  <2>1. PICK old : old = contract[c]
    OBVIOUS
  <2>2. old \in ContractRow
    BY <1>4, <2>1
  <2>3. next \in ContractRow /\ next.row = old.row /\ next.version = old.version
        /\ next.paid = old.paid /\ next.budget = old.budget
        /\ next.adjusted = old.adjusted
    BY <1>4, <1>5, <2>1, <2>2 DEF ContractRow, Row
  <2> QED BY <1>6, <2>1, <2>3, Bump
<1>8. contract' = [contract EXCEPT ![c] = row] /\ req' = [req EXCEPT ![q] = Idle]
      /\ UNCHANGED <<material, exposed>> /\ ~Locked(c)
  BY <1>1, <1>2, <1>5, <1>6 DEF TransitionCommit, WriteContract, Finish
<1>9. row.row # "NONE"
  BY <1>2, <1>3, <1>7 DEF WriteSound
<1> QED BY <1>4, <1>7, <1>8, <1>9, AmountsAlone

LEMMA DeleteCommitKeeps ==
  ASSUME IInv, NEW q \in Request, DeleteContractCommit(q)
  PROVE  IInv'
<1>1. PICK r : r = req[q]
  OBVIOUS
<1>2. PICK c : c = r.contract
  OBVIOUS
<1>3. r \in DeleteRequest
  BY <1>1, RequestTyped, Kinds DEF DeleteContractCommit
<1>4. c \in Contract /\ contract[c] \in ContractRow
  BY <1>2, <1>3 DEF DeleteRequest, IInv, TypeOK
<1>5. PICK next : next = [contract[c] EXCEPT !.row = "DELETED"]
  OBVIOUS
<1>6. PICK row : row = [next EXCEPT !.version = @ + 1]
  OBVIOUS
<1>7. /\ row \in ContractRow /\ row.row = "DELETED"
      /\ row.version = contract[c].version + 1 /\ row.paid = contract[c].paid
      /\ row.budget = contract[c].budget /\ row.adjusted = contract[c].adjusted
  <2>1. PICK old : old = contract[c]
    OBVIOUS
  <2>2. old \in ContractRow
    BY <1>4, <2>1
  <2>3. next \in ContractRow /\ next.row = "DELETED" /\ next.version = old.version
        /\ next.paid = old.paid /\ next.budget = old.budget
        /\ next.adjusted = old.adjusted
    BY <1>4, <1>5, <2>1, <2>2 DEF ContractRow, Row
  <2> QED BY <1>6, <2>1, <2>3, Bump
<1>8. contract' = [contract EXCEPT ![c] = row] /\ req' = [req EXCEPT ![q] = Idle]
      /\ UNCHANGED <<material, exposed>> /\ ~Locked(c)
  BY <1>1, <1>2, <1>5, <1>6 DEF DeleteContractCommit, WriteContract, Finish
<1> QED BY <1>4, <1>7, <1>8, AmountsAlone

-----------------------------------------------------------------------------
(* Building materials.                                                     *)

\* What a movement relies on survives a write that counts itself.
LEMMA MaterialStep ==
  ASSUME IInv, NEW m \in Material, NEW row \in MaterialRow,
         material' = [material EXCEPT ![m] = row], UNCHANGED <<contract, exposed>>,
         req' \in [Request -> RequestRow \cup {Idle}],
         \A p \in Request : req'[p] \in {req[p], Idle},
         row.row # "NONE", row.quantity = row.given + row.moved,
         \/ material[m].row = "NONE"
         \/ row.version = material[m].version + 1
  PROVE  IInv'
<1>1. TypeOK'
  BY DEF IInv, TypeOK, RequestRow
<1>2. \A n \in Material : material'[n] = IF n = m THEN row ELSE material[n]
  BY DEF IInv, TypeOK
<1>3. AllSound'
  <2> SUFFICES ASSUME NEW p \in Request, req'[p] # Idle
               PROVE  Sound(req'[p], contract, material')
    BY IdleSound DEF AllSound
  <2>1. req'[p] = req[p] /\ Sound(req[p], contract, material)
    BY RequestTyped
  <2>2. ASSUME req[p] \in MoveRequest
        PROVE  MoveSound(req[p], material')
    <3>1. PICK r : r = req[p]
      OBVIOUS
    <3>2. MoveSound(r, material) /\ r.material \in Material /\ r.version \in Nat
      BY <2>1, <2>2, <3>1 DEF Sound, MoveRequest
    <3>3. material[m].version \in Nat
      BY DEF IInv, TypeOK, MaterialRow
    <3>4. MoveSound(r, material')
      BY <1>2, <3>2, <3>3 DEF MoveSound
    <3> QED BY <3>1, <3>4
  <2> QED BY <2>1, <2>2 DEF Sound
<1>4. OneHolder'
  BY IdleSound DEF IInv, OneHolder
<1>5. NothingPaidYet' /\ WithinBudget' /\ StockFollows'
  BY <1>2 DEF IInv, NothingPaidYet, WithinBudget, AdjustedBudget, StockFollows
<1> QED BY <1>1, <1>3, <1>4, <1>5 DEF IInv

LEMMA GivenRow ==
  ASSUME NEW r \in MaterialRow, NEW n \in Nat
  PROVE  /\ Given(r, n) \in MaterialRow /\ Given(r, n).row = r.row
         /\ Given(r, n).version = r.version
         /\ Given(r, n).quantity = Given(r, n).given + Given(r, n).moved
<1>1. PICK g : g = Given(r, n)
  OBVIOUS
<1>2. g \in MaterialRow
  <2>1. g = [row |-> r.row, quantity |-> n, version |-> r.version, given |-> n, moved |-> 0]
    BY <1>1 DEF Given, MaterialRow
  <2>2. r.row \in Row /\ r.version \in Nat
    BY DEF MaterialRow
  <2> QED BY <2>1, <2>2 DEF MaterialRow
<1>3. g.row = r.row /\ g.version = r.version
  BY <1>1 DEF Given, MaterialRow
<1>4. g.quantity = n /\ g.given = n /\ g.moved = 0
  BY <1>1 DEF Given, MaterialRow
<1> QED BY <1>1, <1>2, <1>3, <1>4

LEMMA BumpMaterial ==
  ASSUME NEW r \in MaterialRow
  PROVE  /\ [r EXCEPT !.version = @ + 1] \in MaterialRow
         /\ [r EXCEPT !.version = @ + 1].row = r.row
         /\ [r EXCEPT !.version = @ + 1].version = r.version + 1
         /\ [r EXCEPT !.version = @ + 1].quantity = r.quantity
         /\ [r EXCEPT !.version = @ + 1].given = r.given
         /\ [r EXCEPT !.version = @ + 1].moved = r.moved
  BY DEF MaterialRow

LEMMA SlotKeepsRequests ==
  ASSUME IInv, UNCHANGED req
  PROVE  /\ req' \in [Request -> RequestRow \cup {Idle}]
         /\ \A p \in Request : req'[p] \in {req[p], Idle}
  BY DEF IInv, TypeOK, RequestRow

LEMMA CreateMaterialKeeps ==
  ASSUME IInv, NEW m \in Material, NEW n \in Amount \cup {0}, CreateMaterial(m, n)
  PROVE  IInv'
<1>1. PICK old : old = material[m]
  OBVIOUS
<1>2. PICK next : next = Given(old, n)
  OBVIOUS
<1>3. PICK row : row = [next EXCEPT !.row = "LIVE"]
  OBVIOUS
<1>4. old \in MaterialRow /\ n \in Nat
  BY <1>1, ConstantsOK DEF IInv, TypeOK
<1>5. next \in MaterialRow /\ next.quantity = next.given + next.moved
  BY <1>2, <1>4, GivenRow
<1>6. row \in MaterialRow /\ row.row = "LIVE" /\ row.quantity = row.given + row.moved
  BY <1>3, <1>5 DEF MaterialRow, Row
<1>7. material' = [material EXCEPT ![m] = row] /\ UNCHANGED <<req, contract, exposed>>
      /\ material[m].row = "NONE"
  BY <1>1, <1>2, <1>3 DEF CreateMaterial, Slot
<1> QED BY <1>6, <1>7, SlotKeepsRequests, MaterialStep

LEMMA UpdateMaterialKeeps ==
  ASSUME IInv, NEW m \in Material, NEW n \in Amount \cup {0, None}, UpdateMaterial(m, n)
  PROVE  IInv'
<1>1. PICK old : old = material[m]
  OBVIOUS
<1>2. PICK next : next = IF n = None THEN old ELSE Given(old, n)
  OBVIOUS
<1>3. PICK row : row = [next EXCEPT !.version = @ + 1]
  OBVIOUS
<1>4. old \in MaterialRow /\ n \in Nat \cup {None} /\ old.quantity = old.given + old.moved
      /\ old.row = "LIVE"
  BY <1>1, ConstantsOK DEF IInv, TypeOK, StockFollows, UpdateMaterial, LiveMaterial
<1>5. next \in MaterialRow /\ next.quantity = next.given + next.moved /\ next.row = "LIVE"
      /\ next.version = old.version
  BY <1>2, <1>4, GivenRow
<1>6. row \in MaterialRow /\ row.row = "LIVE" /\ row.quantity = row.given + row.moved
      /\ row.version = material[m].version + 1
  BY <1>1, <1>3, <1>5, BumpMaterial
<1>7. material' = [material EXCEPT ![m] = row] /\ UNCHANGED <<req, contract, exposed>>
  BY <1>1, <1>2, <1>3 DEF UpdateMaterial, WriteMaterial, Slot
<1> QED BY <1>6, <1>7, SlotKeepsRequests, MaterialStep

LEMMA DeleteMaterialKeeps ==
  ASSUME IInv, NEW m \in Material, DeleteMaterial(m)
  PROVE  IInv'
<1>1. PICK old : old = material[m]
  OBVIOUS
<1>2. PICK next : next = [old EXCEPT !.row = "DELETED"]
  OBVIOUS
<1>3. PICK row : row = [next EXCEPT !.version = @ + 1]
  OBVIOUS
<1>4. old \in MaterialRow /\ old.quantity = old.given + old.moved
  BY <1>1 DEF IInv, TypeOK, StockFollows
<1>5. next \in MaterialRow /\ next.row = "DELETED" /\ next.version = old.version
  BY <1>2, <1>4 DEF MaterialRow, Row
<1>6. next.quantity = next.given + next.moved
  BY <1>2, <1>4 DEF MaterialRow
<1>7. row \in MaterialRow /\ row.row = "DELETED" /\ row.quantity = row.given + row.moved
      /\ row.version = old.version + 1
  BY <1>3, <1>5, <1>6, BumpMaterial
<1>8. material' = [material EXCEPT ![m] = row] /\ UNCHANGED <<req, contract, exposed>>
  BY <1>1, <1>2, <1>3 DEF DeleteMaterial, WriteMaterial, Slot
<1> QED BY <1>1, <1>7, <1>8, SlotKeepsRequests, MaterialStep

LEMMA EffectInt ==
  ASSUME NEW type, NEW n \in Nat
  PROVE  Effect(type, n) \in Int
  BY DEF Effect

LEMMA MovementReadKeeps ==
  ASSUME IInv, NEW q \in Request, NEW m \in Material, NEW type, NEW n \in Amount,
         MovementRead(q, m, type, n)
  PROVE  IInv'
<1>1. PICK r : r = [op |-> "move", material |-> m, effect |-> Effect(type, n),
                    quantity |-> material[m].quantity + Effect(type, n),
                    version |-> material[m].version]
  OBVIOUS
<1>2. material[m] \in MaterialRow /\ Effect(type, n) \in Int
  BY EffectInt, ConstantsOK DEF IInv, TypeOK
<1>3. material[m].quantity + Effect(type, n) \in Nat /\ material[m].version \in Nat
  BY <1>2 DEF MovementRead, MaterialRow
<1>4. r \in MoveRequest
  BY <1>1, <1>2, <1>3 DEF MoveRequest
<1>5. MoveSound(r, material)
  BY <1>1, <1>3 DEF MoveSound, MovementRead, LiveMaterial
<1>6. Sound(r, contract, material)
  BY <1>4, <1>5 DEF Sound, PayRequest, AdjustRequest, EditRequest, TransitionRequest,
              DeleteRequest, MoveRequest
<1>7. req' = [req EXCEPT ![q] = r] /\ UNCHANGED <<contract, material, exposed>>
  BY <1>1 DEF MovementRead, Begin
<1>8. \A d : ~Holder(r, d)
  BY <1>1 DEF Holder
<1> QED BY <1>4, <1>6, <1>7, <1>8, QuietStep DEF RequestRow

LEMMA MovementCommitKeeps ==
  ASSUME IInv, NEW q \in Request, MovementCommit(q)
  PROVE  IInv'
<1>1. PICK r : r = req[q]
  OBVIOUS
<1>2. PICK m : m = r.material
  OBVIOUS
<1>3. r \in MoveRequest /\ MoveSound(r, material)
  BY <1>1, RequestTyped, Kinds DEF MovementCommit, Sound
<1>4. m \in Material /\ r.effect \in Int /\ r.quantity \in Nat
  BY <1>2, <1>3 DEF MoveRequest
<1>5. PICK old : old = material[m]
  OBVIOUS
<1>6. old \in MaterialRow /\ old.quantity = old.given + old.moved
      /\ old.row = "LIVE" /\ r.quantity = old.quantity + r.effect
  BY <1>1, <1>2, <1>3, <1>4, <1>5
     DEF IInv, TypeOK, StockFollows, MovementCommit, Same, LiveMaterial, MoveSound
<1>7. PICK next : next = [old EXCEPT !.quantity = r.quantity, !.moved = @ + r.effect]
  OBVIOUS
<1>8. next \in MaterialRow /\ next.row = "LIVE" /\ next.version = old.version
  <2>1. next \in MaterialRow
    <3>1. next = [row |-> old.row, quantity |-> r.quantity, version |-> old.version,
                  given |-> old.given, moved |-> old.moved + r.effect]
      BY <1>6, <1>7 DEF MaterialRow
    <3>2. /\ old.row \in Row /\ old.version \in Nat /\ old.given \in Nat
          /\ old.moved + r.effect \in Int
      BY <1>4, <1>6 DEF MaterialRow
    <3> QED BY <1>4, <3>1, <3>2 DEF MaterialRow
  <2>2. next.row = "LIVE" /\ next.version = old.version
    BY <1>4, <1>6, <1>7 DEF MaterialRow
  <2> QED BY <2>1, <2>2
<1>9. next.quantity = next.given + next.moved
  <2>1. next.quantity = r.quantity /\ next.given = old.given /\ next.moved = old.moved + r.effect
    BY <1>6, <1>7 DEF MaterialRow
  <2> QED BY <1>4, <1>6, <2>1 DEF MaterialRow
<1>10. PICK row : row = [next EXCEPT !.version = @ + 1]
  OBVIOUS
<1>11. row \in MaterialRow /\ row.row = "LIVE" /\ row.quantity = row.given + row.moved
       /\ row.version = old.version + 1
  BY <1>8, <1>9, <1>10, BumpMaterial
<1>12. material' = [material EXCEPT ![m] = row] /\ req' = [req EXCEPT ![q] = Idle]
       /\ UNCHANGED <<contract, exposed>>
  BY <1>1, <1>2, <1>5, <1>7, <1>10 DEF MovementCommit, WriteMaterial, Finish
<1>13. /\ req' \in [Request -> RequestRow \cup {Idle}]
       /\ \A p \in Request : req'[p] \in {req[p], Idle}
  BY <1>12 DEF IInv, TypeOK, RequestRow
<1> QED BY <1>4, <1>5, <1>11, <1>12, <1>13, MaterialStep

-----------------------------------------------------------------------------

LEMMA AbortKeeps ==
  ASSUME IInv, NEW q \in Request, Abort(q)
  PROVE  IInv'
<1>1. req' = [req EXCEPT ![q] = Idle] /\ UNCHANGED <<contract, material, exposed>>
  BY DEF Abort, Finish
<1> QED BY <1>1, IdleSound, QuietStep

LEMMA InitIInv == Init => IInv
<1> SUFFICES ASSUME Init PROVE IInv
  OBVIOUS
<1>1. TypeOK
  BY DEF Init, TypeOK, ContractRow, MaterialRow, ContractStatus, Row
<1>2. AllSound /\ OneHolder
  BY IdleSound DEF Init, AllSound, OneHolder
<1>3. NothingPaidYet /\ WithinBudget /\ StockFollows
  BY DEF Init, NothingPaidYet, WithinBudget, AdjustedBudget, StockFollows
<1> QED BY <1>1, <1>2, <1>3 DEF IInv

LEMMA NextIInv == IInv /\ [Next]_vars => IInv'
<1> SUFFICES ASSUME IInv, [Next]_vars PROVE IInv'
  OBVIOUS
<1>1. ASSUME NEW c \in Contract, NEW budget \in Amount \cup {0}, NEW status \in ContractStatus,
             CreateWorkforceContract(c, budget, status)
      PROVE  IInv'
  BY <1>1, CreateContractKeeps
<1>2. ASSUME NEW m \in Material, NEW n \in Amount \cup {0}, CreateMaterial(m, n)
      PROVE  IInv'
  BY <1>2, CreateMaterialKeeps
<1>3. ASSUME NEW m \in Material, NEW n \in Amount \cup {0, None}, UpdateMaterial(m, n)
      PROVE  IInv'
  BY <1>3, UpdateMaterialKeeps
<1>4. ASSUME NEW m \in Material, DeleteMaterial(m)
      PROVE  IInv'
  BY <1>4, DeleteMaterialKeeps
<1>5. ASSUME NEW q \in Request, NEW c \in Contract, NEW amount \in Amount,
             RecordPaymentLock(q, c, amount)
      PROVE  IInv'
  BY <1>5, PaymentLockKeeps
<1>6. ASSUME NEW q \in Request, RecordPaymentCommit(q)
      PROVE  IInv'
  BY <1>6, PaymentCommitKeeps
<1>7. ASSUME NEW q \in Request, NEW c \in Contract, NEW delta \in Delta,
             AdjustBudgetLock(q, c, delta)
      PROVE  IInv'
  BY <1>7, AdjustLockKeeps
<1>8. ASSUME NEW q \in Request, AdjustBudgetCommit(q)
      PROVE  IInv'
  BY <1>8, AdjustCommitKeeps
<1>9. ASSUME NEW q \in Request, NEW c \in Contract, NEW budget \in Amount \cup {0},
             NEW status \in ContractStatus \cup {None},
             NEW version \in 0..MaxVersion \cup {None},
             UpdateContractRead(q, c, budget, status, version)
      PROVE  IInv'
  BY <1>9, UpdateReadKeeps
<1>10. ASSUME NEW q \in Request, UpdateContractCommit(q)
       PROVE  IInv'
  BY <1>10, UpdateCommitKeeps
<1>11. ASSUME NEW q \in Request, NEW c \in Contract, NEW status \in ContractStatus,
              TransitionRead(q, c, status)
       PROVE  IInv'
  BY <1>11, TransitionReadKeeps
<1>12. ASSUME NEW q \in Request, TransitionCommit(q)
       PROVE  IInv'
  BY <1>12, TransitionCommitKeeps
<1>13. ASSUME NEW q \in Request, NEW c \in Contract, DeleteContractRead(q, c)
       PROVE  IInv'
  BY <1>13, DeleteReadKeeps
<1>14. ASSUME NEW q \in Request, DeleteContractCommit(q)
       PROVE  IInv'
  BY <1>14, DeleteCommitKeeps
<1>15. ASSUME NEW q \in Request, NEW m \in Material,
              NEW type \in {"RESTOCK", "USAGE", "ADJUSTMENT"}, NEW n \in Amount,
              MovementRead(q, m, type, n)
       PROVE  IInv'
  BY <1>15, MovementReadKeeps
<1>16. ASSUME NEW q \in Request, MovementCommit(q)
       PROVE  IInv'
  BY <1>16, MovementCommitKeeps
<1>17. ASSUME NEW q \in Request, Abort(q)
       PROVE  IInv'
  BY <1>17, AbortKeeps
<1>18. CASE UNCHANGED vars
  <2>1. UNCHANGED <<contract, material, req, exposed>>
    BY <1>18 DEF vars
  <2> QED BY <2>1 DEF IInv, TypeOK, AllSound, OneHolder, NothingPaidYet, WithinBudget,
                     AdjustedBudget, StockFollows
<1> QED BY <1>1, <1>2, <1>3, <1>4, <1>5, <1>6, <1>7, <1>8, <1>9, <1>10, <1>11, <1>12, <1>13,
           <1>14, <1>15, <1>16, <1>17, <1>18 DEF Next

LEMMA Inductive == Spec => []IInv
  BY InitIInv, NextIInv, PTL DEF Spec

\* Contracts, materials, requests and the history keep their types; in particular no stock
\* and no sum of payments is ever negative.
THEOREM TypeCorrect == Spec => []TypeOK
  BY Inductive, PTL DEF IInv

\* The lock of payments and adjustments and the version of edits keep what is paid within the
\* adjusted budget, for any number of requests at once.
THEOREM PaidWithinBudget == Spec => []WithinBudget
  BY Inductive, PTL DEF IInv

\* The version of the material lets no concurrent movement be lost.
THEOREM NoMovementLost == Spec => []StockFollows
  BY Inductive, PTL DEF IInv
=============================================================================
