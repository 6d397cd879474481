--------------------------- MODULE Access_proofs ---------------------------
(***************************************************************************)
(* Who has access, for any number of records and of concurrent requests.   *)
(*                                                                         *)
(* Staff accounts: nobody has a central account without a row in the       *)
(* tenant; when requests run one by one, whoever is let in has a staff     *)
(* record, and what failed is undone.                                      *)
(*                                                                         *)
(* Companies: beside the jobs, whoever has access has a period, and the    *)
(* period was paid.                                                        *)
(***************************************************************************)
EXTENDS MCAccounts, MCBilling, SequenceTheorems, Sums

\* A creation that inserted its user, under the company's lock.
Holds(r) == r.op = "create" /\ r.step \in {"link", "check", "commit", "undo"}

\* What a request may rely on: a creation has a user that no central row goes with yet, and
\* who wrote to the central database wrote to a row that is there.
Sound(r, users, accounts) ==
  /\ r.op = "create" => r.staff \in Staff /\ r.email \in Email
  /\ Holds(r) => r.account \in AccountId /\ Exists(users, r.account) /\ ~Exists(accounts, r.account)
  /\ r.op = "delete" =>
       /\ r.staff \in Staff
       /\ r.step \in {"revoke", "undo"} => r.account \in AccountId
       /\ r.step \in {"tenant", "undo"} /\ r.account # None => Exists(accounts, r.account)
  /\ r.op \in {"activate", "deactivate", "email"} => r.account \in AccountId
  /\ r.op = "deactivate" /\ r.step \in {"user", "undo"} => Exists(accounts, r.account)
  /\ r.op = "email" => r.email \in Email /\ r.old \in Email
  /\ r.op = "email" /\ r.step \in {"user", "undo"} => Exists(accounts, r.account)

AllSound == \A q \in Request : Sound(req[q], user, central)
OneHolds == \A p, q \in Request : Holds(req[p]) /\ Holds(req[q]) => p = q

IInv == TypeOK /\ AllSound /\ OneHolds /\ AccountsBelong

\* The tables after a step.
TablesTyped ==
  /\ staff \in [Staff -> StaffRow]
  /\ user \in [AccountId -> AccountRow \cup {NoRow, Gone}]
  /\ central \in [AccountId -> AccountRow \cup {NoRow}]
  /\ lost \in BOOLEAN
  /\ restored \subseteq AccountId

-----------------------------------------------------------------------------

LEMMA RequestUpdates ==
  ASSUME NEW r \in RequestRow, NEW step \in {"user", "link", "check", "commit", "revoke", "tenant",
                                              "central", "undo"}
  PROVE  /\ [r EXCEPT !.step = step] \in RequestRow
         /\ [r EXCEPT !.step = step].op = r.op
         /\ [r EXCEPT !.step = step].step = step
         /\ [r EXCEPT !.step = step].staff = r.staff
         /\ [r EXCEPT !.step = step].account = r.account
         /\ [r EXCEPT !.step = step].email = r.email
         /\ [r EXCEPT !.step = step].old = r.old
  BY DEF RequestRow

\* A step of one request that keeps what the others rely on.
LEMMA RequestStep ==
  ASSUME IInv, TablesTyped', AccountsBelong',
         NEW q \in Request, NEW r \in RequestRow \cup {Idle},
         req' = [req EXCEPT ![q] = r],
         Sound(r, user', central'),
         Holds(r) => Holds(req[q]) \/ QuotaFree,
         \A u \in AccountId : Exists(central, u) => Exists(central', u),
         \A p \in Request \ {q} : Holds(req[p]) =>
           /\ Exists(user', req[p].account)
           /\ ~Exists(central', req[p].account)
  PROVE  IInv'
<1>1. req \in [Request -> RequestRow \cup {Idle}]
  BY DEF IInv, TypeOK
<1>2. TypeOK'
  BY <1>1 DEF TypeOK, TablesTyped
<1>3. AllSound'
  <2> SUFFICES ASSUME NEW p \in Request
               PROVE  Sound(req'[p], user', central')
    BY DEF AllSound
  <2>1. CASE p = q
    BY <1>1, <2>1
  <2>2. CASE p # q
    <3>1. req'[p] = req[p] /\ Sound(req[p], user, central)
      BY <1>1, <2>2 DEF IInv, AllSound
    <3>2. req[p].op = "delete" /\ req[p].account # None => req[p].account \in AccountId
      BY <1>1 DEF RequestRow, Idle
    <3> QED BY <2>2, <3>1, <3>2 DEF Sound
  <2> QED BY <2>1, <2>2
<1>4. OneHolds'
  <2>1. ASSUME NEW p \in Request, p # q, Holds(r)
        PROVE  ~Holds(req[p])
    <3>1. CASE Holds(req[q])
      BY <2>1, <3>1 DEF IInv, OneHolds
    <3>2. CASE QuotaFree
      BY <3>2 DEF QuotaFree, HoldsQuota, At, Holds, Idle
    <3> QED BY <2>1, <3>1, <3>2
  <2> QED BY <1>1, <2>1 DEF IInv, OneHolds
<1> QED BY <1>2, <1>3, <1>4 DEF IInv

\* ... in particular one that leaves accounts where they are.
LEMMA RowStep ==
  ASSUME IInv, TablesTyped',
         NEW q \in Request, NEW r \in RequestRow \cup {Idle},
         req' = [req EXCEPT ![q] = r],
         Sound(r, user', central'),
         Holds(r) => Holds(req[q]) \/ QuotaFree,
         \A u \in AccountId : Exists(central', u) <=> Exists(central, u),
         \A u \in AccountId : Exists(user, u) => Exists(user', u)
  PROVE  IInv'
<1>1. AccountsBelong'
  <2>1. \A u \in AccountId : Exists(central', u) => Exists(user', u)
    BY DEF IInv, AccountsBelong
  <2> QED BY <2>1 DEF AccountsBelong, Exists
<1>2. ASSUME NEW p \in Request \ {q}, Holds(req[p])
      PROVE  Exists(user', req[p].account) /\ ~Exists(central', req[p].account)
  BY <1>2 DEF IInv, AllSound, Sound
<1> QED BY <1>1, <1>2, RequestStep

\* ... or all tables.
LEMMA QuietStep ==
  ASSUME IInv, NEW q \in Request, NEW r \in RequestRow \cup {Idle},
         req' = [req EXCEPT ![q] = r],
         Sound(r, user, central), Holds(r) => Holds(req[q]) \/ QuotaFree,
         UNCHANGED <<staff, user, central, restored>>, lost' \in BOOLEAN
  PROVE  IInv'
  BY RowStep DEF IInv, TypeOK, TablesTyped

LEMMA IdleSound ==
  ASSUME NEW users, NEW accounts
  PROVE  Sound(Idle, users, accounts) /\ ~Holds(Idle)
  BY DEF Sound, Holds, Idle

LEMMA AtStep ==
  ASSUME IInv, NEW q \in Request, NEW op, NEW step, At(q, op, step)
  PROVE  req[q] \in RequestRow /\ req[q].op = op /\ req[q].step = step
         /\ Sound(req[q], user, central)
  BY DEF IInv, TypeOK, AllSound, At

\* A row of the central database is written, the tenant's are not.
LEMMA CentralWrite ==
  ASSUME IInv, NEW q \in Request, NEW r \in RequestRow \cup {Idle}, req' = [req EXCEPT ![q] = r],
         ~Holds(r), NEW u \in AccountId, Exists(central, u), NEW row \in AccountRow,
         central' = [central EXCEPT ![u] = row],
         \A accounts : (\A v \in AccountId : Exists(accounts, v) <=> Exists(central, v))
                       => Sound(r, user, accounts),
         UNCHANGED <<staff, user>>, lost' \in BOOLEAN, restored' \subseteq AccountId
  PROVE  IInv'
<1>1. \A v \in AccountId : Exists(central', v) <=> Exists(central, v)
  BY DEF Exists, AccountRow, IInv, TypeOK
<1>2. TablesTyped'
  BY DEF IInv, TypeOK, TablesTyped
<1>3. Sound(r, user', central')
  BY <1>1
<1> QED BY <1>1, <1>2, <1>3, RowStep

\* A row of the tenant's users is written, the central ones are not.
LEMMA UserWrite ==
  ASSUME IInv, NEW q \in Request, NEW r \in RequestRow \cup {Idle}, req' = [req EXCEPT ![q] = r],
         ~Holds(r), NEW u \in AccountId, NEW row \in AccountRow,
         user' = [user EXCEPT ![u] = row], Sound(r, user', central),
         staff' \in [Staff -> StaffRow], UNCHANGED <<central, lost, restored>>
  PROVE  IInv'
<1>1. \A v \in AccountId : Exists(user, v) => Exists(user', v)
  BY DEF Exists, AccountRow, IInv, TypeOK
<1>2. TablesTyped'
  BY DEF IInv, TypeOK, TablesTyped
<1> QED BY <1>1, <1>2, RowStep

-----------------------------------------------------------------------------
(* Creation.                                                               *)

LEMMA CreateStaffKeeps ==
  ASSUME IInv, NEW s \in Staff, CreateStaff(s)
  PROVE  IInv'
<1>1. staff' \in [Staff -> StaffRow]
  BY DEF CreateStaff, IInv, TypeOK, StaffRow
<1> QED BY <1>1 DEF CreateStaff, Slot, IInv, TypeOK, AllSound, OneHolds, AccountsBelong

\* A user is inserted, by a creation under the lock.
LEMMA NewUser ==
  ASSUME IInv, NEW q \in Request, NEW r \in RequestRow, req' = [req EXCEPT ![q] = r],
         NEW u \in AccountId, NEW e \in Email, Fresh(u), QuotaFree,
         user' = [user EXCEPT ![u] = NewRow(e)],
         r.op = "create", r.staff \in Staff, r.email = e, r.account = u,
         staff' \in [Staff -> StaffRow], UNCHANGED <<central, lost, restored>>
  PROVE  IInv'
<1>1. NewRow(e) \in AccountRow /\ NewRow(e).row = "ROW"
  BY DEF NewRow, AccountRow
<1>2. TablesTyped'
  BY <1>1 DEF IInv, TypeOK, TablesTyped
<1>3. \A v \in AccountId : Exists(user, v) => Exists(user', v)
  BY <1>1 DEF IInv, TypeOK, Exists
<1>4. Exists(user', u) /\ ~Exists(central', u)
  BY <1>1 DEF IInv, TypeOK, Exists, Fresh, NoRow
<1>5. Sound(r, user', central')
  BY <1>4 DEF Sound, Holds
<1> QED BY <1>2, <1>3, <1>5, RowStep

LEMMA CreateStaffWithAccountKeeps ==
  ASSUME IInv, NEW q \in Request, NEW s \in Staff, NEW u \in AccountId, NEW e \in Email,
         CreateStaffWithAccount(q, s, u, e)
  PROVE  IInv'
<1> DEFINE r == [op |-> "create", step |-> "commit", staff |-> s, account |-> u,
                 email |-> e, old |-> None]
<1>1. r \in RequestRow /\ r.op = "create" /\ r.staff = s /\ r.email = e /\ r.account = u
  BY DEF RequestRow
<1>2. req' = [req EXCEPT ![q] = r]
  BY DEF CreateStaffWithAccount, Begin
<1>3. staff' \in [Staff -> StaffRow]
  BY DEF CreateStaffWithAccount, IInv, TypeOK, StaffRow
<1> HIDE DEF r
<1> QED BY <1>1, <1>2, <1>3, NewUser DEF CreateStaffWithAccount

LEMMA CreateAccountReadKeeps ==
  ASSUME IInv, NEW q \in Request, NEW s \in Staff, NEW e \in Email, CreateAccountRead(q, s, e)
  PROVE  IInv'
<1> DEFINE r == [op |-> "create", step |-> "user", staff |-> s, account |-> None,
                 email |-> e, old |-> None]
<1>1. r \in RequestRow /\ Sound(r, user, central) /\ ~Holds(r)
  BY DEF RequestRow, Sound, Holds
<1>2. req' = [req EXCEPT ![q] = r]
  BY DEF CreateAccountRead, Begin
<1>3. lost' \in BOOLEAN
  BY DEF CreateAccountRead, IInv, TypeOK
<1> HIDE DEF r
<1> QED BY <1>1, <1>2, <1>3, QuietStep DEF CreateAccountRead

LEMMA CreateAccountUserKeeps ==
  ASSUME IInv, NEW q \in Request, NEW u \in AccountId, CreateAccountUser(q, u)
  PROVE  IInv'
<1>1. req[q] \in RequestRow /\ req[q].op = "create" /\ Sound(req[q], user, central)
  BY AtStep DEF CreateAccountUser
<1>2. req[q].staff \in Staff /\ req[q].email \in Email
  BY <1>1 DEF Sound
<1>3. PICK r : r = [req[q] EXCEPT !.step = "link", !.account = u]
  OBVIOUS
<1>4. r \in RequestRow /\ r.op = "create" /\ r.staff \in Staff /\ r.email = req[q].email
      /\ r.account = u
  BY <1>1, <1>2, <1>3 DEF RequestRow
<1>5. req' = [req EXCEPT ![q] = r]
  BY <1>3 DEF CreateAccountUser, IInv, TypeOK
<1>6. staff' \in [Staff -> StaffRow]
  BY DEF CreateAccountUser, IInv, TypeOK
<1> QED BY <1>2, <1>4, <1>5, <1>6, NewUser DEF CreateAccountUser

LEMMA CreateAccountLinkKeeps ==
  ASSUME IInv, NEW q \in Request, CreateAccountLink(q)
  PROVE  IInv'
<1>1. req[q] \in RequestRow /\ req[q].op = "create" /\ req[q].step = "link"
      /\ Sound(req[q], user, central)
  BY AtStep DEF CreateAccountLink
<1>2. Holds(req[q]) /\ req[q].account \in AccountId
  BY <1>1 DEF Sound, Holds
<1>3. PICK r : r = [req[q] EXCEPT !.step = "check"]
  OBVIOUS
<1>4. r \in RequestRow /\ Sound(r, user, central)
  BY <1>1, <1>2, <1>3, RequestUpdates DEF Sound, Holds
<1>5. req' = [req EXCEPT ![q] = r]
  BY <1>3 DEF CreateAccountLink, Goto, IInv, TypeOK
<1>6. TablesTyped'
  BY <1>1, <1>2 DEF CreateAccountLink, TablesTyped, IInv, TypeOK, StaffRow
<1> QED BY <1>2, <1>4, <1>5, <1>6, RowStep DEF CreateAccountLink

LEMMA CreateAccountCheckKeeps ==
  ASSUME IInv, NEW q \in Request, CreateAccountCheck(q)
  PROVE  IInv'
<1>1. req[q] \in RequestRow /\ req[q].op = "create" /\ req[q].step = "check"
      /\ Sound(req[q], user, central)
  BY AtStep DEF CreateAccountCheck
<1>2. UNCHANGED <<staff, user, central, restored>> /\ lost' \in BOOLEAN
  BY DEF CreateAccountCheck, IInv, TypeOK
<1>3. CASE req' = [req EXCEPT ![q].step = "commit"]
  <2>1. PICK r : r = [req[q] EXCEPT !.step = "commit"]
    OBVIOUS
  <2>2. r \in RequestRow /\ Sound(r, user, central) /\ Holds(req[q])
    BY <1>1, <2>1, RequestUpdates DEF Sound, Holds
  <2>3. req' = [req EXCEPT ![q] = r]
    BY <1>3, <2>1 DEF IInv, TypeOK
  <2> QED BY <1>2, <2>2, <2>3, QuietStep
<1>4. CASE req' = [req EXCEPT ![q] = Idle]
  BY <1>2, <1>4, IdleSound, QuietStep
<1> QED BY <1>3, <1>4 DEF CreateAccountCheck, Goto, Finish

LEMMA CreateCommitKeeps ==
  ASSUME IInv, NEW q \in Request, CreateCommit(q)
  PROVE  IInv'
<1>1. req[q] \in RequestRow /\ req[q].op = "create" /\ req[q].step = "commit"
      /\ Sound(req[q], user, central)
  BY AtStep DEF CreateCommit
<1>2. PICK u : u = req[q].account
  OBVIOUS
<1>3. Holds(req[q]) /\ u \in AccountId /\ Exists(user, u) /\ req[q].email \in Email
  BY <1>1, <1>2 DEF Sound, Holds
<1>4. NewRow(req[q].email) \in AccountRow
  BY <1>3 DEF NewRow, AccountRow
<1>5. central' = [central EXCEPT ![u] = NewRow(req[q].email)] /\ req' = [req EXCEPT ![q] = Idle]
  BY <1>2 DEF CreateCommit, Finish
<1>6. TablesTyped'
  BY <1>3, <1>4, <1>5 DEF CreateCommit, TablesTyped, IInv, TypeOK
<1>7. \A v \in AccountId : Exists(central', v) <=> Exists(central, v) \/ v = u
  BY <1>3, <1>4, <1>5 DEF Exists, IInv, TypeOK, AccountRow
<1>8. AccountsBelong'
  <2>1. \A v \in AccountId : Exists(central', v) => Exists(user', v)
    BY <1>3, <1>7 DEF IInv, AccountsBelong, CreateCommit
  <2> QED BY <2>1 DEF AccountsBelong, Exists
<1>9. \A p \in Request \ {q} : ~Holds(req[p])
  BY <1>3 DEF IInv, OneHolds
<1> QED BY <1>5, <1>6, <1>7, <1>8, <1>9, IdleSound, RequestStep

LEMMA CreateUndoKeeps ==
  ASSUME IInv, NEW q \in Request, CreateUndo(q)
  PROVE  IInv'
<1>1. req[q] \in RequestRow /\ req[q].op = "create" /\ req[q].step = "undo"
      /\ Sound(req[q], user, central)
  BY AtStep DEF CreateUndo
<1>2. PICK u : u = req[q].account
  OBVIOUS
<1>3. Holds(req[q]) /\ u \in AccountId /\ ~Exists(central, u)
  BY <1>1, <1>2 DEF Sound, Holds
<1>4. user' = [user EXCEPT ![u] = Gone] /\ req' = [req EXCEPT ![q] = Idle] /\ central' = central
  BY <1>2 DEF CreateUndo, Finish
<1>5. staff' \in [Staff -> StaffRow]
  BY <1>2 DEF CreateUndo, IInv, TypeOK, StaffRow
<1>6. TablesTyped'
  BY <1>3, <1>4, <1>5 DEF CreateUndo, TablesTyped, IInv, TypeOK
<1>7. AccountsBelong'
  <2>1. \A v \in AccountId : Exists(central', v) => Exists(user', v)
    BY <1>3, <1>4 DEF IInv, TypeOK, AccountsBelong, Exists
  <2> QED BY <2>1 DEF AccountsBelong, Exists
<1>8. \A p \in Request \ {q} : ~Holds(req[p])
  BY <1>3 DEF IInv, OneHolds
<1> QED BY <1>4, <1>6, <1>7, <1>8, IdleSound, RequestStep

-----------------------------------------------------------------------------
(* Deletion, activation, deactivation and the address.                     *)

LEMMA DeleteStaffReadKeeps ==
  ASSUME IInv, NEW q \in Request, NEW s \in Staff, DeleteStaffRead(q, s)
  PROVE  IInv'
<1> DEFINE step == IF staff[s].user = None THEN "tenant" ELSE "revoke"
           r == [op |-> "delete", step |-> step, staff |-> s, account |-> staff[s].user,
                 email |-> None, old |-> None]
<1>1. staff[s].user \in AccountId \cup {None}
  BY DEF IInv, TypeOK, StaffRow
<1>2. r \in RequestRow /\ Sound(r, user, central) /\ ~Holds(r)
  BY <1>1 DEF RequestRow, Sound, Holds
<1>3. req' = [req EXCEPT ![q] = r]
  BY DEF DeleteStaffRead, Begin
<1>4. lost' \in BOOLEAN
  BY DEF DeleteStaffRead, IInv, TypeOK
<1> HIDE DEF r
<1> QED BY <1>2, <1>3, <1>4, QuietStep DEF DeleteStaffRead

LEMMA DeleteStaffRevokeKeeps ==
  ASSUME IInv, NEW q \in Request, DeleteStaffRevoke(q)
  PROVE  IInv'
<1>1. /\ req[q] \in RequestRow /\ req[q].op = "delete" /\ req[q].step = "revoke"
      /\ Sound(req[q], user, central) /\ Exists(central, req[q].account)
  BY AtStep DEF DeleteStaffRevoke
<1>2. PICK u : u = req[q].account
  OBVIOUS
<1>3. u \in AccountId /\ central[u] \in AccountRow
  BY <1>1, <1>2 DEF Sound, Exists, IInv, TypeOK, NoRow
<1>4. PICK row \in AccountRow : row = [central[u] EXCEPT !.active = FALSE, !.deleted = TRUE]
  BY <1>3 DEF AccountRow
<1>5. PICK r : r = [req[q] EXCEPT !.step = "tenant"]
  OBVIOUS
<1>6. /\ r \in RequestRow /\ ~Holds(r)
      /\ \A accounts : Exists(accounts, u) => Sound(r, user, accounts)
  BY <1>1, <1>2, <1>5, RequestUpdates DEF Sound, Holds
<1>7. req' = [req EXCEPT ![q] = r] /\ central' = [central EXCEPT ![u] = row]
  BY <1>2, <1>4, <1>5 DEF DeleteStaffRevoke, Goto, IInv, TypeOK
<1>8. lost' \in BOOLEAN /\ restored' \subseteq AccountId
  BY DEF DeleteStaffRevoke, IInv, TypeOK
<1> QED BY <1>1, <1>2, <1>3, <1>6, <1>7, <1>8, CentralWrite DEF DeleteStaffRevoke

LEMMA DeleteStaffTenantKeeps ==
  ASSUME IInv, NEW q \in Request, DeleteStaffTenant(q)
  PROVE  IInv'
<1>1. /\ req[q] \in RequestRow /\ req[q].op = "delete" /\ req[q].step = "tenant"
      /\ Sound(req[q], user, central)
  BY AtStep DEF DeleteStaffTenant
<1>2. PICK u : u = req[q].account
  OBVIOUS
<1>3. req' = [req EXCEPT ![q] = Idle] /\ UNCHANGED <<central, lost, restored>>
  BY DEF DeleteStaffTenant, Finish
<1>4. staff' \in [Staff -> StaffRow]
  BY DEF DeleteStaffTenant, IInv, TypeOK, StaffRow
<1>5. CASE u = None
  <2>1. user' = user
    BY <1>2, <1>5 DEF DeleteStaffTenant
  <2>2. TablesTyped'
    BY <1>3, <1>4, <2>1 DEF TablesTyped, IInv, TypeOK
  <2> QED BY <1>3, <2>1, <2>2, IdleSound, RowStep
<1>6. CASE u # None
  <2>1. u \in AccountId /\ user[u] \in AccountRow
    BY <1>1, <1>2, <1>6 DEF RequestRow, DeleteStaffTenant, Exists, IInv, TypeOK, NoRow, Gone
  <2>2. PICK row \in AccountRow : row = [user[u] EXCEPT !.active = FALSE, !.deleted = TRUE]
    BY <2>1 DEF AccountRow
  <2>3. user' = [user EXCEPT ![u] = row]
    BY <1>2, <1>6, <2>2 DEF DeleteStaffTenant, IInv, TypeOK
  <2> QED BY <1>3, <1>4, <2>1, <2>3, IdleSound, UserWrite
<1> QED BY <1>5, <1>6

\* Requests that end with a write to a central row that is there.
LEMMA LastCentralWrite ==
  ASSUME IInv, NEW q \in Request, req' = [req EXCEPT ![q] = Idle],
         NEW u \in AccountId, Exists(central, u), NEW row \in AccountRow,
         central' = [central EXCEPT ![u] = row],
         UNCHANGED <<staff, user, lost>>, restored' \subseteq AccountId
  PROVE  IInv'
<1>1. lost' \in BOOLEAN
  BY DEF IInv, TypeOK
<1> QED BY <1>1, IdleSound, CentralWrite

\* ... or to a user that is there.
LEMMA LastUserWrite ==
  ASSUME IInv, NEW q \in Request, req' = [req EXCEPT ![q] = Idle],
         NEW u \in AccountId, NEW row \in AccountRow,
         user' = [user EXCEPT ![u] = row], UNCHANGED <<staff, central, lost, restored>>
  PROVE  IInv'
<1>1. staff' \in [Staff -> StaffRow]
  BY DEF IInv, TypeOK
<1> QED BY <1>1, IdleSound, UserWrite

LEMMA DeleteStaffUndoKeeps ==
  ASSUME IInv, NEW q \in Request, DeleteStaffUndo(q)
  PROVE  IInv'
<1>1. req[q].op = "delete" /\ req[q].step = "undo" /\ Sound(req[q], user, central)
  BY AtStep DEF DeleteStaffUndo
<1>2. PICK u : u = req[q].account
  OBVIOUS
<1>3. u \in AccountId /\ Exists(central, u) /\ central[u] \in AccountRow
  BY <1>1, <1>2, ConstantsOK DEF Sound, Exists, IInv, TypeOK, NoRow
<1>4. PICK row \in AccountRow : row = [central[u] EXCEPT !.active = TRUE, !.deleted = FALSE]
  BY <1>3 DEF AccountRow
<1>5. /\ req' = [req EXCEPT ![q] = Idle] /\ central' = [central EXCEPT ![u] = row]
      /\ UNCHANGED <<staff, user, lost>>
  BY <1>2, <1>4 DEF DeleteStaffUndo, Finish, IInv, TypeOK
<1>6. restored' \subseteq AccountId
  BY <1>2, <1>3 DEF DeleteStaffUndo, IInv, TypeOK
<1> QED BY <1>3, <1>5, <1>6, LastCentralWrite

\* The requests that find the account of a staff record.
LEMMA StatusReadKeeps ==
  ASSUME IInv, NEW q \in Request, NEW s \in Staff, ActivateRead(q, s) \/ DeactivateRead(q, s)
  PROVE  IInv'
<1>1. staff[s].user \in AccountId
  BY DEF ActivateRead, DeactivateRead, HasAccount, IInv, TypeOK, StaffRow
<1>2. PICK op \in {"activate", "deactivate"}, step \in {"user", "revoke"} :
        /\ Begin(q, op, step, s, staff[s].user, None)
        /\ op = "deactivate" => step = "revoke"
  BY DEF ActivateRead, DeactivateRead
<1> DEFINE r == [op |-> op, step |-> step, staff |-> s, account |-> staff[s].user,
                 email |-> None, old |-> None]
<1>3. r \in RequestRow /\ Sound(r, user, central) /\ ~Holds(r)
  BY <1>1, <1>2 DEF RequestRow, Sound, Holds
<1>4. req' = [req EXCEPT ![q] = r]
  BY <1>2 DEF Begin
<1>5. UNCHANGED <<staff, user, central, restored>> /\ lost' \in BOOLEAN
  BY DEF ActivateRead, DeactivateRead, IInv, TypeOK
<1> HIDE DEF r
<1> QED BY <1>3, <1>4, <1>5, QuietStep

LEMMA ActivateUserKeeps ==
  ASSUME IInv, NEW q \in Request, ActivateUser(q)
  PROVE  IInv'
<1>1. req[q] \in RequestRow /\ req[q].op = "activate" /\ Sound(req[q], user, central)
  BY AtStep DEF ActivateUser
<1>2. PICK u : u = req[q].account
  OBVIOUS
<1>3. u \in AccountId /\ user[u] \in AccountRow
  BY <1>1, <1>2 DEF Sound, ActivateUser, Exists, IInv, TypeOK, NoRow, Gone
<1>4. PICK row \in AccountRow : row = [user[u] EXCEPT !.active = TRUE]
  BY <1>3 DEF AccountRow
<1>5. PICK r : r = [req[q] EXCEPT !.step = "commit"]
  OBVIOUS
<1>6. r \in RequestRow /\ ~Holds(r) /\ \A users : Sound(r, users, central)
  BY <1>1, <1>2, <1>3, <1>5, RequestUpdates DEF Sound, Holds
<1>7. req' = [req EXCEPT ![q] = r] /\ user' = [user EXCEPT ![u] = row]
  BY <1>2, <1>4, <1>5 DEF ActivateUser, Goto, IInv, TypeOK
<1>8. staff' \in [Staff -> StaffRow] /\ UNCHANGED <<central, lost, restored>>
  BY DEF ActivateUser, IInv, TypeOK
<1> QED BY <1>3, <1>6, <1>7, <1>8, UserWrite

LEMMA ActivateCommitKeeps ==
  ASSUME IInv, NEW q \in Request, ActivateCommit(q)
  PROVE  IInv'
<1>1. req[q].op = "activate" /\ Sound(req[q], user, central)
  BY AtStep DEF ActivateCommit
<1>2. PICK u : u = req[q].account
  OBVIOUS
<1>3. u \in AccountId /\ Exists(central, u) /\ central[u] \in AccountRow
  BY <1>1, <1>2 DEF Sound, ActivateCommit, Exists, IInv, TypeOK, NoRow
<1>4. PICK row \in AccountRow : row = [central[u] EXCEPT !.active = TRUE]
  BY <1>3 DEF AccountRow
<1>5. /\ req' = [req EXCEPT ![q] = Idle] /\ central' = [central EXCEPT ![u] = row]
      /\ UNCHANGED <<staff, user, lost>> /\ restored' \subseteq AccountId
  BY <1>2, <1>4 DEF ActivateCommit, Finish, IInv, TypeOK
<1> QED BY <1>3, <1>5, LastCentralWrite

LEMMA ActivateUndoKeeps ==
  ASSUME IInv, NEW q \in Request, ActivateUndo(q)
  PROVE  IInv'
<1>1. req[q].op = "activate" /\ Sound(req[q], user, central)
  BY AtStep DEF ActivateUndo
<1>2. PICK u : u = req[q].account
  OBVIOUS
<1>3. u \in AccountId /\ user[u] \in AccountRow
  BY <1>1, <1>2 DEF Sound, ActivateUndo, Exists, IInv, TypeOK, NoRow, Gone
<1>4. PICK row \in AccountRow : row = [user[u] EXCEPT !.active = FALSE]
  BY <1>3 DEF AccountRow
<1>5. /\ req' = [req EXCEPT ![q] = Idle] /\ user' = [user EXCEPT ![u] = row]
      /\ UNCHANGED <<staff, central, lost, restored>>
  BY <1>2, <1>4 DEF ActivateUndo, Finish, IInv, TypeOK
<1> QED BY <1>3, <1>5, LastUserWrite

LEMMA DeactivateRevokeKeeps ==
  ASSUME IInv, NEW q \in Request, DeactivateRevoke(q)
  PROVE  IInv'
<1>1. /\ req[q] \in RequestRow /\ req[q].op = "deactivate"
      /\ Sound(req[q], user, central) /\ Exists(central, req[q].account)
  BY AtStep DEF DeactivateRevoke
<1>2. PICK u : u = req[q].account
  OBVIOUS
<1>3. u \in AccountId /\ central[u] \in AccountRow
  BY <1>1, <1>2 DEF Sound, Exists, IInv, TypeOK, NoRow
<1>4. PICK row \in AccountRow : row = [central[u] EXCEPT !.active = FALSE]
  BY <1>3 DEF AccountRow
<1>5. PICK r : r = [req[q] EXCEPT !.step = "user"]
  OBVIOUS
<1>6. /\ r \in RequestRow /\ ~Holds(r)
      /\ \A accounts : Exists(accounts, u) => Sound(r, user, accounts)
  BY <1>1, <1>2, <1>3, <1>5, RequestUpdates DEF Sound, Holds
<1>7. req' = [req EXCEPT ![q] = r] /\ central' = [central EXCEPT ![u] = row]
  BY <1>2, <1>4, <1>5 DEF DeactivateRevoke, Goto, IInv, TypeOK
<1>8. lost' \in BOOLEAN /\ restored' \subseteq AccountId
  BY DEF DeactivateRevoke, IInv, TypeOK
<1> QED BY <1>1, <1>2, <1>3, <1>6, <1>7, <1>8, CentralWrite DEF DeactivateRevoke

LEMMA DeactivateUserKeeps ==
  ASSUME IInv, NEW q \in Request, DeactivateUser(q)
  PROVE  IInv'
<1>1. req[q].op = "deactivate" /\ Sound(req[q], user, central)
  BY AtStep DEF DeactivateUser
<1>2. PICK u : u = req[q].account
  OBVIOUS
<1>3. u \in AccountId /\ user[u] \in AccountRow
  BY <1>1, <1>2 DEF Sound, DeactivateUser, Exists, IInv, TypeOK, NoRow, Gone
<1>4. PICK row \in AccountRow : row = [user[u] EXCEPT !.active = FALSE]
  BY <1>3 DEF AccountRow
<1>5. /\ req' = [req EXCEPT ![q] = Idle] /\ user' = [user EXCEPT ![u] = row]
      /\ UNCHANGED <<staff, central, lost, restored>>
  BY <1>2, <1>4 DEF DeactivateUser, Finish, IInv, TypeOK
<1> QED BY <1>3, <1>5, LastUserWrite

LEMMA DeactivateUndoKeeps ==
  ASSUME IInv, NEW q \in Request, DeactivateUndo(q)
  PROVE  IInv'
<1>1. req[q].op = "deactivate" /\ req[q].step = "undo" /\ Sound(req[q], user, central)
  BY AtStep DEF DeactivateUndo
<1>2. PICK u : u = req[q].account
  OBVIOUS
<1>3. u \in AccountId /\ Exists(central, u) /\ central[u] \in AccountRow
  BY <1>1, <1>2 DEF Sound, Exists, IInv, TypeOK, NoRow
<1>4. PICK row \in AccountRow : row = [central[u] EXCEPT !.active = TRUE]
  BY <1>3 DEF AccountRow
<1>5. /\ req' = [req EXCEPT ![q] = Idle] /\ central' = [central EXCEPT ![u] = row]
      /\ UNCHANGED <<staff, user, lost>> /\ restored' \subseteq AccountId
  BY <1>2, <1>4 DEF DeactivateUndo, Finish, IInv, TypeOK
<1> QED BY <1>3, <1>5, LastCentralWrite

LEMMA EmailReadKeeps ==
  ASSUME IInv, NEW q \in Request, NEW s \in Staff, NEW e \in Email, EmailRead(q, s, e)
  PROVE  IInv'
<1>1. staff[s].user \in AccountId /\ user[staff[s].user].email \in Email
  BY DEF EmailRead, HasAccount, Exists, IInv, TypeOK, StaffRow, AccountRow, NoRow, Gone
<1> DEFINE r == [op |-> "email", step |-> "central", staff |-> s, account |-> staff[s].user,
                 email |-> e, old |-> user[staff[s].user].email]
<1>2. r \in RequestRow /\ Sound(r, user, central) /\ ~Holds(r)
  BY <1>1 DEF RequestRow, Sound, Holds
<1>3. req' = [req EXCEPT ![q] = r]
  BY DEF EmailRead
<1>4. lost' \in BOOLEAN
  BY DEF EmailRead, IInv, TypeOK
<1> HIDE DEF r
<1> QED BY <1>2, <1>3, <1>4, QuietStep DEF EmailRead

LEMMA EmailCentralKeeps ==
  ASSUME IInv, NEW q \in Request, EmailCentral(q)
  PROVE  IInv'
<1>1. /\ req[q] \in RequestRow /\ req[q].op = "email"
      /\ Sound(req[q], user, central) /\ Exists(central, req[q].account)
  BY AtStep DEF EmailCentral
<1>2. PICK u : u = req[q].account
  OBVIOUS
<1>3. u \in AccountId /\ central[u] \in AccountRow /\ req[q].email \in Email
  BY <1>1, <1>2 DEF Sound, Exists, IInv, TypeOK, NoRow
<1>4. PICK row \in AccountRow : row = [central[u] EXCEPT !.email = req[q].email]
  BY <1>3 DEF AccountRow
<1>5. PICK r : r = [req[q] EXCEPT !.step = "user"]
  OBVIOUS
<1>6. /\ r \in RequestRow /\ ~Holds(r)
      /\ \A accounts : Exists(accounts, u) => Sound(r, user, accounts)
  BY <1>1, <1>2, <1>3, <1>5, RequestUpdates DEF Sound, Holds
<1>7. req' = [req EXCEPT ![q] = r] /\ central' = [central EXCEPT ![u] = row]
  BY <1>2, <1>4, <1>5 DEF EmailCentral, Goto, IInv, TypeOK
<1>8. lost' \in BOOLEAN /\ restored' \subseteq AccountId
  BY DEF EmailCentral, IInv, TypeOK
<1> QED BY <1>1, <1>2, <1>3, <1>6, <1>7, <1>8, CentralWrite DEF EmailCentral

LEMMA EmailUserKeeps ==
  ASSUME IInv, NEW q \in Request, EmailUser(q)
  PROVE  IInv'
<1>1. req[q].op = "email" /\ Sound(req[q], user, central)
  BY AtStep DEF EmailUser
<1>2. PICK u : u = req[q].account
  OBVIOUS
<1>3. u \in AccountId /\ user[u] \in AccountRow /\ req[q].email \in Email
  BY <1>1, <1>2 DEF Sound, EmailUser, Exists, IInv, TypeOK, NoRow, Gone
<1>4. PICK row \in AccountRow : row = [user[u] EXCEPT !.email = req[q].email]
  BY <1>3 DEF AccountRow
<1>5. /\ req' = [req EXCEPT ![q] = Idle] /\ user' = [user EXCEPT ![u] = row]
      /\ UNCHANGED <<staff, central, lost, restored>>
  BY <1>2, <1>4 DEF EmailUser, Finish, IInv, TypeOK
<1> QED BY <1>3, <1>5, LastUserWrite

LEMMA EmailUndoKeeps ==
  ASSUME IInv, NEW q \in Request, EmailUndo(q)
  PROVE  IInv'
<1>1. req[q].op = "email" /\ req[q].step = "undo" /\ Sound(req[q], user, central)
  BY AtStep DEF EmailUndo
<1>2. PICK u : u = req[q].account
  OBVIOUS
<1>3. u \in AccountId /\ Exists(central, u) /\ central[u] \in AccountRow /\ req[q].old \in Email
  BY <1>1, <1>2 DEF Sound, Exists, IInv, TypeOK, NoRow
<1>4. PICK row \in AccountRow : row = [central[u] EXCEPT !.email = req[q].old]
  BY <1>3 DEF AccountRow
<1>5. /\ req' = [req EXCEPT ![q] = Idle] /\ central' = [central EXCEPT ![u] = row]
      /\ UNCHANGED <<staff, user, lost>> /\ restored' \subseteq AccountId
  BY <1>2, <1>4 DEF EmailUndo, Finish, IInv, TypeOK
<1> QED BY <1>3, <1>5, LastCentralWrite

-----------------------------------------------------------------------------
(* Failures, and all steps.                                                *)

LEMMA FailKeeps ==
  ASSUME IInv, NEW q \in Request, Fail(q)
  PROVE  IInv'
<1>1. UNCHANGED <<staff, user, central, restored>> /\ lost' \in BOOLEAN
  BY DEF Fail, IInv, TypeOK
<1>2. CASE Caught(q)
  <2>1. req[q] \in RequestRow /\ Sound(req[q], user, central)
    BY DEF Fail, IInv, TypeOK, AllSound
  <2>2. PICK r : r = [req[q] EXCEPT !.step = "undo"]
    OBVIOUS
  <2>3. r \in RequestRow /\ (Holds(r) => Holds(req[q]))
    BY <1>2, <2>1, <2>2, RequestUpdates DEF Caught, At, Holds
  <2>4. Sound(r, user, central)
    BY <1>2, <2>1, <2>2, RequestUpdates DEF Caught, At, Sound, Holds, RequestRow
  <2>5. req' = [req EXCEPT ![q] = r]
    BY <1>2, <2>2 DEF Fail, Goto, IInv, TypeOK
  <2> QED BY <1>1, <2>3, <2>4, <2>5, QuietStep
<1>3. CASE ~Caught(q)
  <2>1. req' = [req EXCEPT ![q] = Idle]
    BY <1>3 DEF Fail, Finish
  <2> QED BY <1>1, <2>1, IdleSound, QuietStep
<1> QED BY <1>2, <1>3

LEMMA CutKeeps ==
  ASSUME IInv, NEW q \in Request, Cut(q)
  PROVE  IInv'
<1>1. req' = [req EXCEPT ![q] = Idle] /\ lost' \in BOOLEAN
      /\ UNCHANGED <<staff, user, central, restored>>
  BY DEF Cut, Finish
<1> QED BY <1>1, IdleSound, QuietStep

LEMMA Inductive ==
  ASSUME IInv, [Next]_vars
  PROVE  IInv'
<1>1. ASSUME NEW s \in Staff, CreateStaff(s)
      PROVE  IInv'
  BY <1>1, CreateStaffKeeps
<1>2. ASSUME NEW q \in Request, NEW s \in Staff, NEW u \in AccountId, NEW e \in Email,
             CreateStaffWithAccount(q, s, u, e)
      PROVE  IInv'
  BY <1>2, CreateStaffWithAccountKeeps
<1>3. ASSUME NEW q \in Request,
             CreateAccountLink(q) \/ CreateAccountCheck(q) \/ CreateCommit(q) \/ CreateUndo(q)
      PROVE  IInv'
  BY <1>3, CreateAccountLinkKeeps, CreateAccountCheckKeeps, CreateCommitKeeps, CreateUndoKeeps
<1>4. ASSUME NEW q \in Request, NEW s \in Staff, DeleteStaffRead(q, s)
      PROVE  IInv'
  BY <1>4, DeleteStaffReadKeeps
<1>5. ASSUME NEW q \in Request, DeleteStaffRevoke(q) \/ DeleteStaffTenant(q) \/ DeleteStaffUndo(q)
      PROVE  IInv'
  BY <1>5, DeleteStaffRevokeKeeps, DeleteStaffTenantKeeps, DeleteStaffUndoKeeps
<1>6. ASSUME NEW q \in Request, NEW s \in Staff, ActivateRead(q, s) \/ DeactivateRead(q, s)
      PROVE  IInv'
  BY <1>6, StatusReadKeeps
<1>7. ASSUME NEW q \in Request, ActivateUser(q) \/ ActivateCommit(q) \/ ActivateUndo(q)
      PROVE  IInv'
  BY <1>7, ActivateUserKeeps, ActivateCommitKeeps, ActivateUndoKeeps
<1>8. ASSUME NEW q \in Request, DeactivateRevoke(q) \/ DeactivateUser(q) \/ DeactivateUndo(q)
      PROVE  IInv'
  BY <1>8, DeactivateRevokeKeeps, DeactivateUserKeeps, DeactivateUndoKeeps
<1>9. ASSUME NEW q \in Request, NEW s \in Staff, NEW e \in Email, EmailRead(q, s, e)
      PROVE  IInv'
  BY <1>9, EmailReadKeeps
<1>10. ASSUME NEW q \in Request, EmailCentral(q) \/ EmailUser(q) \/ EmailUndo(q)
       PROVE  IInv'
  BY <1>10, EmailCentralKeeps, EmailUserKeeps, EmailUndoKeeps
<1>11. ASSUME NEW q \in Request, Fail(q) \/ Cut(q)
       PROVE  IInv'
  BY <1>11, FailKeeps, CutKeeps
<1>12. ASSUME NEW q \in Request, NEW s \in Staff, NEW e \in Email, CreateAccountRead(q, s, e)
       PROVE  IInv'
  BY <1>12, CreateAccountReadKeeps
<1>13. ASSUME NEW q \in Request, NEW u \in AccountId, CreateAccountUser(q, u)
       PROVE  IInv'
  BY <1>13, CreateAccountUserKeeps
<1>14. CASE UNCHANGED vars
  BY <1>14 DEF vars, IInv, TypeOK, AllSound, OneHolds, AccountsBelong
<1> QED
  BY <1>1, <1>2, <1>3, <1>4, <1>5, <1>6, <1>7, <1>8, <1>9, <1>10, <1>11, <1>12, <1>13, <1>14 DEF Next

LEMMA Always ==
  Spec => []IInv
<1>1. ASSUME Init
      PROVE  IInv
  <2>1. TypeOK
    BY <1>1 DEF Init, TypeOK, StaffRow
  <2>2. AllSound
    BY <1>1, IdleSound DEF Init, AllSound
  <2>3. OneHolds
    BY <1>1, IdleSound DEF Init, OneHolds
  <2>4. AccountsBelong
    BY <1>1 DEF Init, AccountsBelong, Exists, NoRow
  <2> QED BY <2>1, <2>2, <2>3, <2>4 DEF IInv
<1>2. IInv /\ [Next]_vars => IInv'
  BY Inductive
<1>3. Init => IInv
  BY <1>1
<1> QED BY <1>2, <1>3, PTL DEF Spec

\* Every row and every request keeps its type, also what a catch block writes back.
THEOREM TypeCorrect == Spec => []TypeOK
<1>1. IInv => TypeOK
  BY DEF IInv
<1> QED BY <1>1, Always, PTL

\* However requests interleave and whatever fails, nobody has a central account without a
\* row in the tenant's database.
THEOREM CentralAccountsBelong == Spec => []AccountsBelong
<1>1. IInv => AccountsBelong
  BY DEF IInv
<1> QED BY <1>1, Always, PTL
-----------------------------------------------------------------------------
(* Requests that run one by one.                                           *)

\* At most one request is in flight.
Sole == \A p, q \in Request : req[p] # Idle /\ req[q] # Idle => p = q

\* An account is linked to one record, and a record that lives to no deleted user.
Links ==
  \A s \in Staff :
    /\ staff[s].row = "NONE" => staff[s].user = None
    /\ staff[s].user # None =>
         /\ user[staff[s].user] # NoRow
         /\ \A t \in Staff : staff[t].user = staff[s].user => t = s
         /\ Live(s) /\ Exists(user, staff[s].user) => ~user[staff[s].user].deleted

\* A request that wrote to one of the two databases.
Half(r) ==
  \/ Holds(r)
  \/ r.op = "delete" /\ r.step \in {"tenant", "undo"}
  \/ r.op = "activate" /\ r.step \in {"commit", "undo"}
  \/ r.op = "deactivate" /\ r.step \in {"user", "undo"}
  \/ r.op = "email" /\ r.step \in {"user", "undo"}

InSync(u) ==
  u \in restored \/ IF Exists(user, u) THEN central[u] = user[u] ELSE ~Exists(central, u)

Synced ==
  ~lost => \A u \in AccountId : InSync(u) \/ \E q \in Request : Half(req[q]) /\ req[q].account = u

\* What a creation has read is still so, and what it has written is there.
StillCreating(r) ==
  r.op = "create" =>
    /\ r.step \in {"user", "link"} => Live(r.staff) /\ staff[r.staff].user = None
    /\ r.step \in {"link", "check", "commit"} => user[r.account] = NewRow(r.email)
    /\ r.step = "link" => \A t \in Staff : staff[t].user # r.account
    /\ r.step \in {"check", "commit"} => Live(r.staff) /\ staff[r.staff].user = r.account

\* ... and what another request has read, that acts on the account u.
StillChanging(r, u) ==
  /\ r.op \in {"delete", "activate", "deactivate", "email"} =>
       Live(r.staff) /\ staff[r.staff].user = u /\ r.staff \in Staff
  /\ r.op = "delete" /\ r.step \in {"tenant", "undo"} /\ u # None => ~Authorized(u)
  /\ r.op = "activate" => (Authorized(u) => u \in restored)
  /\ r.op = "activate" /\ r.step = "user" => (Exists(user, u) => ~user[u].active)
  /\ r.op = "activate" /\ r.step = "commit" => user[u].active
  /\ r.op = "deactivate" => Exists(user, u) /\ user[u].active
  /\ r.op = "deactivate" /\ r.step = "user" => ~Authorized(u)
  /\ r.op = "email" => Exists(user, u) /\ r.old = user[u].email

\* The two rows of an account of which one is written are equal, but for what was written.
Ahead(r, u) ==
  /\ r.op = "delete" /\ r.step \in {"tenant", "undo"} =>
       Exists(user, u) /\ central[u] = [user[u] EXCEPT !.active = FALSE, !.deleted = TRUE]
  /\ r.op = "activate" /\ r.step \in {"commit", "undo"} =>
       Exists(user, u) /\ user[u].active /\ central[u] = [user[u] EXCEPT !.active = FALSE]
  /\ r.op = "deactivate" /\ r.step \in {"user", "undo"} =>
       central[u] = [user[u] EXCEPT !.active = FALSE]
  /\ r.op = "email" /\ r.step \in {"user", "undo"} =>
       central[u] = [user[u] EXCEPT !.email = r.email]

StillSo(r) ==
  /\ StillCreating(r)
  /\ StillChanging(r, r.account)
  /\ ~lost /\ r.account # None /\ r.account \notin restored => Ahead(r, r.account)

AloneFacts == Sole /\ Links /\ AccessIsHeld /\ Synced /\ \A q \in Request : StillSo(req[q])

LEMMA StepsAlone ==
  ASSUME MCNext, alone', DOMAIN req' = Request
  PROVE  alone /\ Sole' /\ (req' # req \/ \A q \in Request : req[q] = Idle)
<1>1. alone /\ Cardinality(InFlight') <= 1 /\ (InFlight = {} \/ req' # req)
  BY DEF MCNext
<1>2. IsFiniteSet(InFlight')
  BY ConstantsOK, FS_Subset DEF InFlight
<1>3. Sole'
  BY <1>1, <1>2, AtMostOne DEF Sole, InFlight
<1> QED BY <1>1, <1>3 DEF InFlight

\* The others are idle where a request is in flight.
LEMMA OthersIdle ==
  ASSUME IInv, AloneFacts, Sole', NEW q \in Request, NEW r, req' = [req EXCEPT ![q] = r],
         req[q] # Idle \/ r # Idle, StillSo(r)'
  PROVE  \A p \in Request : (p # q => req[p] = Idle /\ req'[p] = Idle) /\ StillSo(req[p])'
<1>1. req'[q] = r /\ \A p \in Request : p # q => req'[p] = req[p]
  BY DEF IInv, TypeOK
<1>2. \A p \in Request : p # q => req[p] = Idle
  BY <1>1 DEF AloneFacts, Sole
<1>3. StillSo(Idle)'
  BY DEF StillSo, StillCreating, StillChanging, Ahead, Idle
<1> QED BY <1>1, <1>2, <1>3

\* A request that reads.
LEMMA ReadAlone ==
  ASSUME IInv, AloneFacts, Sole', NEW q \in Request, NEW r, req' = [req EXCEPT ![q] = r],
         r # Idle, req[q] = Idle, UNCHANGED <<staff, user, central, lost, restored>>, StillSo(r)
  PROVE  AloneFacts'
<1>1. StillSo(r)'
  BY DEF StillSo, StillCreating, StillChanging, Ahead, Live, Exists, Authorized
<1>2. \A p \in Request : (p # q => req[p] = Idle /\ req'[p] = Idle) /\ StillSo(req[p])'
  BY <1>1, OthersIdle
<1>3. Links' /\ AccessIsHeld'
  BY DEF AloneFacts, Links, AccessIsHeld, Live, Exists, Authorized, Member
<1>4. \A p \in Request : ~Half(req[p])
  BY <1>2 DEF Half, Holds, Idle
<1>5. Synced'
  BY <1>4 DEF AloneFacts, Synced, InSync, Exists
<1> QED BY <1>2, <1>3, <1>5 DEF AloneFacts

\* A step on the account u, that leaves the records of staff as they are.
LEMMA AccountAlone ==
  ASSUME IInv, AloneFacts, Sole', NEW q \in Request, NEW r, req' = [req EXCEPT ![q] = r],
         req[q] # Idle, NEW u \in AccountId,
         Half(req[q]) => req[q].account = u,
         UNCHANGED <<staff, lost>>,
         \A v \in AccountId \ {u} :
           user'[v] = user[v] /\ central'[v] = central[v] /\ (v \in restored' <=> v \in restored),
         user'[u] # NoRow,
         Exists(user', u) /\ user'[u].deleted => Exists(user, u) /\ user[u].deleted,
         Authorized(u)' =>
           /\ Member(u)' \/ u \in restored'
           /\ Authorized(u) \/ \E s \in Staff : Live(s) /\ staff[s].user = u,
         ~lost => InSync(u)' \/ (Half(r) /\ r.account = u),
         StillSo(r)'
  PROVE  AloneFacts'
<1>1. \A p \in Request : (p # q => req[p] = Idle /\ req'[p] = Idle) /\ StillSo(req[p])'
  BY OthersIdle
<1>2. Links'
  <2> SUFFICES ASSUME NEW s \in Staff
               PROVE  /\ staff[s].row = "NONE" => staff[s].user = None
                      /\ staff[s].user # None =>
                           /\ user'[staff[s].user] # NoRow
                           /\ \A t \in Staff : staff[t].user = staff[s].user => t = s
                           /\ Live(s) /\ Exists(user', staff[s].user) => ~user'[staff[s].user].deleted
    BY DEF Links, Live
  <2>1. staff[s].user \in AccountId \cup {None}
    BY DEF IInv, TypeOK, StaffRow
  <2>2. CASE staff[s].user = u
    BY <2>2 DEF AloneFacts, Links
  <2>3. CASE staff[s].user # u
    BY <2>1, <2>3 DEF AloneFacts, Links, Exists
  <2> QED BY <2>2, <2>3
<1>3. AccessIsHeld'
  <2> SUFFICES ASSUME NEW v \in AccountId, Authorized(v)'
               PROVE  /\ Member(v)' \/ v \in restored'
                      /\ \E s \in Staff : Live(s)' /\ staff'[s].user = v
    BY DEF AccessIsHeld
  <2>1. Authorized(u) => \E s \in Staff : Live(s) /\ staff[s].user = u
    BY DEF AloneFacts, AccessIsHeld
  <2>2. CASE v = u
    BY <2>1, <2>2 DEF Live
  <2>3. CASE v # u
    <3>1. Authorized(v) /\ (Member(v)' <=> Member(v)) /\ (v \in restored' <=> v \in restored)
      BY <2>3 DEF Authorized, Member, Exists
    <3> QED BY <3>1 DEF AloneFacts, AccessIsHeld, Live
  <2> QED BY <2>2, <2>3
<1>4. Synced'
  <2> SUFFICES ASSUME ~lost, NEW v \in AccountId, ~InSync(v)'
               PROVE  Half(req'[q]) /\ req'[q].account = v
    BY DEF Synced
  <2>1. req'[q] = r
    BY DEF IInv, TypeOK
  <2>2. CASE v = u
    BY <2>1, <2>2
  <2>3. CASE v # u
    <3>1. ~InSync(v)
      BY <2>3 DEF InSync, Exists
    <3>2. PICK p \in Request : Half(req[p]) /\ req[p].account = v
      BY <3>1 DEF AloneFacts, Synced
    <3>3. p = q
      BY <1>1, <3>2 DEF Half, Holds, Idle
    <3> QED BY <2>3, <3>2, <3>3
  <2> QED BY <2>2, <2>3
<1> QED BY <1>1, <1>2, <1>3, <1>4 DEF AloneFacts

LEMMA IdleStill == StillSo(Idle)'
BY DEF StillSo, StillCreating, StillChanging, Ahead, Idle

LEMMA ReadsAlone ==
  ASSUME IInv, AloneFacts, Sole', NEW q \in Request, NEW s \in Staff,
         \/ \E e \in Email : CreateAccountRead(q, s, e) \/ EmailRead(q, s, e)
         \/ DeleteStaffRead(q, s) \/ ActivateRead(q, s) \/ DeactivateRead(q, s)
  PROVE  AloneFacts'
<1>1. ASSUME NEW e \in Email, CreateAccountRead(q, s, e)
      PROVE  AloneFacts'
  <2> DEFINE r == [op |-> "create", step |-> "user", staff |-> s, account |-> None,
                   email |-> e, old |-> None]
  <2>1. StillSo(r) /\ r # Idle
    BY <1>1 DEF CreateAccountRead, StillSo, StillCreating, StillChanging, Idle
  <2>2. req' = [req EXCEPT ![q] = r] /\ req[q] = Idle
    BY <1>1 DEF CreateAccountRead, Begin
  <2> HIDE DEF r
  <2> QED BY <1>1, <2>1, <2>2, ReadAlone DEF CreateAccountRead
<1>2. ASSUME NEW e \in Email, EmailRead(q, s, e)
      PROVE  AloneFacts'
  <2> DEFINE r == [op |-> "email", step |-> "central", staff |-> s, account |-> staff[s].user,
                   email |-> e, old |-> user[staff[s].user].email]
  <2>1. StillSo(r) /\ r # Idle
    BY <1>2 DEF EmailRead, HasAccount, StillSo, StillCreating, StillChanging, Ahead, Idle
  <2>2. req' = [req EXCEPT ![q] = r] /\ req[q] = Idle
    BY <1>2 DEF EmailRead
  <2> HIDE DEF r
  <2> QED BY <1>2, <2>1, <2>2, ReadAlone DEF EmailRead
<1>3. ASSUME DeleteStaffRead(q, s)
      PROVE  AloneFacts'
  <2> DEFINE step == IF staff[s].user = None THEN "tenant" ELSE "revoke"
             r == [op |-> "delete", step |-> step, staff |-> s, account |-> staff[s].user,
                   email |-> None, old |-> None]
  <2>1. StillSo(r) /\ r # Idle
    BY <1>3 DEF DeleteStaffRead, StillSo, StillCreating, StillChanging, Ahead, Idle
  <2>2. req' = [req EXCEPT ![q] = r] /\ req[q] = Idle
    BY <1>3 DEF DeleteStaffRead, Begin
  <2> HIDE DEF r
  <2> QED BY <1>3, <2>1, <2>2, ReadAlone DEF DeleteStaffRead
<1>4. ASSUME ActivateRead(q, s)
      PROVE  AloneFacts'
  <2> DEFINE r == [op |-> "activate", step |-> "user", staff |-> s, account |-> staff[s].user,
                   email |-> None, old |-> None]
  <2>1. staff[s].user \in AccountId
    BY <1>4 DEF ActivateRead, HasAccount, IInv, TypeOK, StaffRow
  <2>2. Authorized(staff[s].user) => staff[s].user \in restored
    BY <1>4, <2>1 DEF ActivateRead, IsActive, AloneFacts, AccessIsHeld, Member
  <2>3. StillSo(r) /\ r # Idle
    BY <1>4, <2>2 DEF ActivateRead, HasAccount, IsActive, StillSo, StillCreating, StillChanging,
       Ahead, Idle
  <2>4. req' = [req EXCEPT ![q] = r] /\ req[q] = Idle
    BY <1>4 DEF ActivateRead, Begin
  <2> HIDE DEF r
  <2> QED BY <1>4, <2>3, <2>4, ReadAlone DEF ActivateRead
<1>5. ASSUME DeactivateRead(q, s)
      PROVE  AloneFacts'
  <2> DEFINE r == [op |-> "deactivate", step |-> "revoke", staff |-> s, account |-> staff[s].user,
                   email |-> None, old |-> None]
  <2>1. StillSo(r) /\ r # Idle
    BY <1>5 DEF DeactivateRead, HasAccount, IsActive, StillSo, StillCreating, StillChanging,
       Ahead, Idle
  <2>2. req' = [req EXCEPT ![q] = r] /\ req[q] = Idle
    BY <1>5 DEF DeactivateRead, Begin
  <2> HIDE DEF r
  <2> QED BY <1>5, <2>1, <2>2, ReadAlone DEF DeactivateRead
<1> QED BY <1>1, <1>2, <1>3, <1>4, <1>5

\* A request that fails, or is cut off.
LEMMA FailuresAlone ==
  ASSUME IInv, AloneFacts, Sole', NEW q \in Request, Fail(q) \/ Cut(q)
  PROVE  AloneFacts'
<1>1. req[q] # Idle /\ req[q] \in RequestRow /\ UNCHANGED <<staff, user, central, restored>>
  BY DEF Fail, Cut, IInv, TypeOK
<1>2. Links' /\ AccessIsHeld'
  BY <1>1 DEF AloneFacts, Links, AccessIsHeld, Live, Exists, Authorized, Member
<1>3. PICK r : r = [req[q] EXCEPT !.step = "undo"]
  OBVIOUS
<1>4. /\ r.step = "undo" /\ r.op = req[q].op /\ r.account = req[q].account
      /\ r.staff = req[q].staff /\ r.old = req[q].old /\ r.email = req[q].email
  BY <1>1, <1>3, RequestUpdates
<1>5. StillSo(req[q])
  BY DEF AloneFacts
<1>6. CASE (Fail(q) /\ ~Caught(q)) \/ Cut(q)
  <2>0. req' = [req EXCEPT ![q] = Idle]
    BY <1>6 DEF Fail, Cut, Finish
  <2>1. \A p \in Request : req[p] = Idle \/ p = q
    BY <1>1 DEF AloneFacts, Sole
  <2>2. \A p \in Request : (p # q => req[p] = Idle /\ req'[p] = Idle) /\ StillSo(req[p])'
    BY <1>1, <2>0, IdleStill, OthersIdle
  <2>3. Synced'
    <3>1. ASSUME ~lost'
          PROVE  ~lost /\ (Half(req[q]) => req[q].account = None)
      <4>1. Fail(q) /\ ~Caught(q) /\ ~lost /\ req[q].step # "undo"
        BY <1>6, <3>1 DEF Fail, Cut, IInv, TypeOK
      <4> QED BY <1>1, <4>1 DEF Fail, Half, Holds, Caught, At
    <3>2. ASSUME ~lost', NEW u \in AccountId
          PROVE  InSync(u)
      <4>1. InSync(u) \/ \E p \in Request : Half(req[p]) /\ req[p].account = u
        BY <3>1, <3>2 DEF AloneFacts, Synced
      <4>2. ASSUME NEW p \in Request, Half(req[p]), req[p].account = u
            PROVE  FALSE
        <5>1. p = q
          BY <2>2, <4>2 DEF Half, Holds, Idle
        <5> QED BY <3>1, <3>2, <4>2, <5>1, ConstantsOK
      <4> QED BY <4>1, <4>2
    <3> QED BY <1>1, <3>2 DEF Synced, InSync, Exists
  <2> QED BY <1>2, <2>2, <2>3 DEF AloneFacts
<1>7. CASE Fail(q) /\ Caught(q)
  <2>1. req' = [req EXCEPT ![q] = r] /\ Half(req[q]) /\ Half(r)
    BY <1>1, <1>3, <1>4, <1>7 DEF Fail, Goto, Caught, At, Half, Holds, IInv, TypeOK
  <2>2. lost' = lost
    BY <1>7 DEF Fail, Caught, At, IInv, TypeOK
  <2>3. StillCreating(r)' /\ StillChanging(r, r.account)'
    BY <1>1, <1>4, <1>5, <1>7 DEF StillSo, StillCreating, StillChanging, Caught, At, Live, Exists,
       Authorized
  <2>4. ~lost /\ r.account # None /\ r.account \notin restored => Ahead(r, r.account)'
    BY <1>1, <1>4, <1>5, <1>7 DEF StillSo, Ahead, Caught, At, Exists
  <2>5. StillSo(r)'
    BY <1>1, <2>2, <2>3, <2>4 DEF StillSo
  <2>6. \A p \in Request : (p # q => req[p] = Idle /\ req'[p] = Idle) /\ StillSo(req[p])'
    BY <1>1, <2>1, <2>5, OthersIdle
  <2>7. Synced'
    <3>1. req'[q] = r
      BY <2>1 DEF IInv, TypeOK
    <3>2. ASSUME NEW p \in Request, Half(req[p])
          PROVE  Half(req'[q]) /\ req'[q].account = req[p].account
      <4>1. p = q
        BY <2>6, <3>2 DEF Half, Holds, Idle
      <4> QED BY <1>4, <2>1, <3>1, <4>1
    <3> QED BY <1>1, <2>2, <3>2 DEF AloneFacts, Synced, InSync, Exists
  <2> QED BY <1>2, <2>6, <2>7 DEF AloneFacts
<1> QED BY <1>6, <1>7

\* ... that writes to its user, and leaves it deleted or not.
LEMMA UserAlone ==
  ASSUME IInv, AloneFacts, Sole', NEW q \in Request, NEW r, req' = [req EXCEPT ![q] = r],
         req[q] # Idle, NEW u \in AccountId, req[q].account = u, NEW row \in AccountRow,
         Exists(user, u), row.deleted = user[u].deleted, user' = [user EXCEPT ![u] = row],
         UNCHANGED <<staff, central, lost, restored>>,
         Authorized(u) => (row.active /\ ~row.deleted) \/ u \in restored,
         ~lost => InSync(u)' \/ (Half(r) /\ r.account = u),
         StillSo(r)'
  PROVE  AloneFacts'
<1>1. /\ user'[u] = row /\ user'[u] # NoRow /\ Exists(user', u)
      /\ \A v \in AccountId \ {u} : user'[v] = user[v]
  BY DEF IInv, TypeOK, Exists, AccountRow, NoRow
<1>2. Authorized(u)' => Authorized(u) /\ (Member(u)' \/ u \in restored)
  BY <1>1 DEF Authorized, Member, Exists
<1> QED BY <1>1, <1>2, AccountAlone

\* ... that writes to its central row.
LEMMA CentralAlone ==
  ASSUME IInv, AloneFacts, Sole', NEW q \in Request, NEW r, req' = [req EXCEPT ![q] = r],
         req[q] # Idle, NEW u \in AccountId, req[q].account = u, NEW row \in AccountRow,
         Exists(user, u), central' = [central EXCEPT ![u] = row],
         UNCHANGED <<staff, user, lost>>,
         \A v \in AccountId \ {u} : v \in restored' <=> v \in restored,
         row.active /\ ~row.deleted =>
           /\ Member(u) \/ u \in restored'
           /\ Authorized(u) \/ \E s \in Staff : Live(s) /\ staff[s].user = u,
         ~lost => InSync(u)' \/ (Half(r) /\ r.account = u),
         StillSo(r)'
  PROVE  AloneFacts'
<1>1. /\ central'[u] = row /\ user[u] # NoRow
      /\ \A v \in AccountId \ {u} : central'[v] = central[v]
  BY DEF IInv, TypeOK, Exists, NoRow
<1>2. Authorized(u)' => row.active /\ ~row.deleted
  BY <1>1 DEF Authorized
<1>3. Member(u)' <=> Member(u)
  BY DEF Member, Exists
<1>4. Exists(user', u) /\ user'[u].deleted => Exists(user, u) /\ user[u].deleted
  BY DEF Exists
<1> QED BY <1>1, <1>2, <1>3, <1>4, AccountAlone

\* ... with its last write.
LEMMA LastCentralAlone ==
  ASSUME IInv, AloneFacts, Sole', NEW q \in Request, req' = [req EXCEPT ![q] = Idle],
         req[q] # Idle, NEW u \in AccountId, req[q].account = u, NEW row \in AccountRow,
         Exists(user, u), central' = [central EXCEPT ![u] = row],
         UNCHANGED <<staff, user, lost>>,
         \A v \in AccountId \ {u} : v \in restored' <=> v \in restored,
         row.active /\ ~row.deleted =>
           /\ Member(u) \/ u \in restored'
           /\ Authorized(u) \/ \E s \in Staff : Live(s) /\ staff[s].user = u,
         ~lost => InSync(u)'
  PROVE  AloneFacts'
BY IdleStill, CentralAlone

LEMMA LastUserAlone ==
  ASSUME IInv, AloneFacts, Sole', NEW q \in Request, req' = [req EXCEPT ![q] = Idle],
         req[q] # Idle, NEW u \in AccountId, req[q].account = u, NEW row \in AccountRow,
         Exists(user, u), row.deleted = user[u].deleted, user' = [user EXCEPT ![u] = row],
         UNCHANGED <<staff, central, lost, restored>>,
         Authorized(u) => (row.active /\ ~row.deleted) \/ u \in restored,
         ~lost => InSync(u)'
  PROVE  AloneFacts'
BY IdleStill, UserAlone

LEMMA RowUpdates ==
  ASSUME NEW row \in AccountRow, NEW a \in BOOLEAN, NEW d \in BOOLEAN
  PROVE  /\ [row EXCEPT !.active = a, !.deleted = d] \in AccountRow
         /\ [row EXCEPT !.active = a, !.deleted = d].active = a
         /\ [row EXCEPT !.active = a, !.deleted = d].deleted = d
         /\ [row EXCEPT !.active = a] \in AccountRow
         /\ [row EXCEPT !.active = a].active = a
         /\ [row EXCEPT !.active = a].deleted = row.deleted
BY DEF AccountRow

LEMMA EmailUpdates ==
  ASSUME NEW row \in AccountRow, NEW e \in Email
  PROVE  /\ [row EXCEPT !.email = e] \in AccountRow
         /\ [row EXCEPT !.email = e].active = row.active
         /\ [row EXCEPT !.email = e].deleted = row.deleted
BY DEF AccountRow

LEMMA CreateCommitAlone ==
  ASSUME IInv, AloneFacts, Sole', NEW q \in Request, CreateCommit(q)
  PROVE  AloneFacts'
<1>1. /\ req[q].op = "create" /\ req[q].step = "commit" /\ req[q] # Idle
      /\ Sound(req[q], user, central) /\ StillSo(req[q])
  BY AtStep DEF CreateCommit, At, AloneFacts
<1>2. PICK u : u = req[q].account
  OBVIOUS
<1>3. PICK row : row = NewRow(req[q].email)
  OBVIOUS
<1>4. /\ u \in AccountId /\ Exists(user, u) /\ user[u] = row /\ req[q].staff \in Staff
      /\ Live(req[q].staff) /\ staff[req[q].staff].user = u /\ req[q].email \in Email
  BY <1>1, <1>2, <1>3 DEF Sound, Holds, StillSo, StillCreating
<1>5. row \in AccountRow /\ row.active /\ ~row.deleted
  BY <1>3, <1>4 DEF NewRow, AccountRow
<1>6. Member(u)
  BY <1>4, <1>5 DEF Member
<1>7. /\ req' = [req EXCEPT ![q] = Idle] /\ central' = [central EXCEPT ![u] = row]
      /\ UNCHANGED <<staff, user, lost, restored>>
  BY <1>2, <1>3 DEF CreateCommit, Finish
<1>8. InSync(u)'
  BY <1>4, <1>7 DEF InSync, Exists, IInv, TypeOK
<1> QED BY <1>1, <1>2, <1>4, <1>5, <1>6, <1>7, <1>8, LastCentralAlone

LEMMA DeleteStaffRevokeAlone ==
  ASSUME IInv, AloneFacts, Sole', NEW q \in Request, DeleteStaffRevoke(q)
  PROVE  AloneFacts'
<1>1. /\ req[q] \in RequestRow /\ req[q].op = "delete" /\ req[q].step = "revoke" /\ req[q] # Idle
      /\ Sound(req[q], user, central) /\ StillSo(req[q]) /\ Exists(central, req[q].account)
  BY AtStep DEF DeleteStaffRevoke, At, AloneFacts
<1>2. PICK u : u = req[q].account
  OBVIOUS
<1>3. /\ u \in AccountId /\ Exists(user, u) /\ central[u] \in AccountRow
      /\ StillChanging(req[q], u)
  BY <1>1, <1>2 DEF Sound, Exists, IInv, TypeOK, NoRow, AccountsBelong, StillSo
<1>4. PICK row \in AccountRow :
        row = [central[u] EXCEPT !.active = FALSE, !.deleted = TRUE] /\ ~row.active
  BY <1>3, RowUpdates
<1>5. PICK r : r = [req[q] EXCEPT !.step = "tenant"]
  OBVIOUS
<1>6. r.op = "delete" /\ r.step = "tenant" /\ r.account = u /\ r.staff = req[q].staff
  BY <1>1, <1>2, <1>5, RequestUpdates
<1>7. /\ req' = [req EXCEPT ![q] = r] /\ central' = [central EXCEPT ![u] = row]
      /\ UNCHANGED <<staff, user, lost, restored>>
  BY <1>2, <1>4, <1>5 DEF DeleteStaffRevoke, Goto, IInv, TypeOK
<1>8. central'[u] = row
  BY <1>3, <1>7 DEF IInv, TypeOK
<1>9. Half(r) /\ ~Half(req[q])
  BY <1>1, <1>6 DEF Half, Holds
<1>10. StillSo(r)'
  <2>1. ~Authorized(u)'
    BY <1>4, <1>8 DEF Authorized
  <2>2. StillChanging(r, u)' /\ StillCreating(r)'
    BY <1>1, <1>3, <1>6, <1>7, <2>1 DEF StillChanging, StillCreating, Live
  <2>3. ASSUME ~lost, u \notin restored
        PROVE  user[u] = central[u]
    <3>1. \A p \in Request : ~Half(req[p])
      BY <1>1, <1>9 DEF AloneFacts, Sole, Half, Holds, Idle
    <3> QED BY <1>3, <2>3, <3>1 DEF AloneFacts, Synced, InSync
  <2>4. ASSUME ~lost, u \notin restored
        PROVE  Ahead(r, u)'
    BY <1>3, <1>4, <1>6, <1>7, <1>8, <2>3, <2>4 DEF Ahead, Exists
  <2> QED BY <1>6, <1>7, <2>2, <2>4 DEF StillSo
<1> QED BY <1>1, <1>2, <1>3, <1>4, <1>6, <1>7, <1>9, <1>10, CentralAlone

LEMMA DeleteStaffUndoAlone ==
  ASSUME IInv, AloneFacts, Sole', NEW q \in Request, DeleteStaffUndo(q)
  PROVE  AloneFacts'
<1>1. /\ req[q].op = "delete" /\ req[q].step = "undo" /\ req[q] # Idle
      /\ Sound(req[q], user, central) /\ StillSo(req[q])
  BY AtStep DEF DeleteStaffUndo, At, AloneFacts
<1>2. PICK u : u = req[q].account
  OBVIOUS
<1>3. /\ u \in AccountId /\ u # None /\ Exists(central, u) /\ central[u] \in AccountRow
      /\ Exists(user, u) /\ user[u] \in AccountRow
  BY <1>1, <1>2, ConstantsOK DEF Sound, Exists, IInv, TypeOK, NoRow, Gone, AccountsBelong
<1>4. /\ Live(req[q].staff) /\ staff[req[q].staff].user = u /\ req[q].staff \in Staff
      /\ ~lost /\ u \notin restored => Ahead(req[q], u)
  BY <1>1, <1>2, <1>3 DEF StillSo, StillChanging
<1>5. ~user[u].deleted
  BY <1>3, <1>4 DEF AloneFacts, Links
<1>6. PICK row \in AccountRow : row = [central[u] EXCEPT !.active = TRUE, !.deleted = FALSE]
  BY <1>3 DEF AccountRow
<1>7. /\ req' = [req EXCEPT ![q] = Idle] /\ central' = [central EXCEPT ![u] = row]
      /\ UNCHANGED <<staff, user, lost>>
      /\ restored' = IF user[u].active THEN restored ELSE restored \cup {u}
  BY <1>2, <1>3, <1>6 DEF DeleteStaffUndo, Finish, IInv, TypeOK
<1>8. central'[u] = row
  BY <1>3, <1>7 DEF IInv, TypeOK
<1>9. Member(u) \/ u \in restored'
  BY <1>3, <1>5, <1>7 DEF Member
<1>10. ASSUME ~lost
       PROVE  InSync(u)'
  <2>1. ASSUME u \notin restored'
        PROVE  row = user[u]
    <3>1. user[u].active /\ u \notin restored
      BY <1>7, <2>1
    <3>2. central[u] = [user[u] EXCEPT !.active = FALSE, !.deleted = TRUE]
      BY <1>1, <1>4, <1>10, <3>1 DEF Ahead
    <3> QED BY <1>3, <1>5, <1>6, <3>1, <3>2 DEF AccountRow
  <2> QED BY <1>3, <1>7, <1>8, <2>1 DEF InSync, Exists
<1>11. \A v \in AccountId \ {u} : v \in restored' <=> v \in restored
  BY <1>7
<1> QED BY <1>1, <1>2, <1>3, <1>4, <1>6, <1>7, <1>9, <1>10, <1>11, LastCentralAlone

LEMMA ActivatesAlone ==
  ASSUME IInv, AloneFacts, Sole', NEW q \in Request,
         ActivateUser(q) \/ ActivateCommit(q) \/ ActivateUndo(q)
  PROVE  AloneFacts'
<1>1. /\ req[q].op = "activate" /\ req[q] # Idle /\ req[q] \in RequestRow
      /\ Sound(req[q], user, central) /\ StillSo(req[q])
  BY AtStep DEF ActivateUser, ActivateCommit, ActivateUndo, At, AloneFacts
<1>2. PICK u : u = req[q].account
  OBVIOUS
<1>3. u \in AccountId /\ u # None
  BY <1>1, <1>2, ConstantsOK DEF Sound
<1>4. /\ Live(req[q].staff) /\ staff[req[q].staff].user = u /\ req[q].staff \in Staff
      /\ Authorized(u) => u \in restored
      /\ req[q].step = "user" /\ Exists(user, u) => ~user[u].active
      /\ req[q].step = "commit" => user[u].active
      /\ ~lost /\ u \notin restored => Ahead(req[q], u)
  BY <1>1, <1>2, <1>3 DEF StillSo, StillChanging
<1>5. ASSUME ActivateUser(q)
      PROVE  AloneFacts'
  <2>1. Exists(user, u) /\ user[u] \in AccountRow /\ req[q].step = "user" /\ ~user[u].active
    BY <1>2, <1>3, <1>4, <1>5 DEF ActivateUser, At, Exists, IInv, TypeOK, NoRow, Gone
  <2>2. PICK row : row = [user[u] EXCEPT !.active = TRUE]
    OBVIOUS
  <2>3. row \in AccountRow /\ row.active /\ row.deleted = user[u].deleted
    BY <2>1, <2>2, RowUpdates
  <2>4. PICK r : r = [req[q] EXCEPT !.step = "commit"]
    OBVIOUS
  <2>5. r.op = "activate" /\ r.step = "commit" /\ r.account = u /\ r.staff = req[q].staff
    BY <1>1, <1>2, <2>4, RequestUpdates
  <2>6. /\ req' = [req EXCEPT ![q] = r] /\ user' = [user EXCEPT ![u] = row]
        /\ UNCHANGED <<staff, central, lost, restored>>
    BY <1>2, <1>5, <2>2, <2>4 DEF ActivateUser, Goto, IInv, TypeOK
  <2>7. user'[u] = row
    BY <1>3, <2>6 DEF IInv, TypeOK
  <2>8. Half(r) /\ ~Half(req[q])
    BY <1>1, <2>1, <2>5 DEF Half, Holds
  <2>9. ASSUME ~lost, u \notin restored
        PROVE  Ahead(r, u)'
    <3>1. \A p \in Request : ~Half(req[p])
      BY <1>1, <2>8 DEF AloneFacts, Sole, Half, Holds, Idle
    <3>2. central[u] = user[u]
      BY <1>3, <2>1, <2>9, <3>1 DEF AloneFacts, Synced, InSync
    <3>3. [row EXCEPT !.active = FALSE] = user[u]
      BY <2>1, <2>2 DEF AccountRow
    <3> QED BY <2>1, <2>3, <2>5, <2>6, <2>7, <3>2, <3>3 DEF Ahead, Exists, AccountRow
  <2>10. StillSo(r)'
    <3>1. StillChanging(r, u)' /\ StillCreating(r)'
      BY <1>4, <2>3, <2>5, <2>6, <2>7 DEF StillChanging, StillCreating, Live, Authorized, Exists
    <3> QED BY <2>5, <2>6, <2>9, <3>1 DEF StillSo
  <2> QED BY <1>1, <1>2, <1>3, <1>4, <2>1, <2>3, <2>5, <2>6, <2>8, <2>10, UserAlone
<1>6. ASSUME ActivateCommit(q)
      PROVE  AloneFacts'
  <2>1. /\ Exists(central, u) /\ central[u] \in AccountRow /\ req[q].step = "commit"
        /\ Exists(user, u) /\ user[u] \in AccountRow
    BY <1>2, <1>3, <1>6 DEF ActivateCommit, At, Exists, IInv, TypeOK, NoRow, Gone, AccountsBelong
  <2>2. PICK row : row = [central[u] EXCEPT !.active = TRUE]
    OBVIOUS
  <2>3. row \in AccountRow /\ row.active /\ row.deleted = central[u].deleted
    BY <2>1, <2>2, RowUpdates
  <2>4. /\ req' = [req EXCEPT ![q] = Idle] /\ central' = [central EXCEPT ![u] = row]
        /\ UNCHANGED <<staff, user, lost, restored>>
    BY <1>2, <1>6, <2>2 DEF ActivateCommit, Finish, IInv, TypeOK
  <2>5. ASSUME ~lost
        PROVE  InSync(u)'
    <3>1. u \notin restored => row = user[u]
      BY <1>1, <1>4, <2>1, <2>2, <2>5 DEF Ahead, AccountRow
    <3> QED BY <1>3, <2>1, <2>4, <3>1 DEF InSync, Exists, IInv, TypeOK
  <2>6. Member(u) \/ u \in restored
    BY <1>3, <1>4, <2>1 DEF AloneFacts, Links, Member
  <2> QED BY <1>1, <1>2, <1>3, <1>4, <2>1, <2>3, <2>4, <2>5, <2>6, LastCentralAlone
<1>7. ASSUME ActivateUndo(q)
      PROVE  AloneFacts'
  <2>1. Exists(user, u) /\ user[u] \in AccountRow /\ req[q].step = "undo"
    BY <1>2, <1>3, <1>7 DEF ActivateUndo, At, Exists, IInv, TypeOK, NoRow, Gone
  <2>2. PICK row : row = [user[u] EXCEPT !.active = FALSE]
    OBVIOUS
  <2>3. row \in AccountRow /\ row.deleted = user[u].deleted
    BY <2>1, <2>2, RowUpdates
  <2>4. /\ req' = [req EXCEPT ![q] = Idle] /\ user' = [user EXCEPT ![u] = row]
        /\ UNCHANGED <<staff, central, lost, restored>>
    BY <1>2, <1>7, <2>2 DEF ActivateUndo, Finish, IInv, TypeOK
  <2>5. ASSUME ~lost
        PROVE  InSync(u)'
    <3>1. u \notin restored => row = central[u]
      BY <1>1, <1>4, <2>1, <2>2, <2>5 DEF Ahead
    <3> QED BY <1>3, <2>3, <2>4, <3>1 DEF InSync, Exists, IInv, TypeOK, AccountRow
  <2> QED BY <1>1, <1>2, <1>3, <1>4, <2>1, <2>3, <2>4, <2>5, LastUserAlone
<1> QED BY <1>5, <1>6, <1>7

LEMMA DeactivatesAlone ==
  ASSUME IInv, AloneFacts, Sole', NEW q \in Request,
         DeactivateRevoke(q) \/ DeactivateUser(q) \/ DeactivateUndo(q)
  PROVE  AloneFacts'
<1>1. /\ req[q].op = "deactivate" /\ req[q] # Idle /\ req[q] \in RequestRow
      /\ Sound(req[q], user, central) /\ StillSo(req[q])
  BY AtStep DEF DeactivateRevoke, DeactivateUser, DeactivateUndo, At, AloneFacts
<1>2. PICK u : u = req[q].account
  OBVIOUS
<1>3. u \in AccountId /\ u # None
  BY <1>1, <1>2, ConstantsOK DEF Sound
<1>4. /\ Live(req[q].staff) /\ staff[req[q].staff].user = u /\ req[q].staff \in Staff
      /\ Exists(user, u) /\ user[u].active
      /\ ~lost /\ u \notin restored => Ahead(req[q], u)
  BY <1>1, <1>2, <1>3 DEF StillSo, StillChanging
<1>5. Member(u) /\ user[u] \in AccountRow
  BY <1>3, <1>4 DEF AloneFacts, Links, Member, Exists, IInv, TypeOK, NoRow, Gone
<1>6. ASSUME DeactivateRevoke(q)
      PROVE  AloneFacts'
  <2>1. Exists(central, u) /\ central[u] \in AccountRow /\ req[q].step = "revoke"
    BY <1>2, <1>3, <1>6 DEF DeactivateRevoke, At, Exists, IInv, TypeOK, NoRow
  <2>2. PICK row : row = [central[u] EXCEPT !.active = FALSE]
    OBVIOUS
  <2>3. row \in AccountRow /\ ~row.active
    BY <2>1, <2>2, RowUpdates
  <2>4. PICK r : r = [req[q] EXCEPT !.step = "user"]
    OBVIOUS
  <2>5. r.op = "deactivate" /\ r.step = "user" /\ r.account = u /\ r.staff = req[q].staff
    BY <1>1, <1>2, <2>4, RequestUpdates
  <2>6. /\ req' = [req EXCEPT ![q] = r] /\ central' = [central EXCEPT ![u] = row]
        /\ UNCHANGED <<staff, user, lost, restored>>
    BY <1>2, <1>6, <2>2, <2>4 DEF DeactivateRevoke, Goto, IInv, TypeOK
  <2>7. central'[u] = row
    BY <1>3, <2>6 DEF IInv, TypeOK
  <2>8. Half(r) /\ ~Half(req[q])
    BY <1>1, <2>1, <2>5 DEF Half, Holds
  <2>9. ASSUME ~lost, u \notin restored
        PROVE  Ahead(r, u)'
    <3>1. \A p \in Request : ~Half(req[p])
      BY <1>1, <2>8 DEF AloneFacts, Sole, Half, Holds, Idle
    <3>2. central[u] = user[u]
      BY <1>3, <1>4, <2>9, <3>1 DEF AloneFacts, Synced, InSync
    <3> QED BY <2>2, <2>5, <2>6, <2>7, <3>2 DEF Ahead
  <2>10. StillSo(r)'
    <3>1. ~Authorized(u)'
      BY <2>3, <2>7 DEF Authorized
    <3>2. StillChanging(r, u)' /\ StillCreating(r)'
      BY <1>4, <2>5, <2>6, <3>1 DEF StillChanging, StillCreating, Live, Exists
    <3> QED BY <2>5, <2>6, <2>9, <3>2 DEF StillSo
  <2> QED BY <1>1, <1>2, <1>3, <1>4, <2>3, <2>5, <2>6, <2>8, <2>10, CentralAlone
<1>7. ASSUME DeactivateUser(q)
      PROVE  AloneFacts'
  <2>1. req[q].step = "user"
    BY <1>7 DEF DeactivateUser, At
  <2>2. PICK row : row = [user[u] EXCEPT !.active = FALSE]
    OBVIOUS
  <2>3. row \in AccountRow /\ row.deleted = user[u].deleted
    BY <1>5, <2>2, RowUpdates
  <2>4. /\ req' = [req EXCEPT ![q] = Idle] /\ user' = [user EXCEPT ![u] = row]
        /\ UNCHANGED <<staff, central, lost, restored>>
    BY <1>2, <1>7, <2>2 DEF DeactivateUser, Finish, IInv, TypeOK
  <2>5. ASSUME ~lost
        PROVE  InSync(u)'
    <3>1. u \notin restored => row = central[u]
      BY <1>1, <1>4, <2>1, <2>2, <2>5 DEF Ahead
    <3> QED BY <1>3, <2>3, <2>4, <3>1 DEF InSync, Exists, IInv, TypeOK, AccountRow
  <2>6. ~Authorized(u)
    BY <1>1, <1>2, <2>1, <1>3 DEF StillSo, StillChanging
  <2> QED BY <1>1, <1>2, <1>3, <1>4, <2>3, <2>4, <2>5, <2>6, LastUserAlone
<1>8. ASSUME DeactivateUndo(q)
      PROVE  AloneFacts'
  <2>1. Exists(central, u) /\ central[u] \in AccountRow /\ req[q].step = "undo"
    BY <1>1, <1>2, <1>3, <1>8 DEF DeactivateUndo, At, Sound, Exists, IInv, TypeOK, NoRow
  <2>2. PICK row : row = [central[u] EXCEPT !.active = TRUE]
    OBVIOUS
  <2>3. row \in AccountRow
    BY <2>1, <2>2, RowUpdates
  <2>4. /\ req' = [req EXCEPT ![q] = Idle] /\ central' = [central EXCEPT ![u] = row]
        /\ UNCHANGED <<staff, user, lost, restored>>
    BY <1>2, <1>8, <2>2 DEF DeactivateUndo, Finish, IInv, TypeOK
  <2>5. ASSUME ~lost
        PROVE  InSync(u)'
    <3>1. u \notin restored => row = user[u]
      <4>1. u \notin restored => central[u] = [user[u] EXCEPT !.active = FALSE]
        BY <1>1, <1>4, <2>1, <2>5 DEF Ahead
      <4> QED BY <1>4, <1>5, <2>2, <4>1 DEF AccountRow
    <3> QED BY <1>3, <1>4, <2>4, <3>1 DEF InSync, Exists, IInv, TypeOK
  <2> QED BY <1>1, <1>2, <1>3, <1>4, <1>5, <2>3, <2>4, <2>5, LastCentralAlone
<1> QED BY <1>6, <1>7, <1>8

LEMMA EmailsAlone ==
  ASSUME IInv, AloneFacts, Sole', NEW q \in Request,
         EmailCentral(q) \/ EmailUser(q) \/ EmailUndo(q)
  PROVE  AloneFacts'
<1>1. /\ req[q].op = "email" /\ req[q] # Idle /\ req[q] \in RequestRow
      /\ Sound(req[q], user, central) /\ StillSo(req[q])
  BY AtStep DEF EmailCentral, EmailUser, EmailUndo, At, AloneFacts
<1>2. PICK u : u = req[q].account
  OBVIOUS
<1>3. u \in AccountId /\ u # None /\ req[q].email \in Email /\ req[q].old \in Email
  BY <1>1, <1>2, ConstantsOK DEF Sound
<1>4. /\ Live(req[q].staff) /\ staff[req[q].staff].user = u /\ req[q].staff \in Staff
      /\ Exists(user, u) /\ req[q].old = user[u].email
      /\ ~lost /\ u \notin restored => Ahead(req[q], u)
  BY <1>1, <1>2, <1>3 DEF StillSo, StillChanging
<1>5. user[u] \in AccountRow
  BY <1>3, <1>4 DEF Exists, IInv, TypeOK, NoRow, Gone
<1>6. Authorized(u) => Member(u) \/ u \in restored
  BY <1>3 DEF AloneFacts, AccessIsHeld
<1>7. ASSUME EmailCentral(q)
      PROVE  AloneFacts'
  <2>1. Exists(central, u) /\ central[u] \in AccountRow /\ req[q].step = "central"
    BY <1>2, <1>3, <1>7 DEF EmailCentral, At, Exists, IInv, TypeOK, NoRow
  <2>2. PICK row : row = [central[u] EXCEPT !.email = req[q].email]
    OBVIOUS
  <2>3. row \in AccountRow /\ row.active = central[u].active /\ row.deleted = central[u].deleted
    BY <1>3, <2>1, <2>2, EmailUpdates
  <2>4. PICK r : r = [req[q] EXCEPT !.step = "user"]
    OBVIOUS
  <2>5. /\ r.op = "email" /\ r.step = "user" /\ r.account = u /\ r.staff = req[q].staff
        /\ r.email = req[q].email /\ r.old = req[q].old
    BY <1>1, <1>2, <2>4, RequestUpdates
  <2>6. /\ req' = [req EXCEPT ![q] = r] /\ central' = [central EXCEPT ![u] = row]
        /\ UNCHANGED <<staff, user, lost, restored>>
    BY <1>2, <1>7, <2>2, <2>4 DEF EmailCentral, Goto, IInv, TypeOK
  <2>7. central'[u] = row
    BY <1>3, <2>6 DEF IInv, TypeOK
  <2>8. Half(r) /\ ~Half(req[q])
    BY <1>1, <2>1, <2>5 DEF Half, Holds
  <2>9. ASSUME ~lost, u \notin restored
        PROVE  Ahead(r, u)'
    <3>1. \A p \in Request : ~Half(req[p])
      BY <1>1, <2>8 DEF AloneFacts, Sole, Half, Holds, Idle
    <3>2. central[u] = user[u]
      BY <1>3, <1>4, <2>9, <3>1 DEF AloneFacts, Synced, InSync
    <3> QED BY <2>2, <2>5, <2>6, <2>7, <3>2 DEF Ahead
  <2>10. StillSo(r)'
    <3>1. StillChanging(r, u)' /\ StillCreating(r)'
      BY <1>4, <2>5, <2>6 DEF StillChanging, StillCreating, Live, Exists
    <3> QED BY <2>5, <2>6, <2>9, <3>1 DEF StillSo
  <2>11. row.active /\ ~row.deleted => Authorized(u)
    BY <2>1, <2>3 DEF Authorized
  <2> QED BY <1>1, <1>2, <1>3, <1>4, <1>6, <2>3, <2>5, <2>6, <2>8, <2>10, <2>11, CentralAlone
<1>8. ASSUME EmailUser(q)
      PROVE  AloneFacts'
  <2>1. req[q].step = "user"
    BY <1>8 DEF EmailUser, At
  <2>2. PICK row : row = [user[u] EXCEPT !.email = req[q].email]
    OBVIOUS
  <2>3. row \in AccountRow /\ row.deleted = user[u].deleted /\ row.active = user[u].active
    BY <1>3, <1>5, <2>2, EmailUpdates
  <2>4. /\ req' = [req EXCEPT ![q] = Idle] /\ user' = [user EXCEPT ![u] = row]
        /\ UNCHANGED <<staff, central, lost, restored>>
    BY <1>2, <1>8, <2>2 DEF EmailUser, Finish, IInv, TypeOK
  <2>5. ASSUME ~lost
        PROVE  InSync(u)'
    <3>1. u \notin restored => row = central[u]
      BY <1>1, <1>4, <2>1, <2>2, <2>5 DEF Ahead
    <3> QED BY <1>3, <2>3, <2>4, <3>1 DEF InSync, Exists, IInv, TypeOK, AccountRow
  <2>6. Authorized(u) => (row.active /\ ~row.deleted) \/ u \in restored
    BY <1>6, <2>3 DEF Member
  <2> QED BY <1>1, <1>2, <1>3, <1>4, <2>3, <2>4, <2>5, <2>6, LastUserAlone
<1>9. ASSUME EmailUndo(q)
      PROVE  AloneFacts'
  <2>1. Exists(central, u) /\ central[u] \in AccountRow /\ req[q].step = "undo"
    BY <1>1, <1>2, <1>3, <1>9 DEF EmailUndo, At, Sound, Exists, IInv, TypeOK, NoRow
  <2>2. PICK row : row = [central[u] EXCEPT !.email = req[q].old]
    OBVIOUS
  <2>3. row \in AccountRow /\ row.active = central[u].active /\ row.deleted = central[u].deleted
    BY <1>3, <2>1, <2>2, EmailUpdates
  <2>4. /\ req' = [req EXCEPT ![q] = Idle] /\ central' = [central EXCEPT ![u] = row]
        /\ UNCHANGED <<staff, user, lost, restored>>
    BY <1>2, <1>9, <2>2 DEF EmailUndo, Finish, IInv, TypeOK
  <2>5. ASSUME ~lost
        PROVE  InSync(u)'
    <3>1. u \notin restored => row = user[u]
      <4>1. u \notin restored => central[u] = [user[u] EXCEPT !.email = req[q].email]
        BY <1>1, <1>4, <2>1, <2>5 DEF Ahead
      <4> QED BY <1>3, <1>4, <1>5, <2>2, <4>1 DEF AccountRow
    <3> QED BY <1>3, <1>4, <2>4, <3>1 DEF InSync, Exists, IInv, TypeOK
  <2>6. row.active /\ ~row.deleted => Authorized(u)
    BY <2>1, <2>3 DEF Authorized
  <2> QED BY <1>1, <1>2, <1>3, <1>4, <1>6, <2>3, <2>4, <2>5, <2>6, LastCentralAlone
<1> QED BY <1>7, <1>8, <1>9

LEMMA CreateStaffAlone ==
  ASSUME IInv, AloneFacts, NEW s \in Staff, CreateStaff(s), \A q \in Request : req[q] = Idle
  PROVE  AloneFacts'
<1>1. /\ UNCHANGED <<user, central, req, lost, restored>> /\ staff[s].row = "NONE"
      /\ \A t \in Staff : staff'[t].user = staff[t].user /\ (t # s => staff'[t] = staff[t])
      /\ staff[s].user = None
  BY DEF CreateStaff, Slot, IInv, TypeOK, StaffRow, AloneFacts, Links
<1>2. Sole'
  BY <1>1 DEF AloneFacts, Sole
<1>3. \A q \in Request : StillSo(req[q])'
  BY <1>1, IdleStill
<1>4. staff'[s].user = None /\ staff'[s].row = "LIVE"
  BY <1>1 DEF CreateStaff, IInv, TypeOK, StaffRow
<1>5. Links'
  BY <1>1, <1>4 DEF AloneFacts, Links, Live, Exists
<1>6. AccessIsHeld'
  BY <1>1, ConstantsOK DEF AloneFacts, AccessIsHeld, Live, Exists, Authorized, Member
<1>7. Synced'
  BY <1>1 DEF AloneFacts, Synced, InSync, Exists
<1> QED BY <1>2, <1>3, <1>5, <1>6, <1>7 DEF AloneFacts

LEMMA CreateStaffWithAccountAlone ==
  ASSUME IInv, AloneFacts, Sole', NEW q \in Request, NEW s \in Staff, NEW u \in AccountId,
         NEW e \in Email, CreateStaffWithAccount(q, s, u, e)
  PROVE  AloneFacts'
<1>1. PICK r : r = [op |-> "create", step |-> "commit", staff |-> s, account |-> u,
                    email |-> e, old |-> None]
  OBVIOUS
<1>2. /\ req' = [req EXCEPT ![q] = r] /\ r # Idle /\ Fresh(u)
      /\ UNCHANGED <<central, lost, restored>>
  BY <1>1 DEF CreateStaffWithAccount, Begin, Idle
<1>3. /\ user'[u] = NewRow(e) /\ \A v \in AccountId \ {u} : user'[v] = user[v]
      /\ staff'[s] = [row |-> "LIVE", user |-> u]
      /\ \A t \in Staff \ {s} : staff'[t] = staff[t]
  BY DEF CreateStaffWithAccount, IInv, TypeOK
<1>4. \A t \in Staff : staff[t].user # u
  BY <1>2, ConstantsOK DEF AloneFacts, Links, Fresh
<1>5. StillSo(r)' /\ Half(r) /\ r.account = u
  BY <1>1, <1>3 DEF StillSo, StillCreating, StillChanging, Ahead, Half, Holds, Live
<1>6. \A p \in Request : (p # q => req[p] = Idle /\ req'[p] = Idle) /\ StillSo(req[p])'
  BY <1>2, <1>5, OthersIdle
<1>7. NewRow(e) # NoRow /\ ~NewRow(e).deleted
  BY DEF NewRow, NoRow
<1>8. Links'
  <2> SUFFICES ASSUME NEW x \in Staff
               PROVE  /\ staff'[x].row = "NONE" => staff'[x].user = None
                      /\ staff'[x].user # None =>
                           /\ user'[staff'[x].user] # NoRow
                           /\ \A t \in Staff : staff'[t].user = staff'[x].user => t = x
                           /\ Live(x)' /\ Exists(user', staff'[x].user) =>
                                ~user'[staff'[x].user].deleted
    BY DEF Links
  <2>1. CASE x = s
    BY <1>3, <1>4, <1>7, <2>1
  <2>2. CASE x # s
    <3>1. staff'[x] = staff[x] /\ staff[x].user \in (AccountId \cup {None}) \ {u}
      BY <1>3, <1>4, <2>2 DEF IInv, TypeOK, StaffRow
    <3>2. staff[x].user # None => user'[staff[x].user] = user[staff[x].user]
      BY <1>3, <3>1
    <3> QED BY <1>3, <2>2, <3>1, <3>2 DEF AloneFacts, Links, Live, Exists
  <2> QED BY <2>1, <2>2
<1>9. AccessIsHeld'
  <2>1. ~Authorized(u)
    BY <1>2 DEF Fresh, Authorized, Exists, NoRow
  <2>2. staff[s].user = None
    BY DEF CreateStaffWithAccount, AloneFacts, Links
  <2>3. ASSUME NEW v \in AccountId, Authorized(v)'
        PROVE  /\ Member(v)' \/ v \in restored'
               /\ \E t \in Staff : Live(t)' /\ staff'[t].user = v
    <3>1. Authorized(v) /\ v # u
      BY <1>2, <2>1, <2>3 DEF Authorized, Exists
    <3>2. PICK t \in Staff : Live(t) /\ staff[t].user = v
      BY <3>1 DEF AloneFacts, AccessIsHeld
    <3>3. t # s
      BY <2>2, <3>2, ConstantsOK
    <3> QED BY <1>2, <1>3, <3>1, <3>2, <3>3 DEF AloneFacts, AccessIsHeld, Live, Member, Exists
  <2> QED BY <2>3 DEF AccessIsHeld
<1>10. Synced'
  <2>1. req'[q] = r
    BY <1>2 DEF IInv, TypeOK
  <2>2. \A p \in Request : ~Half(req[p])
    BY <1>6 DEF CreateStaffWithAccount, Begin, Half, Holds, Idle
  <2> QED BY <1>2, <1>3, <1>5, <2>1, <2>2 DEF AloneFacts, Synced, InSync, Exists
<1> QED BY <1>6, <1>8, <1>9, <1>10 DEF AloneFacts

LEMMA CreateAccountUserAlone ==
  ASSUME IInv, AloneFacts, Sole', NEW q \in Request, NEW u \in AccountId, CreateAccountUser(q, u)
  PROVE  AloneFacts'
<1>1. /\ req[q] \in RequestRow /\ req[q].op = "create" /\ req[q].step = "user" /\ req[q] # Idle
      /\ Sound(req[q], user, central) /\ StillSo(req[q])
  BY AtStep DEF CreateAccountUser, At, AloneFacts
<1>2. PICK r : r = [req[q] EXCEPT !.step = "link", !.account = u]
  OBVIOUS
<1>3. /\ r.op = "create" /\ r.step = "link" /\ r.account = u
      /\ r.staff = req[q].staff /\ r.email = req[q].email
  BY <1>1, <1>2 DEF RequestRow
<1>4. /\ req' = [req EXCEPT ![q] = r] /\ Fresh(u)
      /\ UNCHANGED <<staff, central, lost, restored>>
  BY <1>2 DEF CreateAccountUser, IInv, TypeOK
<1>5. /\ user'[u] = NewRow(r.email) /\ ~user'[u].deleted /\ user'[u] # NoRow
      /\ \A v \in AccountId \ {u} : user'[v] = user[v]
  BY <1>3 DEF CreateAccountUser, IInv, TypeOK, NewRow, NoRow
<1>6. \A t \in Staff : staff[t].user # u
  BY <1>4, ConstantsOK DEF AloneFacts, Links, Fresh
<1>7. ~Half(req[q]) /\ Half(r)
  BY <1>1, <1>3 DEF Half, Holds
<1>8. StillSo(r)'
  BY <1>1, <1>3, <1>4, <1>5, <1>6 DEF StillSo, StillCreating, StillChanging, Ahead, Live
<1>9. ~Authorized(u)'
  BY <1>4 DEF Fresh, Authorized, Exists, NoRow
<1> QED BY <1>1, <1>3, <1>4, <1>5, <1>7, <1>8, <1>9, AccountAlone

LEMMA CreateAccountLinkAlone ==
  ASSUME IInv, AloneFacts, Sole', NEW q \in Request, CreateAccountLink(q)
  PROVE  AloneFacts'
<1>1. /\ req[q] \in RequestRow /\ req[q].op = "create" /\ req[q].step = "link" /\ req[q] # Idle
      /\ Sound(req[q], user, central) /\ StillSo(req[q])
  BY AtStep DEF CreateAccountLink, At, AloneFacts
<1>2. PICK u, s : u = req[q].account /\ s = req[q].staff
  OBVIOUS
<1>3. PICK r : r = [req[q] EXCEPT !.step = "check"]
  OBVIOUS
<1>4. /\ r.op = "create" /\ r.step = "check" /\ r.account = u
      /\ r.staff = s /\ r.email = req[q].email
  BY <1>1, <1>2, <1>3, RequestUpdates
<1>5. /\ u \in AccountId /\ s \in Staff /\ Live(s) /\ staff[s].user = None
      /\ user[u] = NewRow(r.email) /\ \A t \in Staff : staff[t].user # u
  BY <1>1, <1>2, <1>4 DEF Sound, Holds, StillSo, StillCreating
<1>6. /\ req' = [req EXCEPT ![q] = r] /\ UNCHANGED <<user, central, lost, restored>>
      /\ staff' = [staff EXCEPT ![s].user = u]
  BY <1>2, <1>3 DEF CreateAccountLink, Goto, IInv, TypeOK
<1>7. /\ staff'[s].user = u /\ staff'[s].row = "LIVE"
      /\ \A t \in Staff \ {s} : staff'[t] = staff[t]
  BY <1>5, <1>6 DEF Live, IInv, TypeOK, StaffRow
<1>8. StillSo(r)' /\ Half(r) /\ Half(req[q])
  BY <1>1, <1>4, <1>5, <1>6, <1>7 DEF StillSo, StillCreating, StillChanging, Ahead, Half, Holds, Live
<1>9. \A p \in Request : (p # q => req[p] = Idle /\ req'[p] = Idle) /\ StillSo(req[p])'
  BY <1>1, <1>6, <1>8, OthersIdle
<1>10. user[u] # NoRow /\ ~user[u].deleted
  BY <1>5 DEF NewRow, NoRow
<1>11. Links'
  <2> SUFFICES ASSUME NEW x \in Staff
               PROVE  /\ staff'[x].row = "NONE" => staff'[x].user = None
                      /\ staff'[x].user # None =>
                           /\ user[staff'[x].user] # NoRow
                           /\ \A t \in Staff : staff'[t].user = staff'[x].user => t = x
                           /\ Live(x)' /\ Exists(user, staff'[x].user) =>
                                ~user[staff'[x].user].deleted
    BY <1>6 DEF Links, Exists
  <2>1. CASE x = s
    BY <1>5, <1>7, <1>10, <2>1
  <2>2. CASE x # s
    BY <1>5, <1>7, <2>2 DEF AloneFacts, Links, Live
  <2> QED BY <2>1, <2>2
<1>12. AccessIsHeld'
  <2>1. ASSUME NEW v \in AccountId, Authorized(v)'
        PROVE  /\ Member(v)' \/ v \in restored'
               /\ \E t \in Staff : Live(t)' /\ staff'[t].user = v
    <3>1. Authorized(v)
      BY <1>6, <2>1 DEF Authorized, Exists
    <3>2. PICK t \in Staff : Live(t) /\ staff[t].user = v
      BY <3>1 DEF AloneFacts, AccessIsHeld
    <3>3. t # s
      BY <1>5, <3>2, ConstantsOK
    <3> QED BY <1>6, <1>7, <3>1, <3>2, <3>3 DEF AloneFacts, AccessIsHeld, Live, Member, Exists
  <2> QED BY <2>1 DEF AccessIsHeld
<1>13. Synced'
  <2>1. req'[q] = r
    BY <1>6 DEF IInv, TypeOK
  <2>2. \A p \in Request : Half(req[p]) => p = q
    BY <1>9 DEF Half, Holds, Idle
  <2> QED BY <1>2, <1>4, <1>6, <1>8, <2>1, <2>2 DEF AloneFacts, Synced, InSync, Exists
<1> QED BY <1>9, <1>11, <1>12, <1>13 DEF AloneFacts

LEMMA CreateAccountCheckAlone ==
  ASSUME IInv, AloneFacts, Sole', NEW q \in Request, CreateAccountCheck(q)
  PROVE  AloneFacts'
<1>1. /\ req[q] \in RequestRow /\ req[q].op = "create" /\ req[q].step = "check" /\ req[q] # Idle
      /\ StillSo(req[q])
  BY AtStep DEF CreateAccountCheck, At, AloneFacts
<1>2. PICK r : r = [req[q] EXCEPT !.step = "commit"]
  OBVIOUS
<1>3. /\ r.op = "create" /\ r.step = "commit" /\ r.account = req[q].account
      /\ r.staff = req[q].staff /\ r.email = req[q].email
  BY <1>1, <1>2, RequestUpdates
<1>4. Live(req[q].staff)
  BY <1>1 DEF StillSo, StillCreating
<1>5. req' = [req EXCEPT ![q] = r] /\ UNCHANGED <<staff, user, central, lost, restored>>
  BY <1>2, <1>4 DEF CreateAccountCheck, Goto, IInv, TypeOK
<1>6. StillSo(r)' /\ Half(r) /\ Half(req[q])
  BY <1>1, <1>3, <1>5 DEF StillSo, StillCreating, StillChanging, Ahead, Half, Holds, Live
<1>7. \A p \in Request : (p # q => req[p] = Idle /\ req'[p] = Idle) /\ StillSo(req[p])'
  BY <1>1, <1>5, <1>6, OthersIdle
<1>8. Links' /\ AccessIsHeld'
  BY <1>5 DEF AloneFacts, Links, AccessIsHeld, Live, Exists, Authorized, Member
<1>9. Synced'
  <2>1. req'[q] = r
    BY <1>5 DEF IInv, TypeOK
  <2>2. \A p \in Request : Half(req[p]) => p = q
    BY <1>7 DEF Half, Holds, Idle
  <2> QED BY <1>3, <1>5, <1>6, <2>1, <2>2 DEF AloneFacts, Synced, InSync, Exists
<1> QED BY <1>7, <1>8, <1>9 DEF AloneFacts

LEMMA CreateUndoAlone ==
  ASSUME IInv, AloneFacts, Sole', NEW q \in Request, CreateUndo(q)
  PROVE  AloneFacts'
<1>1. /\ req[q].op = "create" /\ req[q].step = "undo" /\ req[q] # Idle
      /\ Sound(req[q], user, central)
  BY AtStep DEF CreateUndo, At
<1>2. PICK u : u = req[q].account
  OBVIOUS
<1>3. u \in AccountId /\ ~Exists(central, u)
  BY <1>1, <1>2 DEF Sound, Holds
<1>4. /\ req' = [req EXCEPT ![q] = Idle] /\ UNCHANGED <<central, lost, restored>>
      /\ user' = [user EXCEPT ![u] = Gone]
      /\ \A t \in Staff :
           staff'[t] = IF staff[t].user = u THEN [staff[t] EXCEPT !.user = None] ELSE staff[t]
  BY <1>2 DEF CreateUndo, Finish
<1>5. /\ user'[u] = Gone /\ \A v \in AccountId \ {u} : user'[v] = user[v]
      /\ \A t \in Staff : /\ staff'[t].row = staff[t].row
                          /\ staff'[t].user = IF staff[t].user = u THEN None ELSE staff[t].user
  BY <1>3, <1>4 DEF IInv, TypeOK, StaffRow
<1>6. \A p \in Request : (p # q => req[p] = Idle /\ req'[p] = Idle) /\ StillSo(req[p])'
  BY <1>1, <1>4, IdleStill, OthersIdle
<1>7. Links'
  <2> SUFFICES ASSUME NEW x \in Staff
               PROVE  /\ staff'[x].row = "NONE" => staff'[x].user = None
                      /\ staff'[x].user # None =>
                           /\ user'[staff'[x].user] # NoRow
                           /\ \A t \in Staff : staff'[t].user = staff'[x].user => t = x
                           /\ Live(x)' /\ Exists(user', staff'[x].user) =>
                                ~user'[staff'[x].user].deleted
    BY DEF Links
  <2>1. CASE staff[x].user = u
    BY <1>5, <2>1
  <2>2. CASE staff[x].user # u
    <3>1. staff'[x].user = staff[x].user /\ staff[x].user \in AccountId \cup {None}
      BY <1>5, <2>2 DEF IInv, TypeOK, StaffRow
    <3>2. staff[x].user # None => user'[staff[x].user] = user[staff[x].user]
      BY <1>5, <2>2, <3>1
    <3> QED BY <1>5, <3>1, <3>2 DEF AloneFacts, Links, Live, Exists
  <2> QED BY <2>1, <2>2
<1>8. AccessIsHeld'
  <2>1. ASSUME NEW v \in AccountId, Authorized(v)'
        PROVE  /\ Member(v)' \/ v \in restored'
               /\ \E t \in Staff : Live(t)' /\ staff'[t].user = v
    <3>1. Authorized(v) /\ v # u
      BY <1>3, <1>4, <2>1 DEF Authorized, Exists
    <3>2. PICK t \in Staff : Live(t) /\ staff[t].user = v
      BY <3>1 DEF AloneFacts, AccessIsHeld
    <3> QED BY <1>4, <1>5, <3>1, <3>2 DEF AloneFacts, AccessIsHeld, Live, Member, Exists
  <2> QED BY <2>1 DEF AccessIsHeld
<1>9. Synced'
  <2>1. InSync(u)'
    BY <1>3, <1>4, <1>5 DEF InSync, Exists, Gone
  <2>2. \A p \in Request : Half(req[p]) => req[p].account = u
    BY <1>2, <1>6 DEF Half, Holds, Idle
  <2> QED BY <1>4, <1>5, <2>1, <2>2 DEF AloneFacts, Synced, InSync, Exists
<1> QED BY <1>6, <1>7, <1>8, <1>9 DEF AloneFacts

LEMMA DeleteStaffTenantAlone ==
  ASSUME IInv, AloneFacts, Sole', NEW q \in Request, DeleteStaffTenant(q)
  PROVE  AloneFacts'
<1>1. /\ req[q] \in RequestRow /\ req[q].op = "delete" /\ req[q].step = "tenant" /\ req[q] # Idle
      /\ Sound(req[q], user, central) /\ StillSo(req[q])
  BY AtStep DEF DeleteStaffTenant, At, AloneFacts
<1>2. PICK u, s : u = req[q].account /\ s = req[q].staff
  OBVIOUS
<1>3. /\ u \in AccountId \cup {None} /\ s \in Staff /\ Live(s) /\ staff[s].user = u
      /\ u # None => ~Authorized(u)
      /\ ~lost /\ u # None /\ u \notin restored => Ahead(req[q], u)
  BY <1>1, <1>2 DEF RequestRow, StillSo, StillChanging
<1>4. /\ req' = [req EXCEPT ![q] = Idle] /\ UNCHANGED <<central, lost, restored>>
      /\ staff' = [staff EXCEPT ![s].row = "DELETED"]
      /\ u # None => Exists(user, u)
      /\ user' = IF u = None THEN user
                 ELSE [user EXCEPT ![u] = [@ EXCEPT !.active = FALSE, !.deleted = TRUE]]
  BY <1>2 DEF DeleteStaffTenant, Finish
<1>5. /\ staff'[s].row = "DELETED" /\ \A t \in Staff \ {s} : staff'[t] = staff[t]
      /\ \A t \in Staff : staff'[t].user = staff[t].user
  BY <1>3, <1>4 DEF IInv, TypeOK, StaffRow
<1>6. /\ \A v \in AccountId \ {u} : user'[v] = user[v]
      /\ u # None => /\ user'[u] = [user[u] EXCEPT !.active = FALSE, !.deleted = TRUE]
                     /\ user'[u] \in AccountRow
  <2>1. u # None => user[u] \in AccountRow
    BY <1>3, <1>4 DEF Exists, IInv, TypeOK, NoRow, Gone
  <2>2. u # None => [user[u] EXCEPT !.active = FALSE, !.deleted = TRUE] \in AccountRow
    BY <2>1, RowUpdates
  <2> QED BY <1>3, <1>4, <2>2 DEF IInv, TypeOK
<1>7. \A p \in Request : (p # q => req[p] = Idle /\ req'[p] = Idle) /\ StillSo(req[p])'
  BY <1>1, <1>4, IdleStill, OthersIdle
<1>8. Links'
  <2> SUFFICES ASSUME NEW x \in Staff
               PROVE  /\ staff'[x].row = "NONE" => staff'[x].user = None
                      /\ staff'[x].user # None =>
                           /\ user'[staff'[x].user] # NoRow
                           /\ \A t \in Staff : staff'[t].user = staff'[x].user => t = x
                           /\ Live(x)' /\ Exists(user', staff'[x].user) =>
                                ~user'[staff'[x].user].deleted
    BY DEF Links
  <2>1. CASE x = s
    <3>1. u # None => user'[u] # NoRow
      BY <1>6 DEF AccountRow, NoRow
    <3> QED BY <1>3, <1>5, <2>1, <3>1 DEF AloneFacts, Links, Live
  <2>2. CASE x # s
    <3>1. staff'[x] = staff[x] /\ staff[x].user \in AccountId \cup {None}
      BY <1>5, <2>2 DEF IInv, TypeOK, StaffRow
    <3>2. staff[x].user # None => staff[x].user # u
      BY <1>3, <2>2 DEF AloneFacts, Links
    <3>3. staff[x].user # None => user'[staff[x].user] = user[staff[x].user]
      BY <1>6, <3>1, <3>2
    <3> QED BY <1>5, <3>1, <3>3 DEF AloneFacts, Links, Live, Exists
  <2> QED BY <2>1, <2>2
<1>9. AccessIsHeld'
  <2>1. ASSUME NEW v \in AccountId, Authorized(v)'
        PROVE  /\ Member(v)' \/ v \in restored'
               /\ \E t \in Staff : Live(t)' /\ staff'[t].user = v
    <3>1. Authorized(v) /\ v # u
      BY <1>3, <1>4, <2>1, ConstantsOK DEF Authorized, Exists
    <3>2. PICK t \in Staff : Live(t) /\ staff[t].user = v
      BY <3>1 DEF AloneFacts, AccessIsHeld
    <3>3. t # s
      BY <1>3, <3>1, <3>2
    <3> QED BY <1>4, <1>5, <1>6, <3>1, <3>2, <3>3 DEF AloneFacts, AccessIsHeld, Live, Member, Exists
  <2> QED BY <2>1 DEF AccessIsHeld
<1>10. Synced'
  <2>1. ASSUME ~lost, u # None
        PROVE  InSync(u)'
    <3>1. u \notin restored => central[u] = user'[u]
      BY <1>1, <1>3, <1>6, <2>1 DEF Ahead
    <3> QED BY <1>4, <1>6, <2>1, <3>1 DEF InSync, Exists, AccountRow
  <2>2. \A p \in Request : Half(req[p]) => req[p].account = u
    BY <1>2, <1>7 DEF Half, Holds, Idle
  <2> QED BY <1>4, <1>6, <2>1, <2>2, ConstantsOK DEF AloneFacts, Synced, InSync, Exists
<1> QED BY <1>7, <1>8, <1>9, <1>10 DEF AloneFacts

LEMMA NextAlone ==
  ASSUME IInv, AloneFacts, Sole', req' # req \/ \A q \in Request : req[q] = Idle, Next
  PROVE  AloneFacts'
<1>1. ASSUME NEW s \in Staff, CreateStaff(s)
      PROVE  AloneFacts'
  BY <1>1, CreateStaffAlone DEF CreateStaff, Slot
<1>2. ASSUME NEW q \in Request, NEW s \in Staff, NEW u \in AccountId, NEW e \in Email,
             CreateStaffWithAccount(q, s, u, e)
      PROVE  AloneFacts'
  BY <1>2, CreateStaffWithAccountAlone
<1>3. ASSUME NEW q \in Request, NEW u \in AccountId, CreateAccountUser(q, u)
      PROVE  AloneFacts'
  BY <1>3, CreateAccountUserAlone
<1>4. ASSUME NEW q \in Request,
             CreateAccountLink(q) \/ CreateAccountCheck(q) \/ CreateCommit(q) \/ CreateUndo(q)
      PROVE  AloneFacts'
  BY <1>4, CreateAccountLinkAlone, CreateAccountCheckAlone, CreateCommitAlone, CreateUndoAlone
<1>5. ASSUME NEW q \in Request, DeleteStaffRevoke(q) \/ DeleteStaffTenant(q) \/ DeleteStaffUndo(q)
      PROVE  AloneFacts'
  BY <1>5, DeleteStaffRevokeAlone, DeleteStaffTenantAlone, DeleteStaffUndoAlone
<1>6. ASSUME NEW q \in Request, NEW s \in Staff,
             \/ \E e \in Email : CreateAccountRead(q, s, e) \/ EmailRead(q, s, e)
             \/ DeleteStaffRead(q, s) \/ ActivateRead(q, s) \/ DeactivateRead(q, s)
      PROVE  AloneFacts'
  BY <1>6, ReadsAlone
<1>7. ASSUME NEW q \in Request, ActivateUser(q) \/ ActivateCommit(q) \/ ActivateUndo(q)
      PROVE  AloneFacts'
  BY <1>7, ActivatesAlone
<1>8. ASSUME NEW q \in Request, DeactivateRevoke(q) \/ DeactivateUser(q) \/ DeactivateUndo(q)
      PROVE  AloneFacts'
  BY <1>8, DeactivatesAlone
<1>9. ASSUME NEW q \in Request, EmailCentral(q) \/ EmailUser(q) \/ EmailUndo(q)
      PROVE  AloneFacts'
  BY <1>9, EmailsAlone
<1>10. ASSUME NEW q \in Request, Fail(q) \/ Cut(q)
       PROVE  AloneFacts'
  BY <1>10, FailuresAlone
<1> QED BY <1>1, <1>2, <1>3, <1>4, <1>5, <1>6, <1>7, <1>8, <1>9, <1>10 DEF Next

Alone == alone => AloneFacts

LEMMA AlonesHold == MCSpec => []Alone
<1>1. MCSpec => []IInv
  <2>1. MCInit => Init
    BY DEF MCInit
  <2>2. [MCNext]_mcvars => [Next]_vars
    BY DEF MCNext, mcvars, vars
  <2> QED BY <2>1, <2>2, Always, PTL DEF MCSpec, Spec
<1>2. MCInit => Alone
  <2> SUFFICES ASSUME Init PROVE AloneFacts
    BY DEF MCInit, Alone
  <2>1. Sole /\ Links
    BY DEF Init, Sole, Links
  <2>2. AccessIsHeld /\ Synced
    BY DEF Init, AccessIsHeld, Synced, InSync, Authorized, Exists, NoRow
  <2>3. \A q \in Request : StillSo(req[q])
    BY DEF Init, StillSo, StillCreating, StillChanging, Ahead, Idle
  <2> QED BY <2>1, <2>2, <2>3 DEF AloneFacts
<1>3. Alone /\ IInv /\ IInv' /\ [MCNext]_mcvars => Alone'
  <2> SUFFICES ASSUME Alone, IInv, IInv', [MCNext]_mcvars, alone'
               PROVE  AloneFacts'
    BY DEF Alone
  <2>1. CASE MCNext
    <3>1. DOMAIN req' = Request
      BY DEF IInv, TypeOK
    <3>2. alone /\ Sole' /\ (req' # req \/ \A q \in Request : req[q] = Idle)
      BY <2>1, <3>1, StepsAlone
    <3> QED BY <2>1, <3>2, NextAlone DEF Alone, MCNext
  <2>2. CASE UNCHANGED mcvars
    <3>1. AloneFacts /\ UNCHANGED vars
      BY <2>2 DEF mcvars, vars, Alone
    <3>2. Sole' /\ Links' /\ AccessIsHeld'
      BY <3>1 DEF vars, AloneFacts, Sole, Links, AccessIsHeld, Live, Exists, Authorized, Member
    <3>3. Synced'
      BY <3>1 DEF vars, AloneFacts, Synced, InSync, Exists
    <3>4. \A q \in Request : StillSo(req[q])'
      <4> SUFFICES ASSUME NEW q \in Request
                   PROVE  StillSo(req[q])'
        OBVIOUS
      <4> QED BY <3>1 DEF vars, AloneFacts, StillSo, StillCreating, StillChanging, Ahead, Live,
            Exists, Authorized
    <3> QED BY <3>2, <3>3, <3>4 DEF AloneFacts
  <2> QED BY <2>1, <2>2
<1> QED BY <1>1, <1>2, <1>3, PTL DEF MCSpec

\* One request at a time, whoever is let in is a member of the tenant with a staff record,
\* whatever fails and wherever the server dies (deleteStaff, setAccountStatus).
THEOREM AccessHeld == MCSpec => []AccessIsHeldAlone
<1>1. Alone => AccessIsHeldAlone
  BY DEF Alone, AloneFacts, AccessIsHeldAlone
<1> QED BY <1>1, AlonesHold, PTL

\* One request at a time, where every catch block did its work, both databases have the
\* same accounts with the same address and status.
THEOREM FailuresAreUndone == MCSpec => []FailuresUndoneAlone
<1>1. Alone => FailuresUndoneAlone
  <2> SUFFICES ASSUME AloneFacts, ~lost, \A q \in Request : req[q] = Idle, NEW u \in AccountId \ restored
               PROVE  IF Exists(user, u) THEN central[u] = user[u] ELSE ~Exists(central, u)
    BY DEF Alone, FailuresUndoneAlone, FailuresUndone
  <2>1. \A q \in Request : ~Half(req[q])
    BY DEF Half, Holds, Idle
  <2> QED BY <2>1 DEF AloneFacts, Synced, InSync
<1> QED BY <1>1, AlonesHold, PTL
-----------------------------------------------------------------------------
(* Subscriptions and billing.                                              *)

\* What a request read still holds when it commits: its invoice exists, the renewal it
\* creates and the terms it sets have a period, and the company it resumes has one.
BillingSound(r) ==
  /\ r.op \in {"pay", "extend"} => r.id \in DOMAIN invoice
  /\ r.op = "renew" => r.row.end # 0
  /\ r.op = "configure" => r.term # 0
  /\ r.op = "resume" => company[r.company].expires # 0

RequestsSound == \A p \in Process : BillingSound(call[p])

EndsSet == \A i \in DOMAIN invoice : invoice[i].end # 0

BillingIInv == BillingTypeOK /\ PeriodPaid /\ RequestsSound /\ EndsSet

\* An invoice keeps its company and its period, and a payment is not forgotten.
InvoicesKept ==
  \A i \in DOMAIN invoice :
    /\ i \in DOMAIN invoice'
    /\ invoice'[i].company = invoice[i].company /\ invoice'[i].end = invoice[i].end
    /\ invoice[i].paid => invoice'[i].paid

\* The row a company gets in a step: the old period or one of a paid invoice.
RowSound(c, row) ==
  /\ row.access => row.status = "ACTIVE" /\ row.expires # 0
  /\ company[c].expires # 0 => row.expires # 0
  /\ \/ row.expires = company[c].expires
     \/ \E i \in DOMAIN invoice' : /\ invoice'[i].company = c /\ invoice'[i].paid
                                   /\ invoice'[i].end = row.expires

-----------------------------------------------------------------------------

LEMMA Shapes ==
  ASSUME NEW r \in CallRow
  PROVE  /\ r.op = "pay" => r \in [op : {"pay"}, id : Nat \ {0}]
         /\ r.op = "extend" =>
              r \in [op : {"extend"}, id : Nat \ {0}, later : BOOLEAN, seen : InvoiceStatus]
         /\ r.op = "configure" =>
              r \in [op : {"configure"}, company : Company, hadAccess : BOOLEAN, at : Nat,
                     term : Nat, amount : Nat, auto : BOOLEAN]
         /\ r.op \in {"suspend", "cancel", "resume"} =>
              r \in [op : {"suspend", "cancel", "resume"}, company : Company]
         /\ r.op = "renew" => r \in [op : {"renew"}, company : Company, row : InvoiceRow]
  BY DEF CallRow, NoCall

LEMMA BillingIdleSound == NoCall \in CallRow /\ BillingSound(NoCall)
  BY DEF NoCall, CallRow, BillingSound

\* Every step changes at most one request; the others stay sound as long as no invoice and no
\* period disappears.
LEMMA Others ==
  ASSUME BillingIInv, InvoicesKept, NEW p \in Process, NEW r \in CallRow,
         call' = [call EXCEPT ![p] = r],
         \A c \in Company : company[c].expires # 0 => company'[c].expires # 0,
         /\ r.op \in {"pay", "extend"} => r.id \in DOMAIN invoice'
         /\ r.op = "renew" => r.row.end # 0
         /\ r.op = "configure" => r.term # 0
         /\ r.op = "resume" => company'[r.company].expires # 0
  PROVE  call' \in [Process -> CallRow] /\ RequestsSound'
<1>1. call \in [Process -> CallRow]
  BY DEF BillingIInv, BillingTypeOK
<1>2. call' \in [Process -> CallRow]
  BY <1>1
<1>3. ASSUME NEW x \in Process
      PROVE  BillingSound(call[x])'
  <2>1. CASE x = p
    BY <2>1, <1>1 DEF BillingSound
  <2>2. CASE x # p
    <3>1. call'[x] = call[x] /\ call[x] \in CallRow
      BY <2>2, <1>1
    <3>2. BillingSound(call[x])
      BY DEF BillingIInv, RequestsSound
    <3>3. call[x].op = "resume" => call[x].company \in Company
      BY <3>1, Shapes
    <3> QED BY <3>1, <3>2, <3>3 DEF BillingSound, InvoicesKept
  <2> QED BY <2>1, <2>2
<1> QED BY <1>2, <1>3 DEF RequestsSound

\* Steps that leave companies and invoices alone.
LEMMA BillingRequestStep ==
  ASSUME BillingIInv, NEW p \in Process, NEW r \in CallRow, call' = [call EXCEPT ![p] = r], BillingSound(r),
         UNCHANGED <<company, invoice>>, now' \in Nat, job' \in JobState
  PROVE  BillingIInv'
<1>1. InvoicesKept
  BY DEF InvoicesKept
<1>2. call' \in [Process -> CallRow] /\ RequestsSound'
  BY <1>1, Others DEF BillingSound
<1>3. BillingTypeOK' /\ PeriodPaid' /\ EndsSet'
  BY <1>2 DEF BillingIInv, BillingTypeOK, PeriodPaid, EndsSet
<1> QED BY <1>2, <1>3 DEF BillingIInv

\* Steps that change one company and one request, and may create or change invoices.
LEMMA CompanyStep ==
  ASSUME BillingIInv, InvoicesKept, NEW c \in Company, NEW row \in CompanyRow,
         company' = [company EXCEPT ![c] = row], RowSound(c, row),
         invoice' \in Seq(InvoiceRow), EndsSet', UNCHANGED <<now, job>>,
         call' \in [Process -> CallRow], RequestsSound'
  PROVE  BillingIInv'
<1>1. company \in [Company -> CompanyRow]
  BY DEF BillingIInv, BillingTypeOK
<1>2. BillingTypeOK'
  BY <1>1 DEF BillingIInv, BillingTypeOK
<1>3. ASSUME NEW d \in Company
      PROVE  (/\ company[d].access => company[d].status = "ACTIVE" /\ company[d].expires # 0
              /\ company[d].expires # 0 =>
                   \E i \in DOMAIN invoice :
                     /\ invoice[i].company = d /\ invoice[i].paid
                     /\ invoice[i].end = company[d].expires)'
  <2>1. /\ company[d].access => company[d].status = "ACTIVE" /\ company[d].expires # 0
        /\ company[d].expires # 0 =>
             \E i \in DOMAIN invoice' :
               /\ invoice'[i].company = d /\ invoice'[i].paid
               /\ invoice'[i].end = company[d].expires
    BY DEF BillingIInv, PeriodPaid, InvoicesKept
  <2>2. CASE d = c
    BY <2>1, <2>2, <1>1 DEF RowSound
  <2>3. CASE d # c
    BY <2>1, <2>3, <1>1
  <2> QED BY <2>2, <2>3
<1>4. PeriodPaid'
  BY <1>3 DEF PeriodPaid
<1> QED BY <1>2, <1>4 DEF BillingIInv

\* Steps that change the status of one invoice, and pay it or not.
LEMMA InvoiceChanged ==
  ASSUME BillingIInv, NEW i \in DOMAIN invoice, NEW s \in InvoiceStatus, NEW b \in BOOLEAN,
         invoice[i].paid => b,
         invoice' = [invoice EXCEPT ![i] = [@ EXCEPT !.status = s, !.paid = b]]
  PROVE  /\ invoice' \in Seq(InvoiceRow) /\ InvoicesKept /\ EndsSet'
         /\ DOMAIN invoice' = DOMAIN invoice /\ invoice'[i].paid = b
<1> DEFINE row == [invoice[i] EXCEPT !.status = s, !.paid = b]
<1>1. invoice \in Seq(InvoiceRow) /\ DOMAIN invoice = 1..Len(invoice)
  BY DEF BillingIInv, BillingTypeOK
<1>2. invoice[i] \in InvoiceRow
  BY <1>1, ElementOfSeq
<1>3. /\ row \in InvoiceRow /\ row.paid = b
      /\ row.company = invoice[i].company /\ row.end = invoice[i].end
  BY <1>2 DEF InvoiceRow
<1> HIDE DEF row
<1>4. invoice' = [invoice EXCEPT ![i] = row]
  BY DEF row
<1>5. /\ invoice' \in Seq(InvoiceRow) /\ Len(invoice') = Len(invoice)
      /\ \A j \in DOMAIN invoice : invoice'[j] = IF j = i THEN row ELSE invoice[j]
  BY <1>1, <1>3, <1>4, ExceptSeq
<1>6. DOMAIN invoice' = DOMAIN invoice
  BY <1>1, <1>5
<1>7. InvoicesKept
  BY <1>3, <1>5, <1>6 DEF InvoicesKept
<1>8. EndsSet'
  BY <1>3, <1>5, <1>6 DEF BillingIInv, EndsSet
<1> QED BY <1>3, <1>5, <1>6, <1>7, <1>8

LEMMA SameRequests ==
  ASSUME BillingIInv, InvoicesKept, UNCHANGED call,
         \A c \in Company : company[c].expires # 0 => company'[c].expires # 0
  PROVE  call' \in [Process -> CallRow] /\ RequestsSound'
<1>1. call \in [Process -> CallRow] /\ Cron \in Process
  BY DEF BillingIInv, BillingTypeOK, Process
<1>2. PICK r \in CallRow : r = call[Cron]
  BY <1>1
<1>3. call' = [call EXCEPT ![Cron] = r]
  BY <1>1, <1>2
<1>4. BillingSound(r)
  BY <1>1, <1>2 DEF BillingIInv, RequestsSound
<1>5. r.op = "resume" => r.company \in Company
  BY <1>2, Shapes
<1>6. /\ r.op \in {"pay", "extend"} => r.id \in DOMAIN invoice'
      /\ r.op = "renew" => r.row.end # 0
      /\ r.op = "configure" => r.term # 0
      /\ r.op = "resume" => company'[r.company].expires # 0
  BY <1>4, <1>5 DEF BillingSound, InvoicesKept
<1> QED BY <1>1, <1>3, <1>6, Others

\* Steps that leave the companies alone.
LEMMA InvoiceStep ==
  ASSUME BillingIInv, InvoicesKept, UNCHANGED <<now, company, job>>,
         invoice' \in Seq(InvoiceRow), EndsSet',
         call' \in [Process -> CallRow], RequestsSound'
  PROVE  BillingIInv'
<1>1. BillingTypeOK'
  BY DEF BillingIInv, BillingTypeOK
<1>2. PeriodPaid'
  BY DEF BillingIInv, PeriodPaid, InvoicesKept
<1> QED BY <1>1, <1>2 DEF BillingIInv

\* Steps of the jobs and of the clock.
LEMMA JobStep ==
  ASSUME BillingIInv, UNCHANGED <<company, invoice, call>>, now' \in Nat, job' \in JobState
  PROVE  BillingIInv'
<1>1. InvoicesKept
  BY DEF InvoicesKept
<1>2. call' \in [Process -> CallRow] /\ RequestsSound'
  BY <1>1, SameRequests
<1>3. BillingTypeOK' /\ PeriodPaid' /\ EndsSet'
  BY <1>2 DEF BillingIInv, BillingTypeOK, PeriodPaid, EndsSet
<1> QED BY <1>2, <1>3 DEF BillingIInv

-----------------------------------------------------------------------------
(* Payments and renewals.                                                  *)

LEMMA PayReadKeeps ==
  ASSUME BillingIInv, NEW q \in Caller, NEW i \in 1..MaxInvoice, PayRead(q, i)
  PROVE  BillingIInv'
<1> DEFINE r == [op |-> "pay", id |-> i]
<1>1. r \in CallRow
  BY DEF CallRow
<1>2. BillingSound(r)
  BY DEF PayRead, Open, BillingSound
<1>3. call' = [call EXCEPT ![q] = r] /\ UNCHANGED <<now, company, invoice, job>>
  BY DEF PayRead, StartCall
<1> HIDE DEF r
<1> QED BY <1>1, <1>2, <1>3, BillingRequestStep DEF BillingIInv, BillingTypeOK, Process

LEMMA PayCommitKeeps ==
  ASSUME BillingIInv, NEW p \in Process, PayCommit(p)
  PROVE  BillingIInv'
<1>1. PICK i \in DOMAIN invoice : i = call[p].id /\ Open(i)
  BY DEF PayCommit, Open
<1>2. PICK inv \in InvoiceRow : inv = invoice[i]
  BY ElementOfSeq DEF BillingIInv, BillingTypeOK
<1>3. PICK c \in Company : c = inv.company
  BY DEF InvoiceRow
<1>4. PICK old \in CompanyRow : old = company[c]
  BY DEF BillingIInv, BillingTypeOK
<1> DEFINE row == Renewed(old, inv)
<1>5. /\ row \in CompanyRow /\ row.expires = inv.end
      /\ row.access => row.status = "ACTIVE"
  <2>1. inv.end \in Nat /\ inv.amount \in Nat
    BY DEF InvoiceRow
  <2> QED BY <2>1 DEF Renewed, Active, CompanyRow, SubscriptionStatus
<1>6. /\ invoice' = [invoice EXCEPT ![i].status = "PAID", ![i].paid = TRUE]
      /\ company' = [company EXCEPT ![c] = row]
      /\ call' = [call EXCEPT ![p] = NoCall] /\ UNCHANGED <<now, job>>
  BY <1>1, <1>2, <1>3, <1>4 DEF PayCommit, EndCall
<1> HIDE DEF row
<1>7. invoice' = [invoice EXCEPT ![i] = [@ EXCEPT !.status = "PAID", !.paid = TRUE]]
  BY <1>1, <1>6
<1>8. /\ invoice' \in Seq(InvoiceRow) /\ InvoicesKept /\ EndsSet'
      /\ DOMAIN invoice' = DOMAIN invoice /\ invoice'[i].paid
  BY <1>7, InvoiceChanged DEF InvoiceStatus
<1>9. RowSound(c, row)
  <2>1. inv.end # 0
    BY <1>2 DEF BillingIInv, EndsSet
  <2>2. invoice'[i].company = c /\ invoice'[i].end = inv.end
    BY <1>2, <1>3, <1>8 DEF InvoicesKept
  <2> QED BY <1>5, <1>8, <2>1, <2>2 DEF RowSound
<1>10. \A d \in Company : company[d].expires # 0 => company'[d].expires # 0
  BY <1>4, <1>6, <1>9 DEF RowSound, BillingIInv, BillingTypeOK
<1>11. call' \in [Process -> CallRow] /\ RequestsSound'
  BY <1>6, <1>8, <1>10, BillingIdleSound, Others DEF NoCall
<1> QED BY <1>5, <1>6, <1>8, <1>9, <1>11, CompanyStep

LEMMA RenewalTyped ==
  ASSUME BillingIInv, NEW c \in Company, Renewable(c)
  PROVE  RenewalOf(c) \in InvoiceRow /\ RenewalOf(c).end # 0
<1>1. PICK row \in CompanyRow : row = company[c]
  BY DEF BillingIInv, BillingTypeOK
<1>2. row.expires \in Nat /\ row.term \in Nat /\ row.term > 0 /\ row.amount \in Nat /\ now \in Nat
  BY <1>1 DEF CompanyRow, Renewable, BillingIInv, BillingTypeOK
<1> DEFINE start == IF row.expires > now THEN row.expires ELSE now
<1>3. start \in Nat /\ start + row.term \in Nat \ {0} /\ start + ExpiryDays \in Nat
  BY <1>2, BillingConstantsOK
<1>4. RenewalOf(c) =
        [company |-> c, kind |-> "RENEWAL", status |-> "OPEN", amount |-> row.amount,
         expires |-> start + ExpiryDays, end |-> start + row.term,
         key |-> IF row.expires > now THEN row.expires ELSE 0, paid |-> FALSE]
  BY <1>1 DEF RenewalOf
<1> HIDE DEF start
<1> QED BY <1>2, <1>3, <1>4 DEF InvoiceRow, Kind, InvoiceStatus

LEMMA RenewReadKeeps ==
  ASSUME BillingIInv, NEW p \in Process, NEW c \in Company, RenewRead(p, c),
         UNCHANGED <<now, company, invoice>>, job' \in JobState
  PROVE  BillingIInv'
<1>1. PICK row \in InvoiceRow : row = RenewalOf(c) /\ row.end # 0
  BY RenewalTyped DEF RenewRead
<1>2. PICK r \in CallRow : r = [op |-> "renew", company |-> c, row |-> row]
  BY DEF CallRow
<1>3. BillingSound(r) /\ call' = [call EXCEPT ![p] = r]
  BY <1>1, <1>2 DEF RenewRead, StartCall, BillingSound
<1> QED BY <1>3, BillingRequestStep DEF BillingIInv, BillingTypeOK

LEMMA Appended ==
  ASSUME BillingIInv, NEW row \in InvoiceRow, row.end # 0, invoice' = Append(invoice, row)
  PROVE  /\ invoice' \in Seq(InvoiceRow) /\ InvoicesKept /\ EndsSet'
         /\ Len(invoice) + 1 \in DOMAIN invoice' /\ invoice'[Len(invoice) + 1] = row
<1>1. invoice \in Seq(InvoiceRow) /\ Len(invoice) \in Nat /\ DOMAIN invoice = 1..Len(invoice)
  BY DEF BillingIInv, BillingTypeOK
<1>2. /\ invoice' \in Seq(InvoiceRow) /\ Len(invoice') = Len(invoice) + 1
      /\ \A i \in 1..Len(invoice) : invoice'[i] = invoice[i]
      /\ invoice'[Len(invoice) + 1] = row
  BY <1>1, AppendProperties
<1>3. DOMAIN invoice' = 1..(Len(invoice) + 1)
  BY <1>1, <1>2
<1>4. InvoicesKept
  BY <1>1, <1>2, <1>3 DEF InvoicesKept
<1>5. EndsSet'
  BY <1>1, <1>2, <1>3 DEF BillingIInv, EndsSet
<1> QED BY <1>1, <1>2, <1>3, <1>4, <1>5

LEMMA RenewCommitKeeps ==
  ASSUME BillingIInv, NEW p \in Process, RenewCommit(p)
  PROVE  BillingIInv'
<1>1. call[p] \in CallRow /\ call[p].op = "renew" /\ BillingSound(call[p])
  BY DEF BillingIInv, BillingTypeOK, RequestsSound, RenewCommit
<1>2. PICK row \in InvoiceRow : row = call[p].row /\ row.end # 0
  BY <1>1, Shapes DEF BillingSound
<1>3. PICK n \in Nat \ {0} : n = Len(invoice) + 1
  BY DEF BillingIInv, BillingTypeOK
<1> DEFINE r == IF row.amount = 0 THEN [op |-> "pay", id |-> n] ELSE NoCall
<1>4. /\ invoice' = Append(invoice, row) /\ call' = [call EXCEPT ![p] = r]
      /\ UNCHANGED <<now, company, job>>
  BY <1>2, <1>3 DEF RenewCommit
<1>5. /\ invoice' \in Seq(InvoiceRow) /\ InvoicesKept /\ EndsSet'
      /\ n \in DOMAIN invoice'
  BY <1>2, <1>3, <1>4, Appended
<1>6. /\ r \in CallRow /\ r.op \in {"pay", "idle"}
      /\ r.op = "pay" => r.id = n
  BY BillingIdleSound DEF CallRow, NoCall
<1> HIDE DEF r
<1>7. call' \in [Process -> CallRow] /\ RequestsSound'
  BY <1>4, <1>5, <1>6, Others
<1> QED BY <1>4, <1>5, <1>7, InvoiceStep

-----------------------------------------------------------------------------
(* Handlers of the platform administrator.                                 *)

LEMMA ConfigureReadKeeps ==
  ASSUME BillingIInv, NEW q \in Caller, NEW c \in Company, NEW term \in Term, NEW amount \in Amount,
         NEW auto \in BOOLEAN, ConfigureRead(q, c, term, amount, auto)
  PROVE  BillingIInv'
<1> DEFINE r == [op |-> "configure", company |-> c, hadAccess |-> HasAccess(c), at |-> now,
                 term |-> term, amount |-> amount, auto |-> auto]
<1>1. term \in Nat /\ term # 0 /\ amount \in Nat /\ now \in Nat
  BY BillingConstantsOK DEF BillingIInv, BillingTypeOK
<1>2. HasAccess(c) \in BOOLEAN
  BY DEF HasAccess
<1>3. r \in CallRow /\ BillingSound(r)
  BY <1>1, <1>2 DEF CallRow, BillingSound
<1>4. call' = [call EXCEPT ![q] = r] /\ UNCHANGED <<now, company, invoice, job>>
  BY DEF ConfigureRead, StartCall
<1> HIDE DEF r
<1> QED BY <1>3, <1>4, BillingRequestStep DEF BillingIInv, BillingTypeOK, Process

LEMMA ConfigureCommitKeeps ==
  ASSUME BillingIInv, NEW q \in Caller, ConfigureCommit(q)
  PROVE  BillingIInv'
<1>1. PICK r \in [op : {"configure"}, company : Company, hadAccess : BOOLEAN, at : Nat,
                  term : Nat, amount : Nat, auto : BOOLEAN] : r = call[q] /\ r.term # 0
  BY Shapes DEF BillingIInv, BillingTypeOK, RequestsSound, BillingSound, Process, ConfigureCommit
<1>2. PICK c \in Company : c = r.company
  OBVIOUS
<1>3. PICK old \in CompanyRow : old = company[c]
  BY DEF BillingIInv, BillingTypeOK
<1>4. old.access => old.status = "ACTIVE" /\ old.expires # 0
  BY <1>3 DEF BillingIInv, PeriodPaid
<1> DEFINE terms == [old EXCEPT !.term = r.term, !.amount = r.amount, !.auto = r.auto]
           end   == r.at + r.term
<1>5. /\ terms \in CompanyRow
      /\ terms.access = old.access /\ terms.status = old.status /\ terms.expires = old.expires
  BY DEF CompanyRow
<1>6. end \in Nat /\ end # 0
  BY <1>1
<1>7. call' = [call EXCEPT ![q] = NoCall] /\ UNCHANGED <<now, job>> /\ q \in Process
  BY DEF ConfigureCommit, EndCall, Process
<1>8. CASE UNCHANGED invoice /\ company' = [company EXCEPT ![c] = terms]
  <2> HIDE DEF terms, end
  <2>1. InvoicesKept /\ EndsSet' /\ invoice' \in Seq(InvoiceRow)
    BY <1>8 DEF InvoicesKept, BillingIInv, BillingTypeOK, EndsSet
  <2>2. RowSound(c, terms)
    BY <1>3, <1>4, <1>5 DEF RowSound
  <2>3. \A d \in Company : company[d].expires # 0 => company'[d].expires # 0
    BY <1>3, <1>5, <1>8 DEF BillingIInv, BillingTypeOK
  <2>4. call' \in [Process -> CallRow] /\ RequestsSound'
    BY <1>7, <2>1, <2>3, BillingIdleSound, Others DEF NoCall
  <2> QED BY <1>5, <1>7, <1>8, <2>1, <2>2, <2>4, CompanyStep
<1>9. ASSUME NEW row, row = [Active(terms) EXCEPT !.expires = end],
             company' = [company EXCEPT ![c] = row],
             NEW inv, inv = [company |-> c, kind |-> "INITIAL", status |-> "PAID",
               amount |-> r.amount, expires |-> end, end |-> end, key |-> 0, paid |-> TRUE],
             invoice' = Append(invoice, inv)
      PROVE  BillingIInv'
  <2> HIDE DEF end
  <2>1. /\ row \in CompanyRow /\ row.status = "ACTIVE" /\ row.expires = end
    BY <1>6, <1>9 DEF Active, CompanyRow, SubscriptionStatus
  <2>2. /\ inv \in InvoiceRow /\ inv.company = c /\ inv.paid /\ inv.end = end
    BY <1>6, <1>9 DEF InvoiceRow, Kind, InvoiceStatus
  <2>3. /\ invoice' \in Seq(InvoiceRow) /\ InvoicesKept /\ EndsSet'
        /\ Len(invoice) + 1 \in DOMAIN invoice' /\ invoice'[Len(invoice) + 1] = inv
    BY <1>6, <1>9, <2>2, Appended
  <2>4. RowSound(c, row)
    BY <1>6, <2>1, <2>2, <2>3 DEF RowSound
  <2>5. \A d \in Company : company[d].expires # 0 => company'[d].expires # 0
    BY <1>6, <1>9, <2>1 DEF BillingIInv, BillingTypeOK
  <2>6. call' \in [Process -> CallRow] /\ RequestsSound'
    BY <1>7, <2>3, <2>5, BillingIdleSound, Others DEF NoCall
  <2> QED BY <1>7, <1>9, <2>1, <2>3, <2>4, <2>6, CompanyStep
<1> QED BY <1>1, <1>2, <1>3, <1>8, <1>9 DEF ConfigureCommit

LEMMA BillingStatusReadKeeps ==
  ASSUME BillingIInv, NEW q \in Caller, NEW c \in Company, NEW op \in {"suspend", "cancel", "resume"},
         StatusRead(q, c, op)
  PROVE  BillingIInv'
<1>1. PICK r \in CallRow : r = [op |-> op, company |-> c]
  BY DEF CallRow
<1>2. op = "resume" => company[c].expires # 0
  BY DEF StatusRead, MayChange, BillingIInv, BillingTypeOK, CompanyRow
<1>3. BillingSound(r)
  BY <1>1, <1>2 DEF BillingSound
<1>4. call' = [call EXCEPT ![q] = r] /\ UNCHANGED <<now, company, invoice, job>>
  BY <1>1 DEF StatusRead, StartCall
<1> QED BY <1>3, <1>4, BillingRequestStep DEF BillingIInv, BillingTypeOK, Process

LEMMA StatusCommitKeeps ==
  ASSUME BillingIInv, NEW q \in Caller, StatusCommit(q)
  PROVE  BillingIInv'
<1>1. PICK r \in [op : {"suspend", "cancel", "resume"}, company : Company] :
        r = call[q] /\ (r.op = "resume" => company[r.company].expires # 0)
  BY Shapes DEF BillingIInv, BillingTypeOK, RequestsSound, BillingSound, Process, StatusCommit
<1>2. PICK c \in Company : c = r.company
  OBVIOUS
<1>3. PICK old \in CompanyRow : old = company[c]
  BY DEF BillingIInv, BillingTypeOK
<1> DEFINE row == [old EXCEPT !.status = Becomes(r.op), !.access = (r.op = "resume"),
                              !.auto = (r.op # "cancel" /\ @)]
<1>4. /\ row \in CompanyRow /\ row.expires = old.expires
      /\ row.access => r.op = "resume" /\ row.status = "ACTIVE"
  BY DEF CompanyRow, Becomes, SubscriptionStatus
<1>5. /\ company' = [company EXCEPT ![c] = row] /\ call' = [call EXCEPT ![q] = NoCall]
      /\ UNCHANGED <<now, invoice, job>> /\ q \in Process
  BY <1>1, <1>2, <1>3 DEF StatusCommit, EndCall, Process
<1> HIDE DEF row
<1>6. InvoicesKept /\ EndsSet' /\ invoice' \in Seq(InvoiceRow)
  BY <1>5 DEF InvoicesKept, BillingIInv, BillingTypeOK, EndsSet
<1>7. RowSound(c, row)
  BY <1>1, <1>2, <1>3, <1>4 DEF RowSound
<1>8. \A d \in Company : company[d].expires # 0 => company'[d].expires # 0
  BY <1>3, <1>4, <1>5 DEF BillingIInv, BillingTypeOK
<1>9. call' \in [Process -> CallRow] /\ RequestsSound'
  BY <1>5, <1>6, <1>8, BillingIdleSound, Others DEF NoCall
<1> QED BY <1>4, <1>5, <1>6, <1>7, <1>9, CompanyStep

\* Steps that change one company alone, and give it neither access nor a period.
LEMMA BillingRowStep ==
  ASSUME BillingIInv, NEW c \in Company, NEW row \in CompanyRow,
         company' = [company EXCEPT ![c] = row], UNCHANGED <<now, invoice, call, job>>,
         row.expires = company[c].expires,
         row.access => row.status = company[c].status /\ company[c].access
  PROVE  BillingIInv'
<1>1. InvoicesKept /\ EndsSet' /\ invoice' \in Seq(InvoiceRow)
  BY DEF InvoicesKept, BillingIInv, BillingTypeOK, EndsSet
<1>2. RowSound(c, row)
  BY DEF RowSound, BillingIInv, PeriodPaid
<1>3. \A d \in Company : company[d].expires # 0 => company'[d].expires # 0
  BY DEF BillingIInv, BillingTypeOK
<1>4. call' \in [Process -> CallRow] /\ RequestsSound'
  BY <1>1, <1>3, SameRequests
<1> QED BY <1>1, <1>2, <1>4, CompanyStep

LEMMA SetAutoRenewKeeps ==
  ASSUME BillingIInv, NEW c \in Company, NEW auto \in BOOLEAN, SetAutoRenew(c, auto)
  PROVE  BillingIInv'
<1>1. PICK old \in CompanyRow : old = company[c]
  BY DEF BillingIInv, BillingTypeOK
<1>2. PICK row \in CompanyRow : row = [old EXCEPT !.auto = auto]
  BY DEF CompanyRow
<1>3. row.expires = old.expires /\ row.access = old.access /\ row.status = old.status
  BY <1>2 DEF CompanyRow
<1>4. company' = [company EXCEPT ![c] = row] /\ UNCHANGED <<now, invoice, call, job>>
  BY <1>1, <1>2 DEF SetAutoRenew
<1> QED BY <1>1, <1>3, <1>4, BillingRowStep

LEMMA ExpireCompanyKeeps ==
  ASSUME BillingIInv, NEW c \in Company, ExpireCompany(c)
  PROVE  BillingIInv'
<1>1. PICK old \in CompanyRow : old = company[c]
  BY DEF BillingIInv, BillingTypeOK
<1>2. PICK row \in CompanyRow : row = [old EXCEPT !.status = "EXPIRED", !.access = FALSE]
  BY DEF CompanyRow, SubscriptionStatus
<1>3. row.expires = old.expires /\ ~row.access
  BY <1>2 DEF CompanyRow
<1>4. company' = [company EXCEPT ![c] = row] /\ UNCHANGED <<now, invoice, call, job>>
  BY <1>1, <1>2 DEF ExpireCompany
<1> QED BY <1>1, <1>3, <1>4, BillingRowStep

\* Steps that write the status of one invoice.
LEMMA InvoiceWritten ==
  ASSUME BillingIInv, NEW i \in DOMAIN invoice, NEW s \in InvoiceStatus,
         invoice' = [invoice EXCEPT ![i].status = s]
  PROVE  invoice' \in Seq(InvoiceRow) /\ InvoicesKept /\ EndsSet'
<1>1. PICK inv \in InvoiceRow : inv = invoice[i]
  BY ElementOfSeq DEF BillingIInv, BillingTypeOK
<1>2. PICK b \in BOOLEAN : b = inv.paid
  BY DEF InvoiceRow
<1>3. [inv EXCEPT !.status = s] = [inv EXCEPT !.status = s, !.paid = b]
  BY <1>2 DEF InvoiceRow
<1>4. invoice' = [invoice EXCEPT ![i] = [@ EXCEPT !.status = s, !.paid = b]]
  BY <1>1, <1>3
<1> QED BY <1>1, <1>2, <1>4, InvoiceChanged

LEMMA InvoiceClosed ==
  ASSUME BillingIInv, NEW i \in 1..MaxInvoice, CancelInvoice(i) \/ ExpireInvoice(i)
  PROVE  BillingIInv'
<1>1. PICK s \in InvoiceStatus : invoice' = [invoice EXCEPT ![i].status = s]
  BY DEF CancelInvoice, ExpireInvoice, InvoiceStatus
<1>2. i \in DOMAIN invoice /\ UNCHANGED <<now, company, call, job>>
  BY DEF CancelInvoice, ExpireInvoice, Overdue, Open
<1>3. invoice' \in Seq(InvoiceRow) /\ InvoicesKept /\ EndsSet'
  BY <1>1, <1>2, InvoiceWritten
<1>4. call' \in [Process -> CallRow] /\ RequestsSound'
  BY <1>2, <1>3, SameRequests
<1> QED BY <1>2, <1>3, <1>4, InvoiceStep

LEMMA ExtendReadKeeps ==
  ASSUME BillingIInv, NEW q \in Caller, NEW i \in 1..MaxInvoice, NEW later \in BOOLEAN,
         ExtendRead(q, i, later)
  PROVE  BillingIInv'
<1>1. i \in DOMAIN invoice
  BY DEF ExtendRead
<1>2. PICK inv \in InvoiceRow : inv = invoice[i]
  BY <1>1, ElementOfSeq DEF BillingIInv, BillingTypeOK
<1>3. PICK r \in CallRow :
        r = [op |-> "extend", id |-> i, later |-> later, seen |-> inv.status]
  <2>1. i \in Nat \ {0} /\ inv.status \in InvoiceStatus
    BY DEF InvoiceRow
  <2>2. [op |-> "extend", id |-> i, later |-> later, seen |-> inv.status]
          \in [op : {"extend"}, id : Nat \ {0}, later : BOOLEAN, seen : InvoiceStatus]
    BY <2>1
  <2> QED BY <2>2 DEF CallRow
<1>4. BillingSound(r) /\ call' = [call EXCEPT ![q] = r] /\ UNCHANGED <<now, company, invoice, job>>
  BY <1>1, <1>2, <1>3 DEF ExtendRead, StartCall, BillingSound
<1> QED BY <1>4, BillingRequestStep DEF BillingIInv, BillingTypeOK, Process

LEMMA ExtendCommitKeeps ==
  ASSUME BillingIInv, NEW q \in Caller, ExtendCommit(q)
  PROVE  BillingIInv'
<1>1. PICK r \in [op : {"extend"}, id : Nat \ {0}, later : BOOLEAN, seen : InvoiceStatus] :
        r = call[q] /\ r.id \in DOMAIN invoice
  BY Shapes DEF BillingIInv, BillingTypeOK, RequestsSound, BillingSound, Process, ExtendCommit
<1>2. PICK s \in InvoiceStatus : s = IF r.later THEN "OPEN" ELSE r.seen
  BY DEF InvoiceStatus
<1>3. /\ invoice' = [invoice EXCEPT ![r.id].status = s] /\ call' = [call EXCEPT ![q] = NoCall]
      /\ UNCHANGED <<now, company, job>> /\ q \in Process
  BY <1>1, <1>2 DEF ExtendCommit, EndCall, Process
<1>4. invoice' \in Seq(InvoiceRow) /\ InvoicesKept /\ EndsSet'
  BY <1>1, <1>3, InvoiceWritten
<1>5. call' \in [Process -> CallRow] /\ RequestsSound'
  BY <1>3, <1>4, BillingIdleSound, Others DEF NoCall
<1> QED BY <1>3, <1>4, <1>5, InvoiceStep

\* A request or a job gives up.
LEMMA FinishKeeps ==
  ASSUME BillingIInv, NEW p \in Process, EndCall(p), UNCHANGED <<now, company, invoice>>,
         job' \in JobState
  PROVE  BillingIInv'
  BY BillingIdleSound, BillingRequestStep DEF EndCall, BillingIInv, BillingTypeOK

-----------------------------------------------------------------------------
(* The jobs and the whole specification.                                   *)

LEMMA JobKeeps ==
  ASSUME BillingIInv,
         \/ JobStart \/ \E c \in Company : JobRenew(c) \/ JobSkip(c)
         \/ JobFails \/ JobSettled \/ JobEnd \/ Tick
  PROVE  BillingIInv'
<1>1. job \in JobState /\ now \in Nat /\ Cron \in Process
  BY DEF BillingIInv, BillingTypeOK, Process
<1>2. CASE JobStart
  <2>1. job' \in JobState /\ UNCHANGED <<now, company, invoice, call>>
    BY <1>2 DEF JobStart, JobState
  <2> QED BY <1>1, <2>1, JobStep
<1>3. ASSUME NEW c \in Company, JobRenew(c)
      PROVE  BillingIInv'
  <2>1. job' \in JobState
    BY <1>1, <1>3 DEF JobRenew, Visited, JobState
  <2> QED BY <1>1, <1>3, <2>1, RenewReadKeeps DEF JobRenew
<1>4. ASSUME NEW c \in Company, JobSkip(c)
      PROVE  BillingIInv'
  <2>1. job' \in JobState /\ UNCHANGED <<now, company, invoice, call>>
    BY <1>1, <1>4 DEF JobSkip, Visited, JobState
  <2> QED BY <1>1, <2>1, JobStep
<1>5. CASE JobFails
  <2>1. job' \in JobState
    BY <1>1, <1>5 DEF JobFails, JobState
  <2> QED BY <1>1, <1>5, <2>1, FinishKeeps DEF JobFails
<1>6. CASE JobSettled
  BY <1>1, <1>6, FinishKeeps DEF JobSettled
<1>7. CASE JobEnd
  <2>1. job' \in JobState /\ UNCHANGED <<now, company, invoice, call>>
    BY <1>1, <1>7 DEF JobEnd, JobState
  <2> QED BY <1>1, <2>1, JobStep
<1>8. CASE Tick
  <2>1. job' \in JobState /\ now' \in Nat /\ UNCHANGED <<company, invoice, call>>
    BY <1>1, <1>8 DEF Tick, JobState
  <2> QED BY <2>1, JobStep
<1> QED BY <1>2, <1>3, <1>4, <1>5, <1>6, <1>7, <1>8

LEMMA InitHolds == BillingInit => BillingIInv
<1> SUFFICES ASSUME BillingInit PROVE BillingIInv
  OBVIOUS
<1>1. BillingTypeOK
  BY DEF BillingInit, BillingTypeOK, CompanyRow, SubscriptionStatus, CallRow, JobState
<1>2. PeriodPaid /\ EndsSet
  BY DEF BillingInit, PeriodPaid, EndsSet
<1>3. RequestsSound
  BY BillingIdleSound DEF BillingInit, RequestsSound
<1> QED BY <1>1, <1>2, <1>3 DEF BillingIInv

LEMMA StepHolds == BillingIInv /\ [BillingNext]_billingVars => BillingIInv'
<1> SUFFICES ASSUME BillingIInv, [BillingNext]_billingVars PROVE BillingIInv'
  OBVIOUS
<1>0. Caller \subseteq Process /\ job \in JobState
  BY DEF Process, BillingIInv, BillingTypeOK
<1>1. ASSUME NEW q \in Caller, NEW i \in 1..MaxInvoice, PayRead(q, i) PROVE BillingIInv'
  BY <1>1, PayReadKeeps
<1>2. ASSUME NEW p \in Process, PayCommit(p) PROVE BillingIInv'
  BY <1>2, PayCommitKeeps
<1>3. ASSUME NEW q \in Caller, NEW c \in Company, RenewRead(q, c),
             UNCHANGED <<now, company, invoice, job>>
      PROVE  BillingIInv'
  BY <1>0, <1>3, RenewReadKeeps
<1>4. ASSUME NEW p \in Process, RenewCommit(p) PROVE BillingIInv'
  BY <1>4, RenewCommitKeeps
<1>5. ASSUME NEW q \in Caller, NEW c \in Company, NEW term \in Term, NEW amount \in Amount,
             NEW auto \in BOOLEAN, ConfigureRead(q, c, term, amount, auto)
      PROVE  BillingIInv'
  BY <1>5, ConfigureReadKeeps
<1>6. ASSUME NEW q \in Caller, ConfigureCommit(q) PROVE BillingIInv'
  BY <1>6, ConfigureCommitKeeps
<1>7. ASSUME NEW q \in Caller, NEW c \in Company, NEW op \in {"suspend", "cancel", "resume"},
             StatusRead(q, c, op)
      PROVE  BillingIInv'
  BY <1>7, BillingStatusReadKeeps
<1>8. ASSUME NEW q \in Caller, StatusCommit(q) PROVE BillingIInv'
  BY <1>8, StatusCommitKeeps
<1>9. ASSUME NEW c \in Company, NEW auto \in BOOLEAN, SetAutoRenew(c, auto) PROVE BillingIInv'
  BY <1>9, SetAutoRenewKeeps
<1>10. ASSUME NEW i \in 1..MaxInvoice, CancelInvoice(i) \/ ExpireInvoice(i) PROVE BillingIInv'
  BY <1>10, InvoiceClosed
<1>11. ASSUME NEW q \in Caller, NEW i \in 1..MaxInvoice, NEW later \in BOOLEAN,
              ExtendRead(q, i, later)
       PROVE  BillingIInv'
  BY <1>11, ExtendReadKeeps
<1>12. ASSUME NEW q \in Caller, ExtendCommit(q) PROVE BillingIInv'
  BY <1>12, ExtendCommitKeeps
<1>13. ASSUME NEW q \in Caller, FailCall(q) PROVE BillingIInv'
  BY <1>0, <1>13, FinishKeeps DEF FailCall
<1>14. ASSUME NEW c \in Company, ExpireCompany(c) PROVE BillingIInv'
  BY <1>14, ExpireCompanyKeeps
<1>15. CASE \/ JobStart \/ \E c \in Company : JobRenew(c) \/ JobSkip(c)
            \/ JobFails \/ JobSettled \/ JobEnd \/ Tick
  BY <1>15, JobKeeps
<1>16. CASE UNCHANGED billingVars
  BY <1>0, <1>16, JobStep DEF billingVars, BillingIInv, BillingTypeOK
<1> QED BY <1>1, <1>2, <1>3, <1>4, <1>5, <1>6, <1>7, <1>8, <1>9, <1>10, <1>11, <1>12,
           <1>13, <1>14, <1>15, <1>16 DEF BillingNext

LEMMA Invariant == BillingSpec => []BillingIInv
  BY InitHolds, StepHolds, PTL DEF BillingSpec

\* The rows of companies, invoices, requests and the job are well typed, whatever the number of
\* companies and requests (the statuses of the schema, no period before the first day).
THEOREM BillingTypeCorrect == BillingSpec => []BillingTypeOK
<1>1. BillingIInv => BillingTypeOK
  BY DEF BillingIInv
<1> QED BY <1>1, Invariant, PTL

\* Whoever has access has a period, and each period a company has is the one of an invoice that
\* was paid: no interleaving of payments, configurations, extensions and changes of status, read
\* outside of their transactions, gives a company a period nobody paid.
THEOREM EveryPeriodWasPaid == BillingSpec => []PeriodPaid
<1>1. BillingIInv => PeriodPaid
  BY DEF BillingIInv
<1> QED BY <1>1, Invariant, PTL
-----------------------------------------------------------------------------
(* Invoices: what settled one stands.                                      *)

Extending(i) ==
  \E q \in Caller : call[q].op = "extend" /\ call[q].id = i /\ call'[q] = NoCall

Settles ==
  \A i \in DOMAIN invoice : ~Open(i) => invoice'[i].status = invoice[i].status \/ Extending(i)

\* An invoice is added.
LEMMA AppendSettles ==
  ASSUME BillingIInv, NEW row, invoice' = Append(invoice, row)
  PROVE  Settles
<1>1. invoice \in Seq(InvoiceRow)
  BY DEF BillingIInv, BillingTypeOK
<1>2. \A i \in DOMAIN invoice : invoice'[i] = invoice[i]
  BY <1>1
<1> QED BY <1>2 DEF Settles

\* The status of one invoice is written, which was open or is the one being extended.
LEMMA StatusSettles ==
  ASSUME BillingIInv, NEW i, Open(i) \/ Extending(i),
         \A j \in DOMAIN invoice : j # i => invoice'[j] = invoice[j]
  PROVE  Settles
  BY DEF Settles

LEMMA StepSettles == BillingIInv /\ [BillingNext]_billingVars => [Settles]_billingVars
<1> SUFFICES ASSUME BillingIInv, BillingNext PROVE Settles
  OBVIOUS
<1>0. invoice \in Seq(InvoiceRow)
  BY DEF BillingIInv, BillingTypeOK
<1>1. ASSUME NEW p \in Process, PayCommit(p) PROVE Settles
  <2>1. PICK i : /\ Open(i)
                 /\ invoice' = [invoice EXCEPT ![i].status = "PAID", ![i].paid = TRUE]
    BY <1>1 DEF PayCommit
  <2>2. \A j \in DOMAIN invoice : j # i => invoice'[j] = invoice[j]
    BY <1>0, <2>1
  <2> QED BY <2>1, <2>2, StatusSettles
<1>2. ASSUME NEW p \in Process, RenewCommit(p) PROVE Settles
  BY <1>2, AppendSettles DEF RenewCommit
<1>3. ASSUME NEW q \in Caller, ConfigureCommit(q) PROVE Settles
  BY <1>3, AppendSettles DEF ConfigureCommit, Settles
<1>4. ASSUME NEW i, CancelInvoice(i) \/ ExpireInvoice(i) PROVE Settles
  <2>1. PICK status : Open(i) /\ invoice' = [invoice EXCEPT ![i].status = status]
    BY <1>4 DEF CancelInvoice, ExpireInvoice, Overdue
  <2>2. \A j \in DOMAIN invoice : j # i => invoice'[j] = invoice[j]
    BY <1>0, <2>1
  <2> QED BY <2>1, <2>2, StatusSettles
<1>5. ASSUME NEW q \in Caller, ExtendCommit(q) PROVE Settles
  <2>1. PICK i, status : /\ i = call[q].id /\ call[q].op = "extend"
                         /\ invoice' = [invoice EXCEPT ![i].status = status]
                         /\ call'[q] = NoCall
    BY <1>5 DEF ExtendCommit, EndCall, BillingIInv, BillingTypeOK, Process
  <2>2. \A j \in DOMAIN invoice : j # i => invoice'[j] = invoice[j]
    BY <1>0, <2>1
  <2> QED BY <2>1, <2>2, StatusSettles DEF Extending
<1>6. CASE UNCHANGED invoice
  BY <1>6 DEF Settles
<1> QED BY <1>1, <1>2, <1>3, <1>4, <1>5, <1>6 DEF BillingNext, PayRead, RenewRead,
           ConfigureRead, StatusRead, StatusCommit, SetAutoRenew, ExtendRead, FailCall,
           ExpireCompany, JobStart, JobRenew, JobSkip, JobFails, JobSettled, JobEnd, Tick

\* Of the payments, the cancellation and the expiry of one invoice one takes effect, for any
\* number of callers beside the jobs (the claims of markDirectInvoicePaid, cancelInvoice and
\* expireInvoice); only the commit of an extension of its due date changes a settled invoice.
THEOREM SettledStands == BillingSpec => SettledOnce
<1>1. [Settles]_billingVars
        => [\A i \in DOMAIN invoice :
              ~Open(i) => \/ invoice'[i].status = invoice[i].status
                          \/ \E q \in Caller : /\ call[q].op = "extend" /\ call[q].id = i
                                               /\ call'[q] = NoCall]_billingVars
  BY DEF Settles, Extending
<1> QED BY <1>1, StepSettles, Invariant, PTL DEF BillingSpec, SettledOnce

-----------------------------------------------------------------------------
(* Access and suspensions.  Two requests at once can give back an access   *)
(* that a cancellation took: what is stated is about one request at a time *)
(* beside the jobs.                                                        *)

\* At most one request is in flight; the nightly job may have one more call.
OneCall == \A p, q \in Caller : call[p] # NoCall /\ call[q] # NoCall => p = q

\* A company to resume is suspended; or a payment of the nightly job has given it its access
\* back already, or its period has ended.
MayResume(c) ==
  \/ company[c].status = "SUSPENDED"
  \/ company[c].status = "ACTIVE" /\ company[c].access
  \/ company[c].expires <= now

ResumesSound == \A q \in Caller : call[q].op = "resume" => MayResume(call[q].company)

SameAccess(c) == UNCHANGED <<company[c].status, company[c].access, company[c].expires>>

\* What each step does about the access of a company.
Granted(c) == ~HasAccess(c) /\ HasAccess(c)' => PaysFor(c) \/ company[c].status = "SUSPENDED"

\* Nobody starts to resume a company that may not be resumed.
ResumesRead ==
  \A x \in Caller :
    call'[x].op = "resume" =>
      call'[x] = call[x] \/ \E c \in Company : call'[x].company = c /\ MayResume(c)

\* What is to be shown of every step.
StepGranted == ResumesSound' /\ \A c \in Company : Granted(c)

LEMMA ResumesKept ==
  ASSUME BillingIInv, ResumesSound, ResumesRead,
         \A c \in Company : MayResume(c) => MayResume(c)'
  PROVE  ResumesSound'
<1> SUFFICES ASSUME NEW x \in Caller, call'[x].op = "resume"
             PROVE  MayResume(call[x].company)'
  BY DEF ResumesSound
<1>1. PICK c \in Company : call'[x].company = c /\ MayResume(c)
  <2>1. CASE call'[x] = call[x]
    <3>1. call[x] \in CallRow /\ call[x].op = "resume"
      BY <2>1 DEF BillingIInv, BillingTypeOK, Process
    <3>2. call[x].company \in Company
      BY <3>1, Shapes
    <3> QED BY <2>1, <3>1, <3>2 DEF ResumesSound
  <2> QED BY <2>1 DEF ResumesRead
<1>2. MayResume(c)'
  BY <1>1
<1> QED BY <1>1, <1>2 DEF MayResume

\* Steps that leave what decides about the access of every company alone.
LEMMA SameStep ==
  ASSUME BillingIInv, ResumesSound, ResumesRead, now' \in Nat, now <= now',
         \A c \in Company : SameAccess(c)
  PROVE  StepGranted
<1>1. ASSUME NEW c \in Company
      PROVE  /\ MayResume(c) => MayResume(c)'
             /\ Granted(c)
  <2>1. now \in Nat /\ company[c].expires \in Nat
    BY DEF BillingIInv, BillingTypeOK, CompanyRow
  <2>2. /\ company'[c].status = company[c].status /\ company'[c].access = company[c].access
        /\ company'[c].expires = company[c].expires
    BY DEF SameAccess
  <2> QED BY <2>1, <2>2 DEF MayResume, Granted, HasAccess
<1> QED BY <1>1, ResumesKept DEF StepGranted

LEMMA CallChanged ==
  ASSUME BillingIInv, NEW p \in Process, NEW r, call' = [call EXCEPT ![p] = r],
         r.op = "resume" => \E c \in Company : r.company = c /\ MayResume(c)
  PROVE  ResumesRead
  BY DEF ResumesRead, BillingIInv, BillingTypeOK

LEMMA SameCompanies ==
  ASSUME UNCHANGED company
  PROVE  \A c \in Company : SameAccess(c)
  BY DEF SameAccess

\* Steps of the nightly job and of requests that change no company.
LEMMA CallStep ==
  ASSUME BillingIInv, ResumesSound, UNCHANGED <<now, company>>, NEW p \in Process, NEW r,
         call' = [call EXCEPT ![p] = r],
         r.op = "resume" => \E c \in Company : r.company = c /\ MayResume(c)
  PROVE  StepGranted
<1>1. ResumesRead
  BY CallChanged
<1>2. now \in Nat
  BY DEF BillingIInv, BillingTypeOK
<1> QED BY <1>1, <1>2, SameCompanies, SameStep

LEMMA PayCommitGrants ==
  ASSUME BillingIInv, ResumesSound, NEW p \in Process, PayCommit(p)
  PROVE  StepGranted
<1>1. PICK i \in DOMAIN invoice : i = call[p].id /\ Open(i)
  BY DEF PayCommit, Open
<1>2. PICK inv \in InvoiceRow : inv = invoice[i]
  BY ElementOfSeq DEF BillingIInv, BillingTypeOK
<1>3. PICK c \in Company : c = inv.company
  BY DEF InvoiceRow
<1>4. PICK old \in CompanyRow : old = company[c]
  BY DEF BillingIInv, BillingTypeOK
<1> DEFINE row == Renewed(old, inv)
<1>5. row.access /\ row.status = "ACTIVE"
  BY DEF Renewed, Active, CompanyRow
<1>6. /\ invoice' = [invoice EXCEPT ![i].status = "PAID", ![i].paid = TRUE]
      /\ company' = [company EXCEPT ![c] = row]
      /\ call' = [call EXCEPT ![p] = NoCall] /\ UNCHANGED <<now, job>>
  BY <1>1, <1>2, <1>3, <1>4 DEF PayCommit, EndCall
<1> HIDE DEF row
<1>7. company \in [Company -> CompanyRow]
  BY DEF BillingIInv, BillingTypeOK
<1>8. company'[c] = row /\ \A d \in Company : d # c => company'[d] = company[d]
  BY <1>6, <1>7
<1>9. PaysFor(c)
  <2>1. /\ i \in DOMAIN invoice' /\ invoice'[i].status = "PAID"
        /\ invoice'[i].company = c
    BY <1>2, <1>3, <1>6 DEF InvoiceRow
  <2>2. invoice[i].status = "OPEN"
    BY <1>1 DEF Open
  <2> QED BY <2>1, <2>2 DEF PaysFor
<1>10. ASSUME NEW d \in Company
       PROVE  /\ MayResume(d) => MayResume(d)'
              /\ Granted(d)
  <2>1. CASE d = c
    BY <2>1, <1>5, <1>8, <1>9 DEF MayResume, Granted
  <2>2. CASE d # c
    BY <2>2, <1>6, <1>8 DEF MayResume, Granted, HasAccess
  <2> QED BY <2>1, <2>2
<1>11. ResumesRead
  BY <1>6, CallChanged DEF NoCall
<1> QED BY <1>10, <1>11, ResumesKept DEF StepGranted

LEMMA ConfigureCommitGrants ==
  ASSUME BillingIInv, ResumesSound, NEW q \in Caller, ConfigureCommit(q)
  PROVE  StepGranted
<1>1. PICK r : r = call[q]
  OBVIOUS
<1>2. r \in [op : {"configure"}, company : Company, hadAccess : BOOLEAN, at : Nat,
             term : Nat, amount : Nat, auto : BOOLEAN]
  <2>1. r \in CallRow /\ r.op = "configure"
    BY <1>1 DEF ConfigureCommit, BillingIInv, BillingTypeOK, Process
  <2> QED BY <2>1, Shapes
<1>3. PICK c \in Company : c = r.company
  BY <1>2
<1>4. PICK old \in CompanyRow : old = company[c]
  BY DEF BillingIInv, BillingTypeOK
<1> DEFINE terms == [old EXCEPT !.term = r.term, !.amount = r.amount, !.auto = r.auto]
           end   == r.at + r.term
           paid  == [Active(terms) EXCEPT !.expires = end]
           bill  == [company |-> c, kind |-> "INITIAL", status |-> "PAID", amount |-> r.amount,
                     expires |-> end, end |-> end, key |-> 0, paid |-> TRUE]
<1>5. /\ terms.status = old.status /\ terms.access = old.access /\ terms.expires = old.expires
      /\ paid.access /\ paid.status = "ACTIVE" /\ bill.status = "PAID" /\ bill.company = c
  BY DEF CompanyRow, Active
<1>6. /\ \/ company' = [company EXCEPT ![c] = terms]
         \/ /\ company' = [company EXCEPT ![c] = paid]
            /\ invoice' = Append(invoice, bill)
      /\ call' = [call EXCEPT ![q] = NoCall] /\ UNCHANGED <<now, job>>
  BY <1>1, <1>3, <1>4 DEF ConfigureCommit, EndCall
<1> HIDE DEF terms, paid, bill
<1>7. company \in [Company -> CompanyRow] /\ q \in Process /\ now \in Nat
  BY DEF BillingIInv, BillingTypeOK, Process
<1>8. ResumesRead
  BY <1>6, <1>7, CallChanged DEF NoCall
<1>9. CASE company' = [company EXCEPT ![c] = terms]
  <2>1. \A d \in Company : SameAccess(d)
    BY <1>4, <1>5, <1>7, <1>9 DEF SameAccess
  <2> QED BY <1>6, <1>7, <1>8, <2>1, SameStep
<1>10. CASE company' = [company EXCEPT ![c] = paid] /\ invoice' = Append(invoice, bill)
  <2>1. company'[c] = paid /\ \A d \in Company : d # c => company'[d] = company[d]
    BY <1>7, <1>10
  <2>2. PaysFor(c)
    <3>1. invoice \in Seq(InvoiceRow)
      BY DEF BillingIInv, BillingTypeOK
    <3>2. /\ Len(invoice) + 1 \in DOMAIN invoice' /\ Len(invoice) + 1 \notin DOMAIN invoice
          /\ invoice'[Len(invoice) + 1] = bill
      BY <3>1, <1>10
    <3> QED BY <1>5, <3>2 DEF PaysFor
  <2>3. ASSUME NEW d \in Company
        PROVE  /\ MayResume(d) => MayResume(d)'
               /\ Granted(d)
    <3>1. CASE d = c
      BY <3>1, <1>5, <2>1, <2>2 DEF MayResume, Granted
    <3>2. CASE d # c
      BY <3>2, <1>6, <2>1 DEF MayResume, Granted, HasAccess
    <3> QED BY <3>1, <3>2
  <2> QED BY <1>8, <2>3, ResumesKept DEF StepGranted
<1> QED BY <1>6, <1>9, <1>10

\* The one step that can give access without a payment, and for which the others have to wait.
LEMMA StatusCommitGrants ==
  ASSUME BillingIInv, ResumesSound, OneCall, NEW q \in Caller, StatusCommit(q)
  PROVE  StepGranted
<1>1. PICK r : r = call[q]
  OBVIOUS
<1>2. r \in [op : {"suspend", "cancel", "resume"}, company : Company]
  <2>1. r \in CallRow /\ r.op \in {"suspend", "cancel", "resume"}
    BY <1>1 DEF StatusCommit, BillingIInv, BillingTypeOK, Process
  <2> QED BY <2>1, Shapes
<1>3. PICK c \in Company : c = r.company
  BY <1>2
<1>4. /\ company \in [Company -> CompanyRow] /\ q \in Process /\ now \in Nat
      /\ company[c].expires \in Nat /\ call \in [Process -> CallRow]
  BY DEF BillingIInv, BillingTypeOK, Process, CompanyRow
<1>5. /\ company'[c].access = (r.op = "resume") /\ company'[c].expires = company[c].expires
      /\ \A d \in Company : d # c => company'[d] = company[d]
      /\ call' = [call EXCEPT ![q] = NoCall] /\ UNCHANGED <<now, invoice, job>>
  BY <1>1, <1>3, <1>4 DEF StatusCommit, EndCall, CompanyRow
<1>6. ResumesSound'
  <2> SUFFICES ASSUME NEW x \in Caller PROVE call'[x].op # "resume"
    BY DEF ResumesSound
  <2>1. call[q] # NoCall
    BY <1>1, <1>2 DEF NoCall
  <2>2. CASE x = q
    BY <2>2, <1>4, <1>5 DEF NoCall
  <2>3. CASE x # q
    BY <2>1, <2>3, <1>4, <1>5 DEF OneCall, NoCall, Process
  <2> QED BY <2>2, <2>3
<1>7. Granted(c)
  <2>1. CASE r.op = "resume"
    <3>1. MayResume(c)
      BY <2>1, <1>1, <1>3 DEF ResumesSound
    <3> QED BY <3>1, <1>4, <1>5 DEF MayResume, Granted, HasAccess
  <2>2. CASE r.op # "resume"
    BY <2>2, <1>5 DEF Granted, HasAccess
  <2> QED BY <2>1, <2>2
<1>8. ASSUME NEW d \in Company, d # c PROVE Granted(d)
  BY <1>5, <1>8 DEF Granted, HasAccess
<1> QED BY <1>6, <1>7, <1>8 DEF StepGranted

LEMMA ExpireCompanyGrants ==
  ASSUME BillingIInv, ResumesSound, NEW c \in Company, ExpireCompany(c)
  PROVE  StepGranted
<1>1. company \in [Company -> CompanyRow]
  BY DEF BillingIInv, BillingTypeOK
<1>2. /\ ~company'[c].access /\ company'[c].expires = company[c].expires
      /\ company[c].expires <= now
      /\ \A d \in Company : d # c => company'[d] = company[d]
      /\ UNCHANGED <<now, call>>
  BY <1>1 DEF ExpireCompany, Lapsed, CompanyRow
<1>3. ASSUME NEW d \in Company
      PROVE  /\ MayResume(d) => MayResume(d)'
             /\ Granted(d)
  <2>1. CASE d = c
    BY <2>1, <1>2 DEF MayResume, Granted, HasAccess
  <2>2. CASE d # c
    BY <2>2, <1>2 DEF MayResume, Granted, HasAccess
  <2> QED BY <2>1, <2>2
<1>4. ResumesRead
  BY <1>2 DEF ResumesRead
<1> QED BY <1>3, <1>4, ResumesKept DEF StepGranted

LEMMA StepGrants ==
  BillingIInv /\ ResumesSound /\ OneCall /\ [BillingNext]_billingVars
    => StepGranted
<1> SUFFICES ASSUME BillingIInv, ResumesSound, OneCall, [BillingNext]_billingVars
             PROVE  StepGranted
  OBVIOUS
<1>0. Caller \subseteq Process /\ Cron \in Process /\ now \in Nat
  BY DEF Process, BillingIInv, BillingTypeOK
<1>1. ASSUME NEW q \in Caller, NEW i \in 1..MaxInvoice, PayRead(q, i) PROVE StepGranted
  BY <1>0, <1>1, CallStep DEF PayRead, StartCall
<1>2. ASSUME NEW p \in Process, PayCommit(p) PROVE StepGranted
  BY <1>2, PayCommitGrants
<1>3. ASSUME NEW q \in Caller, NEW c \in Company, RenewRead(q, c),
             UNCHANGED <<now, company, invoice, job>>
      PROVE  StepGranted
  BY <1>0, <1>3, CallStep DEF RenewRead, StartCall
<1>4. ASSUME NEW p \in Process, RenewCommit(p) PROVE StepGranted
  <2> DEFINE r == IF call[p].row.amount = 0 THEN [op |-> "pay", id |-> Len(invoice) + 1]
                  ELSE NoCall
  <2>1. call' = [call EXCEPT ![p] = r] /\ UNCHANGED <<now, company>>
    BY <1>4 DEF RenewCommit
  <2>2. r.op # "resume"
    BY DEF NoCall
  <2> HIDE DEF r
  <2> QED BY <2>1, <2>2, CallStep
<1>5. ASSUME NEW q \in Caller, NEW c \in Company, NEW term \in Term, NEW amount \in Amount,
             NEW auto \in BOOLEAN, ConfigureRead(q, c, term, amount, auto)
      PROVE  StepGranted
  BY <1>0, <1>5, CallStep DEF ConfigureRead, StartCall
<1>6. ASSUME NEW q \in Caller, ConfigureCommit(q) PROVE StepGranted
  BY <1>6, ConfigureCommitGrants
<1>7. ASSUME NEW q \in Caller, NEW c \in Company, NEW op \in {"suspend", "cancel", "resume"},
             StatusRead(q, c, op)
      PROVE  StepGranted
  <2> DEFINE r == [op |-> op, company |-> c]
  <2>1. call' = [call EXCEPT ![q] = r] /\ UNCHANGED <<now, company>>
    BY <1>7 DEF StatusRead, StartCall
  <2>2. r.op = "resume" => \E d \in Company : r.company = d /\ MayResume(d)
    BY <1>7 DEF StatusRead, MayChange, MayResume
  <2> HIDE DEF r
  <2> QED BY <1>0, <2>1, <2>2, CallStep
<1>8. ASSUME NEW q \in Caller, StatusCommit(q) PROVE StepGranted
  BY <1>8, StatusCommitGrants
<1>9. ASSUME NEW c \in Company, NEW auto \in BOOLEAN, SetAutoRenew(c, auto) PROVE StepGranted
  <2>1. company \in [Company -> CompanyRow]
    BY DEF BillingIInv, BillingTypeOK
  <2>2. \A d \in Company : SameAccess(d)
    BY <1>9, <2>1 DEF SetAutoRenew, SameAccess, CompanyRow
  <2>3. UNCHANGED <<now, call>>
    BY <1>9 DEF SetAutoRenew
  <2> QED BY <1>0, <2>2, <2>3, SameStep DEF ResumesRead
<1>10. ASSUME NEW i \in 1..MaxInvoice, CancelInvoice(i) \/ ExpireInvoice(i) PROVE StepGranted
  <2>1. UNCHANGED <<now, company, call>>
    BY <1>10 DEF CancelInvoice, ExpireInvoice
  <2> QED BY <1>0, <2>1, SameCompanies, SameStep DEF ResumesRead
<1>11. ASSUME NEW q \in Caller, NEW i \in 1..MaxInvoice, NEW later \in BOOLEAN,
              ExtendRead(q, i, later)
       PROVE  StepGranted
  BY <1>0, <1>11, CallStep DEF ExtendRead, StartCall
<1>12. ASSUME NEW q \in Caller, ExtendCommit(q) \/ FailCall(q) PROVE StepGranted
  BY <1>0, <1>12, CallStep DEF ExtendCommit, FailCall, EndCall, NoCall
<1>13. ASSUME NEW c \in Company, ExpireCompany(c) PROVE StepGranted
  BY <1>13, ExpireCompanyGrants
<1>14. ASSUME NEW c \in Company, JobRenew(c) PROVE StepGranted
  BY <1>0, <1>14, CallStep DEF JobRenew, RenewRead, StartCall
<1>15. CASE JobFails \/ JobSettled
  BY <1>0, <1>15, CallStep DEF JobFails, JobSettled, EndCall, NoCall
<1>16. CASE JobStart \/ (\E c \in Company : JobSkip(c)) \/ JobEnd \/ UNCHANGED billingVars
  <2>1. UNCHANGED <<now, company, call>>
    BY <1>16 DEF JobStart, JobSkip, JobEnd, billingVars
  <2> QED BY <1>0, <2>1, SameCompanies, SameStep DEF ResumesRead
<1>17. CASE Tick
  <2>1. UNCHANGED <<company, call>> /\ now' = now + 1
    BY <1>17 DEF Tick
  <2>2. now' \in Nat /\ now <= now'
    BY <1>0, <2>1
  <2> QED BY <2>1, <2>2, SameCompanies, SameStep DEF ResumesRead
<1> QED BY <1>1, <1>2, <1>3, <1>4, <1>5, <1>6, <1>7, <1>8, <1>9, <1>10, <1>11, <1>12,
           <1>13, <1>14, <1>15, <1>16, <1>17 DEF BillingNext

\* Access that a company lost comes back in a step that pays an invoice of the company, or at
\* the end of a suspension: never after a cancellation or an expiry, when requests come one by
\* one, for any number of companies and callers and whatever the jobs do between the read of a
\* request and its commit (resumeDirectSubscription, which writes the status by id alone).
THEOREM AccessComesBackPaid == BillingSpec /\ []OneCall => AccessIsPaidFor
<1>0. StepGranted => ResumesSound' /\ \A c \in Company : Granted(c)
  BY DEF StepGranted
<1>1. BillingInit => ResumesSound
  BY DEF BillingInit, ResumesSound, NoCall, Process
<1>2. (\A c \in Company : Granted(c)) =>
        [\A c \in Company :
           ~HasAccess(c) /\ HasAccess(c)'
             => PaysFor(c) \/ company[c].status = "SUSPENDED"]_billingVars
  BY DEF Granted
<1> QED BY <1>0, <1>1, <1>2, StepGrants, Invariant, PTL DEF BillingSpec, AccessIsPaidFor
=============================================================================
