------------------------------ MODULE Accounts ------------------------------
(***************************************************************************)
(* The user accounts of staff:                                             *)
(* backend/src/modules/staff/staff.service.ts, with withUserQuota of       *)
(* backend/src/common/subscriptions/subscription-entitlement.service.ts.   *)
(*                                                                         *)
(* An account is a row of the tenant's database (users, the membership)    *)
(* and one of the central database (company_users, which lets its owner    *)
(* in), under one id.  No transaction spans both.  Each write to either    *)
(* database is a step; if it fails, the handler goes to its catch block    *)
(* and undoes what it can.  Creation and activation run inside of a        *)
(* central transaction that holds the company's lock: what they write      *)
(* there is seen when it commits, after the tenant's writes.               *)
(*                                                                         *)
(* Left out: passwords and roles, written in both databases at once        *)
(* without a catch; staff details; the number of users, which the          *)
(* entitlements do not limit; who asks.  A write that fails is not         *)
(* applied.                                                                *)
(***************************************************************************)
EXTENDS FiniteSets

CONSTANTS
  Staff,      \* bound: the staff records that may be created
  AccountId,  \* bound: the account ids that may be drawn
  Email,      \* the addresses accounts may have
  Request,    \* bound: the requests in flight at one time
  None

ASSUME ConstantsOK ==
  /\ None \notin Staff \cup AccountId \cup Email
  /\ IsFiniteSet(Request)

VARIABLES
  staff,     \* staff records, with the account they are linked to
  user,      \* users of the tenant's database, by account id
  central,   \* company_users of the central database, by account id
  req,       \* requests between their steps
  lost,      \* history: a handler ended without its catch block, or failed to undo a write
  restored   \* history: the inactive accounts that a failed deletion made active

vars == <<staff, user, central, req, lost, restored>>

StaffRow == [row : {"NONE", "LIVE", "DELETED"}, user : AccountId \cup {None}]
AccountRow == [row : {"ROW"}, email : Email, active : BOOLEAN, deleted : BOOLEAN]

NoRow == [row |-> "NONE"]
Gone == [row |-> "GONE"]

\* create stands for createAccount and for createStaff with an account.
RequestRow ==
  [op : {"create", "delete", "activate", "deactivate", "email"},
   step : {"user", "link", "check", "commit", "revoke", "tenant", "central", "undo"},
   staff : Staff \cup {None}, account : AccountId \cup {None},
   email : Email \cup {None}, old : Email \cup {None}]

Idle == [op |-> "idle"]

TypeOK ==
  /\ staff \in [Staff -> StaffRow]
  /\ user \in [AccountId -> AccountRow \cup {NoRow, Gone}]
  /\ central \in [AccountId -> AccountRow \cup {NoRow}]
  /\ req \in [Request -> RequestRow \cup {Idle}]
  /\ lost \in BOOLEAN
  /\ restored \subseteq AccountId

NewRow(e) == [row |-> "ROW", email |-> e, active |-> TRUE, deleted |-> FALSE]
Exists(rows, u) == rows[u].row = "ROW"
\* A unique index, on rows of any status.
Taken(rows, e) == \E u \in AccountId : Exists(rows, u) /\ rows[u].email = e
Fresh(u) == user[u] = NoRow /\ central[u] = NoRow
Live(s) == staff[s].row = "LIVE"

Begin(q, op, step, s, u, e) ==
  /\ req[q] = Idle
  /\ req' = [req EXCEPT ![q] = [op |-> op, step |-> step, staff |-> s, account |-> u,
                                email |-> e, old |-> None]]
\* A handler of one step needs a slot too: with one Request, handlers run one by one.
Slot == (\E q \in Request : req[q] = Idle) /\ UNCHANGED req
At(q, op, step) == req[q] # Idle /\ req[q].op = op /\ req[q].step = step
Goto(q, step) == req' = [req EXCEPT ![q].step = step]
Finish(q) == req' = [req EXCEPT ![q] = Idle]

\* withUserQuota: pg_advisory_xact_lock, until the central transaction ends.
HoldsQuota(q) ==
  \/ \E step \in {"link", "check", "commit", "undo"} : At(q, "create", step)
  \/ \E step \in {"commit", "undo"} : At(q, "activate", step)
QuotaFree == \A q \in Request : ~HoldsQuota(q)

\* An address that was inserted and not committed yet: who wants it has to wait.
Pending(e) ==
  \E q \in Request : (At(q, "create", "check") \/ At(q, "create", "commit")) /\ req[q].email = e

Init ==
  /\ staff = [s \in Staff |-> [row |-> "NONE", user |-> None]]
  /\ user = [u \in AccountId |-> NoRow]
  /\ central = [u \in AccountId |-> NoRow]
  /\ req = [q \in Request |-> Idle]
  /\ lost = FALSE
  /\ restored = {}

-----------------------------------------------------------------------------
(* Creation.                                                               *)

\* createStaff without an account.
CreateStaff(s) ==
  /\ Slot
  /\ staff[s].row = "NONE"
  /\ staff' = [staff EXCEPT ![s].row = "LIVE"]
  /\ UNCHANGED <<user, central, lost, restored>>

\* createStaff with an account: the tenant's transaction writes the record, the user and the
\* link, inside of the central one.
CreateStaffWithAccount(q, s, u, e) ==
  /\ staff[s].row = "NONE" /\ Fresh(u)
  /\ QuotaFree /\ ~Taken(central, e) /\ ~Taken(user, e)
  /\ staff' = [staff EXCEPT ![s] = [row |-> "LIVE", user |-> u]]
  /\ user' = [user EXCEPT ![u] = NewRow(e)]
  /\ Begin(q, "create", "commit", s, u, e)
  /\ UNCHANGED <<central, lost, restored>>

\* createAccount reads the record before it takes the lock ...
CreateAccountRead(q, s, e) ==
  /\ Live(s) /\ staff[s].user = None
  /\ Begin(q, "create", "user", s, None, e)
  /\ UNCHANGED <<staff, user, central, lost, restored>>

\* Faulty variant: the central row is written at once and not in the transaction.
FaultyCreateAccountUser(q, u) ==
  /\ At(q, "create", "user")
  /\ QuotaFree /\ Fresh(u)
  /\ ~Taken(central, req[q].email) /\ ~Taken(user, req[q].email)
  /\ user' = [user EXCEPT ![u] = NewRow(req[q].email)]
  /\ central' = [central EXCEPT ![u] = NewRow(req[q].email)]
  /\ req' = [req EXCEPT ![q].step = "link", ![q].account = u]
  /\ UNCHANGED <<staff, lost, restored>>

\* ... creates the user under it ...
CreateAccountUser(q, u) ==
  /\ At(q, "create", "user")
  /\ QuotaFree /\ Fresh(u)
  /\ ~Taken(central, req[q].email) /\ ~Taken(user, req[q].email)
  /\ user' = [user EXCEPT ![u] = NewRow(req[q].email)]
  /\ req' = [req EXCEPT ![q].step = "link", ![q].account = u]
  /\ UNCHANGED <<staff, central, lost, restored>>

\* ... inserts the central row, which nobody sees yet, links the record, whatever it is by now ...
CreateAccountLink(q) ==
  /\ At(q, "create", "link")
  /\ ~Taken(central, req[q].email)
  /\ staff' = [staff EXCEPT ![req[q].staff].user = req[q].account]
  /\ Goto(q, "check")
  /\ UNCHANGED <<user, central, lost, restored>>

\* ... reads the record again, which was deleted if it is not found: no catch block runs, and
\* the user and the link stay ...
CreateAccountCheck(q) ==
  /\ At(q, "create", "check")
  /\ \/ /\ Live(req[q].staff)
        /\ Goto(q, "commit")
        /\ UNCHANGED lost
     \/ /\ ~Live(req[q].staff)
        /\ Finish(q)
        /\ lost' = TRUE
  /\ UNCHANGED <<staff, user, central, restored>>

\* ... and the central transaction commits.
CreateCommit(q) ==
  /\ At(q, "create", "commit")
  /\ central' = [central EXCEPT ![req[q].account] = NewRow(req[q].email)]
  /\ Finish(q)
  /\ UNCHANGED <<staff, user, lost, restored>>

\* Faulty variant: the user stays.
FaultyCreateUndo(q) ==
  /\ At(q, "create", "undo")
  /\ Finish(q)
  /\ UNCHANGED <<staff, user, central, lost, restored>>

\* The catch block deletes the user, and its foreign key the link.
CreateUndo(q) ==
  LET u == req[q].account IN
  /\ At(q, "create", "undo")
  /\ user' = [user EXCEPT ![u] = Gone]
  /\ staff' = [s \in Staff |-> IF staff[s].user = u THEN [staff[s] EXCEPT !.user = None]
                               ELSE staff[s]]
  /\ Finish(q)
  /\ UNCHANGED <<central, lost, restored>>

-----------------------------------------------------------------------------
(* Deletion of a staff record.                                             *)

DeleteStaffRead(q, s) ==
  /\ Live(s)
  /\ Begin(q, "delete", IF staff[s].user = None THEN "tenant" ELSE "revoke",
           s, staff[s].user, None)
  /\ UNCHANGED <<staff, user, central, lost, restored>>

\* Faulty variant: the central account stays as it is.
FaultyDeleteStaffRevoke(q) ==
  /\ At(q, "delete", "revoke")
  /\ Goto(q, "tenant")
  /\ UNCHANGED <<staff, user, central, lost, restored>>

\* "Revoke central authorization FIRST".
DeleteStaffRevoke(q) ==
  /\ At(q, "delete", "revoke") /\ Exists(central, req[q].account)
  /\ central' = [central EXCEPT ![req[q].account] = [@ EXCEPT !.active = FALSE, !.deleted = TRUE]]
  /\ Goto(q, "tenant")
  /\ UNCHANGED <<staff, user, lost, restored>>

\* The tenant's transaction: the record and, if it was read with one, its user.
DeleteStaffTenant(q) ==
  LET u == req[q].account IN
  /\ At(q, "delete", "tenant")
  /\ u # None => Exists(user, u)
  /\ staff' = [staff EXCEPT ![req[q].staff].row = "DELETED"]
  /\ user' = IF u = None THEN user
             ELSE [user EXCEPT ![u] = [@ EXCEPT !.active = FALSE, !.deleted = TRUE]]
  /\ Finish(q)
  /\ UNCHANGED <<central, lost, restored>>

\* The catch block makes the central account active, whether it was or not.
DeleteStaffUndo(q) ==
  LET u == req[q].account IN
  /\ At(q, "delete", "undo")
  /\ central' = [central EXCEPT ![u] = [@ EXCEPT !.active = TRUE, !.deleted = FALSE]]
  /\ restored' = IF Exists(user, u) /\ user[u].active THEN restored ELSE restored \cup {u}
  /\ Finish(q)
  /\ UNCHANGED <<staff, user, lost>>

-----------------------------------------------------------------------------
(* Activation, deactivation and the address.                               *)

HasAccount(s) == Live(s) /\ staff[s].user # None
IsActive(s) == Exists(user, staff[s].user) /\ user[staff[s].user].active

\* setAccountStatus does nothing for a user that already has the status.
ActivateRead(q, s) ==
  /\ HasAccount(s) /\ ~IsActive(s)
  /\ Begin(q, "activate", "user", s, staff[s].user, None)
  /\ UNCHANGED <<staff, user, central, lost, restored>>

\* Membership first, under the lock.
ActivateUser(q) ==
  /\ At(q, "activate", "user")
  /\ QuotaFree /\ Exists(user, req[q].account)
  /\ user' = [user EXCEPT ![req[q].account] = [@ EXCEPT !.active = TRUE]]
  /\ Goto(q, "commit")
  /\ UNCHANGED <<staff, central, lost, restored>>

\* The central row is updated and the transaction commits.
ActivateCommit(q) ==
  /\ At(q, "activate", "commit") /\ Exists(central, req[q].account)
  /\ central' = [central EXCEPT ![req[q].account] = [@ EXCEPT !.active = TRUE]]
  /\ Finish(q)
  /\ UNCHANGED <<staff, user, lost, restored>>

ActivateUndo(q) ==
  /\ At(q, "activate", "undo") /\ Exists(user, req[q].account)
  /\ user' = [user EXCEPT ![req[q].account] = [@ EXCEPT !.active = FALSE]]
  /\ Finish(q)
  /\ UNCHANGED <<staff, central, lost, restored>>

DeactivateRead(q, s) ==
  /\ HasAccount(s) /\ IsActive(s)
  /\ Begin(q, "deactivate", "revoke", s, staff[s].user, None)
  /\ UNCHANGED <<staff, user, central, lost, restored>>

\* "revoke central authorization first so the user is locked out even if the tenant write fails".
DeactivateRevoke(q) ==
  /\ At(q, "deactivate", "revoke") /\ Exists(central, req[q].account)
  /\ central' = [central EXCEPT ![req[q].account] = [@ EXCEPT !.active = FALSE]]
  /\ Goto(q, "user")
  /\ UNCHANGED <<staff, user, lost, restored>>

DeactivateUser(q) ==
  /\ At(q, "deactivate", "user") /\ Exists(user, req[q].account)
  /\ user' = [user EXCEPT ![req[q].account] = [@ EXCEPT !.active = FALSE]]
  /\ Finish(q)
  /\ UNCHANGED <<staff, central, lost, restored>>

DeactivateUndo(q) ==
  /\ At(q, "deactivate", "undo")
  /\ central' = [central EXCEPT ![req[q].account] = [@ EXCEPT !.active = TRUE]]
  /\ Finish(q)
  /\ UNCHANGED <<staff, user, lost, restored>>

\* Faulty variant: the user is not read with the staff record.
FaultyEmailRead(q, s, e) ==
  /\ HasAccount(s)
  /\ \A u \in AccountId \ {staff[s].user} : ~(Exists(central, u) /\ central[u].email = e)
  /\ Begin(q, "email", "central", s, staff[s].user, e)
  /\ UNCHANGED <<staff, user, central, lost, restored>>

\* updateAccountEmail: the address to go back to is the one of the user it read.
EmailRead(q, s, e) ==
  /\ HasAccount(s) /\ Exists(user, staff[s].user)
  /\ \A u \in AccountId \ {staff[s].user} : ~(Exists(central, u) /\ central[u].email = e)
  /\ req[q] = Idle
  /\ req' = [req EXCEPT ![q] =
               [op |-> "email", step |-> "central", staff |-> s, account |-> staff[s].user,
                email |-> e, old |-> user[staff[s].user].email]]
  /\ UNCHANGED <<staff, user, central, lost, restored>>

\* The unique index holds, of committed rows and of those that wait for their commit.
Free(rows, u, e) == \A v \in AccountId \ {u} : ~(Exists(rows, v) /\ rows[v].email = e)

EmailCentral(q) ==
  LET u == req[q].account
      e == req[q].email
  IN
  /\ At(q, "email", "central") /\ Exists(central, u)
  /\ Free(central, u, e) /\ ~Pending(e)
  /\ central' = [central EXCEPT ![u] = [@ EXCEPT !.email = e]]
  /\ Goto(q, "user")
  /\ UNCHANGED <<staff, user, lost, restored>>

EmailUser(q) ==
  LET u == req[q].account IN
  /\ At(q, "email", "user") /\ Exists(user, u)
  /\ Free(user, u, req[q].email)
  /\ user' = [user EXCEPT ![u] = [@ EXCEPT !.email = req[q].email]]
  /\ Finish(q)
  /\ UNCHANGED <<staff, central, lost, restored>>

EmailUndo(q) ==
  LET u == req[q].account IN
  /\ At(q, "email", "undo")
  /\ Free(central, u, req[q].old) /\ ~Pending(req[q].old)
  /\ central' = [central EXCEPT ![u] = [@ EXCEPT !.email = req[q].old]]
  /\ Finish(q)
  /\ UNCHANGED <<staff, user, lost, restored>>

-----------------------------------------------------------------------------
(* Failures.                                                               *)

\* The steps that have a catch block.
Caught(q) ==
  \/ At(q, "create", "link")
  \/ At(q, "delete", "tenant") /\ req[q].account # None
  \/ At(q, "activate", "commit")
  \/ At(q, "deactivate", "user")
  \/ At(q, "email", "user")

\* A statement is refused or fails: by a unique index, a row that is gone, the connection.
Fail(q) ==
  /\ req[q] # Idle /\ ~At(q, "create", "check") /\ ~At(q, "create", "commit")
  /\ IF Caught(q) THEN Goto(q, "undo") ELSE Finish(q)
  /\ lost' = (lost \/ req[q].step = "undo")
  /\ UNCHANGED <<staff, user, central, restored>>

\* The server dies, the record cannot be read again, or the central transaction does not
\* commit: no catch block runs, and what the handler wrote to the tenant's database stays.
Cut(q) ==
  /\ req[q] # Idle
  /\ Finish(q)
  /\ lost' = TRUE
  /\ UNCHANGED <<staff, user, central, restored>>

Next ==
  \/ \E s \in Staff : CreateStaff(s)
  \/ \E q \in Request :
       \/ \E s \in Staff, u \in AccountId, e \in Email : CreateStaffWithAccount(q, s, u, e)
       \/ \E s \in Staff, e \in Email : CreateAccountRead(q, s, e)
       \/ \E u \in AccountId : CreateAccountUser(q, u)
       \/ CreateAccountLink(q)
       \/ CreateAccountCheck(q)
       \/ CreateCommit(q)
       \/ CreateUndo(q)
       \/ \E s \in Staff : DeleteStaffRead(q, s)
       \/ DeleteStaffRevoke(q)
       \/ DeleteStaffTenant(q)
       \/ DeleteStaffUndo(q)
       \/ \E s \in Staff : ActivateRead(q, s)
       \/ ActivateUser(q)
       \/ ActivateCommit(q)
       \/ ActivateUndo(q)
       \/ \E s \in Staff : DeactivateRead(q, s)
       \/ DeactivateRevoke(q)
       \/ DeactivateUser(q)
       \/ DeactivateUndo(q)
       \/ \E s \in Staff, e \in Email : EmailRead(q, s, e)
       \/ EmailCentral(q)
       \/ EmailUser(q)
       \/ EmailUndo(q)
       \/ Fail(q)
       \/ Cut(q)

Spec == Init /\ [][Next]_vars

-----------------------------------------------------------------------------
(* Properties.                                                             *)

\* JwtAuthGuard lets the account in.
Authorized(u) == Exists(central, u) /\ central[u].active /\ ~central[u].deleted

Member(u) == Exists(user, u) /\ user[u].active /\ ~user[u].deleted

\* A central account has its row in the tenant's database, whatever fails and whatever
\* interleaves: "the central record references the same id so central authorization is never
\* granted to a user lacking tenant membership" (createAccount).
AccountsBelong == \A u \in AccountId : Exists(central, u) => Exists(user, u)

\* "the user can never remain authenticated without tenant membership if a later write
\* fails" (deleteStaff): who is let in is an active member, but for accounts that a failed
\* deletion made active, and has a staff record, from which the account can be taken away.
AccessIsHeld ==
  \A u \in AccountId : Authorized(u) =>
    /\ Member(u) \/ u \in restored
    /\ \E s \in Staff : Live(s) /\ staff[s].user = u

\* What a handler wrote before a write that failed is undone: as long as every catch block
\* did its work, both databases have the same accounts, with the same address and status
\* ("keep central authorization and tenant membership in sync").
FailuresUndone ==
  ~lost /\ (\A q \in Request : req[q] = Idle) =>
    \A u \in AccountId \ restored :
      IF Exists(user, u) THEN central[u] = user[u] ELSE ~Exists(central, u)
=============================================================================
