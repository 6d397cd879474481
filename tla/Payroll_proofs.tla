-------------------------- MODULE Payroll_proofs --------------------------
(***************************************************************************)
(* For any number of runs, periods, sheets and concurrent requests: a      *)
(* period has one live payroll run, by the advisory lock alone; payments   *)
(* and approvals are about the items of the moment, by their ids; and what *)
(* requests that run one by one may rely on.                               *)
(***************************************************************************)
EXTENDS MCPayroll, Sums

Fields == {"period", "deleted", "status", "approvedBy", "gen", "totals", "items"}

\* As much of the types as the argument needs.
Shape ==
  /\ DOMAIN run \subseteq RunId /\ \A r \in DOMAIN run : DOMAIN run[r] = Fields
  /\ DOMAIN req = Request
  /\ \A q \in Request :
       /\ req[q].op # "idle" => Exists(req[q].id)
       /\ req[q].op = "update" => DOMAIN req[q] = {"op", "id", "period", "sheet", "old"}

IInv == Shape /\ OneRunPerPeriod /\ LockHolderAlone

Holds(q) == req[q].op = "update" /\ req[q].old # None

-----------------------------------------------------------------------------
(* Steps that add no live run, move none and take no lock.                 *)

Quiet ==
  /\ \A r \in RunId : Live(r)' => Live(r) /\ run'[r].period = run[r].period
  /\ \A q \in Request : Holds(q)' =>
       Holds(q) /\ req'[q].id = req[q].id /\ req'[q].period = req[q].period

LEMMA QuietKeeps ==
  ASSUME OneRunPerPeriod, LockHolderAlone, Quiet
  PROVE  OneRunPerPeriod' /\ LockHolderAlone'
<1>1. OneRunPerPeriod'
  BY DEF OneRunPerPeriod, Quiet
<1>2. LockHolderAlone'
  <2> SUFFICES ASSUME NEW q \in Request, Holds(q)'
               PROVE  /\ Duplicates(req[q].period, req[q].id)' = {}
                      /\ \A o \in Request \ {q} : ~(Holds(o) /\ req[o].period = req[q].period)'
    BY DEF LockHolderAlone, Holds
  <2>1. Holds(q) /\ req'[q].id = req[q].id /\ req'[q].period = req[q].period
    BY DEF Quiet
  <2>2. Duplicates(req[q].period, req[q].id) = {}
    BY <2>1 DEF LockHolderAlone, Holds
  <2>3. Duplicates(req[q].period, req[q].id)' = {}
    BY <2>1, <2>2 DEF Duplicates, Quiet
  <2>4. \A o \in Request \ {q} : ~(Holds(o) /\ req[o].period = req[q].period)'
    <3> SUFFICES ASSUME NEW o \in Request \ {q}, Holds(o)', req'[o].period = req'[q].period
                 PROVE  FALSE
      OBVIOUS
    <3>1. Holds(o) /\ req'[o].period = req[o].period
      BY DEF Quiet
    <3> QED BY <2>1, <3>1 DEF LockHolderAlone, Holds
  <2> QED BY <2>3, <2>4
<1> QED BY <1>1, <1>2

-----------------------------------------------------------------------------
(* The three steps that matter.                                            *)

LEMMA CreateKeeps ==
  ASSUME IInv, NEW r \in RunId, NEW p \in Period, NEW sheet \in Sheet, Create(r, p, sheet)
  PROVE  IInv'
<1> DEFINE new == NewRun(p, sheet)
<1>0. new.period = p /\ new.deleted = FALSE /\ DOMAIN new = Fields
  BY DEF NewRun, Fields
<1> HIDE DEF new
<1>1. /\ run' = [s \in DOMAIN run \cup {r} |-> IF s = r THEN new ELSE run[s]] /\ UNCHANGED req
      /\ PeriodFree(p) /\ Duplicates(p, r) = {}
  BY DEF Create, Slot, new
<1>2. /\ DOMAIN run' = DOMAIN run \cup {r}
      /\ \A s \in DOMAIN run' : run'[s] = IF s = r THEN new ELSE run[s]
  BY <1>1
<1>3. Shape'
  BY <1>0, <1>1, <1>2 DEF IInv, Shape, Exists
<1>4. OneRunPerPeriod'
  BY <1>0, <1>1, <1>2 DEF IInv, OneRunPerPeriod, Duplicates, Live, Exists
<1>5. LockHolderAlone'
  <2> SUFFICES ASSUME NEW q \in Request, Holds(q)
               PROVE  /\ Duplicates(req[q].period, req[q].id)' = {}
                      /\ \A o \in Request \ {q} : ~(Holds(o) /\ req[o].period = req[q].period)
    BY <1>1 DEF LockHolderAlone, Holds
  <2>1. req[q].period # p
    BY <1>1 DEF PeriodFree, Holds
  <2>2. Duplicates(req[q].period, req[q].id) = {}
    BY DEF IInv, LockHolderAlone, Holds
  <2>3. Duplicates(req[q].period, req[q].id)' = {}
    BY <1>0, <1>1, <1>2, <2>1, <2>2 DEF Duplicates, Live, Exists
  <2> QED BY <2>3 DEF IInv, LockHolderAlone, Holds
<1> QED BY <1>3, <1>4, <1>5 DEF IInv

LEMMA UpdateLockKeeps ==
  ASSUME IInv, NEW q \in Request, UpdateLock(q)
  PROVE  IInv'
<1> DEFINE seen == {i.gen : i \in run[req[q].id].items}
<1>1. /\ req' = [req EXCEPT ![q].old = seen] /\ UNCHANGED run /\ req[q].op = "update"
      /\ PeriodFree(req[q].period) /\ Duplicates(req[q].period, req[q].id) = {}
  BY DEF UpdateLock
<1> HIDE DEF seen
<1>2. /\ DOMAIN req' = Request
      /\ \A o \in Request : o # q => req'[o] = req[o]
      /\ req'[q] = [req[q] EXCEPT !.old = seen]
  BY <1>1 DEF IInv, Shape
<1>3. /\ DOMAIN req'[q] = {"op", "id", "period", "sheet", "old"}
      /\ req'[q].op = "update" /\ req'[q].id = req[q].id /\ req'[q].period = req[q].period
      /\ Exists(req[q].id)
  BY <1>1, <1>2 DEF IInv, Shape
<1>4. Shape'
  BY <1>1, <1>2, <1>3 DEF IInv, Shape, Exists
<1>5. OneRunPerPeriod'
  BY <1>1 DEF IInv, OneRunPerPeriod, Live, Exists
<1>6. ASSUME NEW o \in Request, Holds(o)'
      PROVE  Duplicates(req[o].period, req[o].id)' = {}
  <2>1. CASE o = q
    BY <1>1, <1>3, <2>1 DEF Duplicates, Live, Exists
  <2>2. CASE o # q
    BY <1>1, <1>2, <1>6, <2>2 DEF IInv, LockHolderAlone, Holds, Duplicates, Live, Exists
  <2> QED BY <2>1, <2>2
<1>7. ASSUME NEW o \in Request, NEW l \in Request \ {o}, Holds(o)', Holds(l)'
      PROVE  req'[l].period # req'[o].period
  <2>1. CASE o = q
    BY <1>1, <1>2, <1>3, <1>7, <2>1 DEF PeriodFree, Holds
  <2>2. CASE l = q
    BY <1>1, <1>2, <1>3, <1>7, <2>2 DEF PeriodFree, Holds
  <2>3. CASE o # q /\ l # q
    BY <1>2, <1>7, <2>3 DEF IInv, LockHolderAlone, Holds
  <2> QED BY <2>1, <2>2, <2>3
<1>8. LockHolderAlone'
  BY <1>6, <1>7 DEF LockHolderAlone, Holds
<1> QED BY <1>4, <1>5, <1>8 DEF IInv

\* The commit of an edit moves one run to the period whose lock it holds.
LEMMA UpdateCommitKeeps ==
  ASSUME IInv, NEW q \in Request, UpdateCommit(q)
  PROVE  IInv'
<1> DEFINE r == req[q].id
           row == run'[r]
<1>1. Holds(q) /\ r \in DOMAIN run /\ r \in RunId /\ DOMAIN run[r] = Fields
  BY DEF UpdateCommit, Holds, Exists, IInv, Shape
<1>2. /\ DOMAIN run' = DOMAIN run /\ DOMAIN row = Fields /\ row.period = req[q].period
      /\ \A s \in DOMAIN run : s # r => run'[s] = run[s]
  BY <1>1 DEF UpdateCommit, IInv, Shape, Fields
<1>3. /\ DOMAIN req' = Request /\ req'[q] = Idle /\ Idle.op = "idle"
      /\ \A o \in Request : o # q => req'[o] = req[o]
  BY DEF UpdateCommit, Finish, Idle, IInv, Shape
<1>4. Duplicates(req[q].period, r) = {}
  BY <1>1 DEF IInv, LockHolderAlone, Holds
<1> HIDE DEF row, r
<1>5. \A s \in RunId : s # r /\ Live(s)' => Live(s) /\ run'[s] = run[s]
  BY <1>2 DEF Live, Exists
<1>6. Shape'
  <2>1. \A s \in DOMAIN run' : DOMAIN run'[s] = Fields
    BY <1>2 DEF row, IInv, Shape
  <2>2. \A o \in Request :
          /\ req'[o].op # "idle" => Exists(req[o].id)'
          /\ req'[o].op = "update" => DOMAIN req'[o] = {"op", "id", "period", "sheet", "old"}
    BY <1>2, <1>3 DEF IInv, Shape, Exists
  <2> QED BY <1>2, <1>3, <2>1, <2>2 DEF IInv, Shape
<1>7. OneRunPerPeriod'
  <2> SUFFICES ASSUME NEW s \in RunId, NEW t \in RunId, Live(s)', Live(t)',
                      run'[s].period = run'[t].period, s # t
               PROVE  FALSE
    BY DEF OneRunPerPeriod
  <2>1. CASE s # r /\ t # r
    BY <1>2, <1>5, <2>1 DEF IInv, OneRunPerPeriod
  <2>2. CASE s = r
    BY <1>2, <1>4, <1>5, <2>2 DEF row, Duplicates
  <2>3. CASE t = r
    BY <1>2, <1>4, <1>5, <2>3 DEF row, Duplicates
  <2> QED BY <2>1, <2>2, <2>3
<1>8. LockHolderAlone'
  <2> SUFFICES ASSUME NEW o \in Request, Holds(o)'
               PROVE  /\ Duplicates(req[o].period, req[o].id)' = {}
                      /\ \A l \in Request \ {o} : ~(Holds(l) /\ req[l].period = req[o].period)'
    BY DEF LockHolderAlone, Holds
  <2>1. o # q /\ Holds(o) /\ req'[o] = req[o]
    BY <1>3 DEF Holds
  <2>2. req[o].period # req[q].period /\ Duplicates(req[o].period, req[o].id) = {}
    BY <1>1, <2>1 DEF IInv, LockHolderAlone, Holds
  <2>3. Duplicates(req[o].period, req[o].id)' = {}
    BY <1>2, <1>5, <2>1, <2>2 DEF row, Duplicates
  <2>4. \A l \in Request \ {o} : ~(Holds(l) /\ req[l].period = req[o].period)'
    BY <1>3, <2>1 DEF IInv, LockHolderAlone, Holds
  <2> QED BY <2>3, <2>4
<1> QED BY <1>6, <1>7, <1>8 DEF IInv

-----------------------------------------------------------------------------
(* Every step.                                                             *)

\* The other steps are quiet; they keep the shapes, too.
LEMMA OthersKeep ==
  ASSUME IInv, NEW q \in Request,
         \/ \E r \in RunId, p \in Period, sheet \in Sheet : UpdateRead(q, r, p, sheet)
         \/ \E r \in RunId : DeleteRead(q, r)
         \/ DeleteCommit(q)
         \/ \E r \in RunId, op \in {"transition", "approve", "pay"}, action \in Action,
               u \in User : TransitionRead(q, r, op, action, u)
         \/ TransitionCommit(q)
         \/ Abort(q)
  PROVE  IInv'
<1>1. ASSUME UNCHANGED run, DOMAIN req' = Request,
             \A o \in Request : o # q => req'[o] = req[o],
             req'[q].op # "idle" => Exists(req'[q].id),
             req'[q].op = "update" =>
               DOMAIN req'[q] = {"op", "id", "period", "sheet", "old"} /\ req'[q].old = None
      PROVE  IInv'
  <2>1. Shape'
    BY <1>1 DEF IInv, Shape, Exists
  <2>2. Quiet
    BY <1>1 DEF Quiet, Holds, Live, Exists
  <2> QED BY <2>1, <2>2, QuietKeeps DEF IInv
<1>2. ASSUME NEW r \in RunId, NEW p \in Period, NEW sheet \in Sheet, UpdateRead(q, r, p, sheet)
      PROVE  IInv'
  BY <1>1, <1>2 DEF UpdateRead, Begin, Exists, IInv, Shape
<1>3. ASSUME NEW r \in RunId, DeleteRead(q, r)
      PROVE  IInv'
  BY <1>1, <1>3 DEF DeleteRead, Begin, Exists, IInv, Shape
<1>4. ASSUME NEW r \in RunId, NEW op \in {"transition", "approve", "pay"},
             NEW action \in Action, NEW u \in User, TransitionRead(q, r, op, action, u)
      PROVE  IInv'
  BY <1>1, <1>4 DEF TransitionRead, Begin, Live, Exists, IInv, Shape
<1>5. CASE Abort(q)
  BY <1>1, <1>5 DEF Abort, Finish, Idle, IInv, Shape
<1>6. ASSUME Exists(req[q].id), DOMAIN run' = DOMAIN run, req' = [req EXCEPT ![q] = Idle],
             DOMAIN run'[req[q].id] = Fields,
             run'[req[q].id].deleted \in {TRUE, run[req[q].id].deleted},
             run'[req[q].id].period = run[req[q].id].period,
             \A r \in DOMAIN run : r # req[q].id => run'[r] = run[r]
      PROVE  IInv'
  <2>1. /\ DOMAIN req' = Request /\ req'[q].op = "idle"
        /\ \A o \in Request : o # q => req'[o] = req[o]
    BY <1>6 DEF Idle, IInv, Shape
  <2>2. Shape'
    BY <1>6, <2>1 DEF IInv, Shape, Exists
  <2>3. \A r \in RunId : Live(r)' => Live(r) /\ run'[r].period = run[r].period
    BY <1>6 DEF Live, Exists
  <2>4. Quiet
    BY <2>1, <2>3 DEF Quiet, Holds
  <2> QED BY <2>2, <2>4, QuietKeeps DEF IInv
<1>7. CASE DeleteCommit(q)
  <2>1. run' = [run EXCEPT ![req[q].id].deleted = TRUE] /\ Exists(req[q].id)
    BY <1>7 DEF DeleteCommit, IInv, Shape
  <2> QED BY <1>6, <1>7, <2>1 DEF DeleteCommit, Finish, Exists, Fields, IInv, Shape
<1>8. CASE TransitionCommit(q)
  <2>1. Exists(req[q].id) /\ DOMAIN run[req[q].id] = Fields
    BY <1>8 DEF TransitionCommit, IInv, Shape, Exists
  <2>2. /\ DOMAIN run' = DOMAIN run /\ DOMAIN run'[req[q].id] = Fields
        /\ run'[req[q].id].deleted = run[req[q].id].deleted
        /\ run'[req[q].id].period = run[req[q].id].period
        /\ \A r \in DOMAIN run : r # req[q].id => run'[r] = run[r]
    BY <1>8, <2>1 DEF TransitionCommit, Exists, Fields
  <2> QED BY <1>6, <1>8, <2>1, <2>2 DEF TransitionCommit, Finish
<1> QED BY <1>2, <1>3, <1>4, <1>5, <1>7, <1>8

LEMMA InitIInv == Init => IInv
  BY DEF Init, IInv, Shape, OneRunPerPeriod, LockHolderAlone, Live, Exists, Idle

LEMMA NextIInv == IInv /\ [Next]_vars => IInv'
<1> SUFFICES ASSUME IInv, [Next]_vars PROVE IInv'
  OBVIOUS
<1>1. CASE UNCHANGED vars
  BY <1>1 DEF vars, IInv, Shape, OneRunPerPeriod, LockHolderAlone, Duplicates, Live, Exists
<1>2. CASE Next
  BY <1>2, CreateKeeps, UpdateLockKeeps, UpdateCommitKeeps, OthersKeep DEF Next
<1> QED BY <1>1, <1>2

\* createPayroll and updatePayroll, run by any number of requests at once, leave a
\* period with one live run: the advisory lock orders their checks and their writes.
THEOREM OneRun == Spec => []OneRunPerPeriod
<1>1. IInv => OneRunPerPeriod
  BY DEF IInv
<1> QED BY InitIInv, NextIInv, <1>1, PTL DEF Spec

\* An edit past its duplicate check still has no rival when it commits.
THEOREM LockHolds == Spec => []LockHolderAlone
<1>1. IInv => LockHolderAlone
  BY DEF IInv
<1> QED BY InitIInv, NextIInv, <1>1, PTL DEF Spec

-----------------------------------------------------------------------------
(* Types.                                                                  *)

\* approvePayroll and processPayrollPayment do what their names say.
Kinds ==
  \A q \in Request : req[q].op \in {"approve", "pay"} => req[q].action = req[q].op

Typed == TypeOK /\ Kinds

KindOK(q) == q.op \in {"approve", "pay"} => q.action = q.op

Moves == {"transition", "approve", "pay"}

\* A request of each kind is what RequestOK says of that kind.
LEMMA RequestKinds ==
  ASSUME TypeOK, NEW q \in Request
  PROVE  /\ req[q].op = "update" =>
              /\ req[q].sheet \in Sheet /\ req[q].period \in Period
              /\ Exists(req[q].id) /\ req[q].old \in {None} \cup SUBSET (0..MaxGen)
         /\ req[q].op = "delete" => Exists(req[q].id)
         /\ req[q].op \in Moves =>
              /\ req[q].action \in Action /\ req[q].user \in User
              /\ Exists(req[q].id) /\ RunRow(req[q].seen)
  BY DEF TypeOK, RequestOK, Idle, Moves

\* Steps that keep the tables, but for one request.
LEMMA RequestTyped ==
  ASSUME Typed, NEW q \in Request, UNCHANGED <<run, cash, ledger, payments>>,
         DOMAIN req' = Request, \A o \in Request : o # q => req'[o] = req[o],
         RequestOK(req'[q]), KindOK(req'[q])
  PROVE  Typed'
  BY DEF Typed, TypeOK, Kinds, KindOK, RequestOK, Exists

\* Steps that end a request and write one run.
LEMMA RunTyped ==
  ASSUME Typed, NEW q \in Request, Finish(q), NEW r \in DOMAIN run,
         DOMAIN run' = DOMAIN run, \A s \in DOMAIN run : s # r => run'[s] = run[s],
         RunRow(run'[r]), DOMAIN cash' = RunId, DOMAIN ledger' = RunId,
         payments' \in [RunId -> 0..2]
  PROVE  Typed'
<1>1. /\ DOMAIN req' = Request /\ req'[q] = Idle
      /\ \A o \in Request : o # q => req'[o] = req[o]
  BY DEF Finish, Typed, TypeOK
<1>2. \A o \in Request : RequestOK(req[o])'
  BY <1>1 DEF Typed, TypeOK, RequestOK, Exists
<1>3. Kinds'
  BY <1>1 DEF Typed, Kinds, Idle
<1> QED BY <1>1, <1>2, <1>3 DEF Typed, TypeOK

LEMMA CreateTyped ==
  ASSUME Typed, NEW r \in RunId, NEW p \in Period, NEW sheet \in Sheet, Create(r, p, sheet)
  PROVE  Typed'
<1> DEFINE new == NewRun(p, sheet)
<1>1. RunRow(new)
  <2>1. ItemsRow(NewItems(0, sheet)) /\ NewItems(0, sheet).gen = 0
    BY ConstantsOK DEF NewItems, ItemsRow, Status
  <2>2. /\ DOMAIN new = Fields /\ new.period = p /\ new.deleted = FALSE /\ new.status = "DRAFT"
        /\ new.approvedBy = None /\ new.gen = 0 /\ new.items = {NewItems(0, sheet)}
    BY DEF NewRun, Fields
  <2>3. \A i \in new.items : ItemsRow(i) /\ i.gen <= new.gen
    BY <2>1, <2>2
  <2>4. None \in User \cup {None} /\ 0 \in 0..MaxGen /\ "DRAFT" \in Status
    BY ConstantsOK DEF Status
  <2> HIDE DEF new
  <2> QED BY <2>2, <2>3, <2>4 DEF RunRow, Fields
<1> HIDE DEF new
<1>2. /\ run' = [s \in DOMAIN run \cup {r} |-> IF s = r THEN new ELSE run[s]]
      /\ UNCHANGED <<cash, ledger, payments, req>>
  BY DEF Create, Slot, new
<1>3. DOMAIN run' = DOMAIN run \cup {r} /\ \A s \in DOMAIN run' : RunRow(run'[s])
  BY <1>1, <1>2 DEF Typed, TypeOK
<1>4. \A q \in Request : RequestOK(req[q])'
  BY <1>2, <1>3 DEF Typed, TypeOK, RequestOK, Exists
<1> QED BY <1>2, <1>3, <1>4 DEF Typed, TypeOK, Kinds

LEMMA UpdateLockTyped ==
  ASSUME Shape, Typed, NEW q \in Request, UpdateLock(q)
  PROVE  Typed'
<1> DEFINE seen == {i.gen : i \in run[req[q].id].items}
           new == [req[q] EXCEPT !.old = seen]
<1>1. /\ req[q].op = "update" /\ DOMAIN req[q] = {"op", "id", "period", "sheet", "old"}
      /\ req[q].sheet \in Sheet /\ req[q].period \in Period /\ Exists(req[q].id)
  BY RequestKinds DEF UpdateLock, Shape, Typed
<1>2. seen \in SUBSET (0..MaxGen)
  BY <1>1 DEF Typed, TypeOK, RunRow, ItemsRow, Exists
<1>3. RequestOK(new) /\ KindOK(new)
  BY <1>1, <1>2 DEF RequestOK, KindOK, Exists
<1>4. /\ req' = [req EXCEPT ![q] = new] /\ UNCHANGED <<run, cash, ledger, payments>>
  BY DEF UpdateLock
<1> HIDE DEF seen, new
<1> QED BY <1>3, <1>4, RequestTyped DEF Typed, TypeOK

LEMMA UpdateCommitTyped ==
  ASSUME Typed, NEW q \in Request, UpdateCommit(q)
  PROVE  Typed'
<1> DEFINE r == req[q].id
           g == run[r].gen + 1
           fresh == NewItems(g, req[q].sheet)
           kept == {i \in run[r].items : i.gen \notin req[q].old}
           row == [run[r] EXCEPT !.period = req[q].period, !.gen = g,
                                 !.totals = Totals(req[q].sheet), !.items = kept \cup {fresh}]
<1>1. /\ r \in DOMAIN run /\ RunRow(run[r]) /\ req[q].period \in Period
      /\ g \in 0..MaxGen
  BY RequestKinds, ConstantsOK DEF UpdateCommit, Typed, TypeOK, Exists, RunRow
<1>2. run' = [run EXCEPT ![r] = row]
  BY <1>1 DEF UpdateCommit
<1>3. ItemsRow(fresh) /\ fresh.gen = g
  BY <1>1 DEF NewItems, ItemsRow, Status
<1>4. \A i \in kept \cup {fresh} : ItemsRow(i) /\ i.gen <= g
  BY <1>1, <1>3, ConstantsOK DEF RunRow, ItemsRow
<1> HIDE DEF fresh, kept
<1>5. RunRow(row)
  <2>1. /\ DOMAIN row = DOMAIN run[r] /\ row.period = req[q].period /\ row.gen = g
        /\ row.deleted = run[r].deleted /\ row.status = run[r].status
        /\ row.approvedBy = run[r].approvedBy /\ row.items = kept \cup {fresh}
    BY <1>1 DEF RunRow
  <2> HIDE DEF row
  <2> QED BY <1>1, <1>4, <2>1 DEF RunRow
<1> HIDE DEF row
<1>6. Finish(q) /\ UNCHANGED <<cash, ledger, payments>>
  BY DEF UpdateCommit
<1> HIDE DEF r, g
<1> QED BY <1>1, <1>2, <1>5, <1>6, RunTyped DEF Typed, TypeOK

LEMMA DeleteCommitTyped ==
  ASSUME Typed, NEW q \in Request, DeleteCommit(q)
  PROVE  Typed'
<1>1. req[q].id \in DOMAIN run /\ RunRow(run[req[q].id])
  BY RequestKinds DEF DeleteCommit, Typed, TypeOK, Exists
<1>2. /\ run' = [run EXCEPT ![req[q].id].deleted = TRUE] /\ Finish(q)
      /\ UNCHANGED <<cash, ledger, payments>>
  BY DEF DeleteCommit
<1>3. RunRow(run'[req[q].id])
  BY <1>1, <1>2 DEF RunRow
<1> QED BY <1>1, <1>2, <1>3, RunTyped DEF Typed, TypeOK

\* What a transition reads and writes.
LEMMA CommitWrites ==
  ASSUME Typed, NEW q \in Request, TransitionCommit(q)
  PROVE  LET r == req[q].id  a == req[q].action  seen == req[q].seen IN
         /\ r \in DOMAIN run /\ r \in RunId /\ RunRow(run[r]) /\ RunRow(seen)
         /\ a \in Action /\ req[q].user \in User /\ req[q].op \in Moves
         /\ DOMAIN run' = DOMAIN run /\ DOMAIN run'[r] = DOMAIN run[r]
         /\ \A s \in DOMAIN run : s # r => run'[s] = run[s]
         /\ run'[r].status = To(a) /\ run'[r].items = {Stamped(i, seen, a) : i \in run[r].items}
         /\ run'[r].approvedBy = Approver(run[r], seen, req[q].op, a, req[q].user)
         /\ run'[r].totals = run[r].totals /\ run'[r].gen = run[r].gen
         /\ run'[r].period = run[r].period /\ run'[r].deleted = run[r].deleted
         /\ ItemsFound(run[r], seen) /\ Finish(q)
<1> DEFINE r == req[q].id
           a == req[q].action
           seen == req[q].seen
<1>1. /\ r \in DOMAIN run /\ r \in RunId /\ RunRow(run[r]) /\ RunRow(seen)
      /\ a \in Action /\ req[q].user \in User /\ req[q].op \in Moves
  BY RequestKinds DEF TransitionCommit, Typed, TypeOK, Exists, Moves
<1> DEFINE items == {Stamped(i, seen, a) : i \in run[r].items}
           by == Approver(run[r], seen, req[q].op, a, req[q].user)
<1>2. /\ run' = [run EXCEPT ![r].status = To(a), ![r].items = items, ![r].approvedBy = by]
      /\ ItemsFound(run[r], seen) /\ Finish(q)
  BY DEF TransitionCommit
<1>3. DOMAIN run[r] = Fields
  BY <1>1 DEF RunRow, Fields
<1> HIDE DEF r, a, seen, items, by
<1>4. /\ DOMAIN run' = DOMAIN run /\ DOMAIN run'[r] = DOMAIN run[r]
      /\ \A s \in DOMAIN run : s # r => run'[s] = run[s]
      /\ run'[r].status = To(a) /\ run'[r].items = items /\ run'[r].approvedBy = by
      /\ run'[r].totals = run[r].totals /\ run'[r].gen = run[r].gen
      /\ run'[r].period = run[r].period /\ run'[r].deleted = run[r].deleted
  BY <1>1, <1>2, <1>3 DEF Fields
<1> QED BY <1>1, <1>2, <1>4 DEF r, a, seen, items, by

\* Items keep their edit, their total and their type.
LEMMA StampedOK ==
  ASSUME NEW i, ItemsRow(i), NEW seen, NEW a \in Action
  PROVE  /\ ItemsRow(Stamped(i, seen, a))
         /\ Stamped(i, seen, a).gen = i.gen /\ Stamped(i, seen, a).totals = i.totals
  BY DEF ItemsRow, Stamped, To, Action, Status

LEMMA TransitionCommitTyped ==
  ASSUME Typed, NEW q \in Request, TransitionCommit(q)
  PROVE  Typed'
<1> DEFINE r == req[q].id
           a == req[q].action
           seen == req[q].seen
           by == Approver(run[r], seen, req[q].op, a, req[q].user)
<1>1. /\ r \in DOMAIN run /\ r \in RunId /\ RunRow(run[r]) /\ RunRow(seen)
      /\ a \in Action /\ req[q].user \in User /\ req[q].op \in Moves
      /\ DOMAIN run' = DOMAIN run /\ DOMAIN run'[r] = DOMAIN run[r]
      /\ \A s \in DOMAIN run : s # r => run'[s] = run[s]
      /\ run'[r].status = To(a) /\ run'[r].items = {Stamped(i, seen, a) : i \in run[r].items}
      /\ run'[r].approvedBy = by
      /\ run'[r].gen = run[r].gen /\ run'[r].period = run[r].period
      /\ run'[r].deleted = run[r].deleted /\ Finish(q)
  BY CommitWrites
<1>2. by \in User \cup {None}
  <2>1. req[q].op \in {"approve", "pay"} => a = req[q].op
    BY DEF Typed, Kinds
  <2> QED BY <1>1, <2>1 DEF Approver, RunRow, Moves
<1>3. To(a) \in Status
  BY <1>1 DEF To, Action, Status
<1>4. \A i \in run'[r].items : ItemsRow(i) /\ i.gen <= run[r].gen
  BY <1>1, StampedOK DEF RunRow
<1>5. RunRow(run'[r])
  BY <1>1, <1>2, <1>3, <1>4 DEF RunRow
<1>6. DOMAIN cash' = RunId /\ DOMAIN ledger' = RunId /\ payments' \in [RunId -> 0..2]
  <2>1. CASE a = "pay"
    <3>1. RecordPayment(r, seen.totals)
      BY <2>1 DEF TransitionCommit
    <3>2. DOMAIN cash' = RunId /\ DOMAIN ledger' = RunId
      BY <3>1 DEF RecordPayment, Typed, TypeOK
    <3>3. Min({payments[r] + 1, 2}) \in 0..2
      BY <1>1 DEF Min, Typed, TypeOK
    <3>4. payments' = [payments EXCEPT ![r] = Min({payments[r] + 1, 2})]
      BY <3>1 DEF RecordPayment, Typed, TypeOK
    <3> QED BY <3>2, <3>3, <3>4 DEF Typed, TypeOK
  <2>2. CASE a # "pay"
    BY <2>2 DEF TransitionCommit, Typed, TypeOK
  <2> QED BY <2>1, <2>2
<1> HIDE DEF r, a, seen, by
<1> QED BY <1>1, <1>5, <1>6, RunTyped

LEMMA ReadsTyped ==
  ASSUME Typed, NEW q \in Request,
         \/ \E r \in RunId, p \in Period, sheet \in Sheet : UpdateRead(q, r, p, sheet)
         \/ \E r \in RunId : DeleteRead(q, r)
         \/ \E r \in RunId, op \in Moves, action \in Action, u \in User :
               TransitionRead(q, r, op, action, u)
         \/ Abort(q)
  PROVE  Typed'
<1>1. ASSUME NEW r \in RunId, NEW p \in Period, NEW sheet \in Sheet, UpdateRead(q, r, p, sheet)
      PROVE  Typed'
  BY <1>1, RequestTyped DEF UpdateRead, Begin, RequestOK, KindOK, Typed, TypeOK
<1>2. ASSUME NEW r \in RunId, DeleteRead(q, r)
      PROVE  Typed'
  BY <1>2, RequestTyped DEF DeleteRead, Begin, RequestOK, KindOK, Typed, TypeOK
<1>3. ASSUME NEW r \in RunId, NEW op \in Moves, NEW action \in Action, NEW u \in User,
             TransitionRead(q, r, op, action, u)
      PROVE  Typed'
  <2> DEFINE new == [op |-> op, id |-> r, action |-> action, user |-> u, seen |-> run[r]]
  <2>1. RequestOK(new) /\ KindOK(new)
    BY <1>3 DEF TransitionRead, RequestOK, KindOK, Moves, Live, Exists, Typed, TypeOK
  <2>2. req' = [req EXCEPT ![q] = new] /\ UNCHANGED <<run, cash, ledger, payments>>
    BY <1>3 DEF TransitionRead, Begin
  <2> HIDE DEF new
  <2> QED BY <2>1, <2>2, RequestTyped DEF Typed, TypeOK
<1>4. CASE Abort(q)
  <2>1. RequestOK(Idle) /\ KindOK(Idle)
    BY DEF RequestOK, KindOK, Idle
  <2> QED BY <1>4, <2>1, RequestTyped DEF Abort, Finish, Typed, TypeOK
<1> QED BY <1>1, <1>2, <1>3, <1>4

LEMMA NextTyped == IInv /\ Typed /\ [Next]_vars => Typed'
<1> SUFFICES ASSUME Shape, Typed, [Next]_vars PROVE Typed'
  BY DEF IInv
<1>1. CASE Next
  BY <1>1, CreateTyped, UpdateLockTyped, UpdateCommitTyped, DeleteCommitTyped,
     TransitionCommitTyped, ReadsTyped DEF Next, Moves
<1>2. CASE UNCHANGED vars
  BY <1>2 DEF vars, Typed, TypeOK, Kinds, RequestOK, Exists
<1> QED BY <1>1, <1>2

LEMMA InitTyped == Init => Typed
  BY DEF Init, Typed, TypeOK, Kinds, RequestOK, Idle

LEMMA Inductive == Spec => [](IInv /\ Typed)
<1>1. Init => IInv /\ Typed
  BY InitIInv, InitTyped
<1>2. (IInv /\ Typed) /\ [Next]_vars => (IInv /\ Typed)'
  BY NextIInv, NextTyped
<1> QED BY <1>1, <1>2, PTL DEF Spec

\* Every row and every request in flight has its type; a request's run exists.
THEOREM TypeCorrect == Spec => []TypeOK
<1>1. IInv /\ Typed => TypeOK
  BY DEF Typed
<1> QED BY <1>1, Inductive, PTL

-----------------------------------------------------------------------------
(* The ids of the items as a version: edits that keep the period.          *)

\* No edit moves its run to another period: then edits of one run exclude each other.
PeriodsKept ==
  \A q \in Request : req[q].op = "update" => req[q].period = run[req[q].id].period

Edits(row) == {i.gen : i \in row.items}

\* What a move has read is an earlier state of its run, or its present items and total.
SeenOK(q) ==
  req[q].op \in Moves =>
    /\ Edits(req[q].seen) = {req[q].seen.gen} /\ req[q].seen.gen <= run[req[q].id].gen
    /\ req[q].seen.gen = run[req[q].id].gen => req[q].seen.totals = run[req[q].id].totals
    /\ req[q].action = "approve" => MayApprove(req[q].user, req[q].seen.totals)

OneEdit == \A r \in DOMAIN run : Edits(run[r]) = {run[r].gen}
OldCurrent == \A q \in Request : Holds(q) => req[q].old = {run[req[q].id].gen}

Versions == OneEdit /\ OldCurrent /\ \A q \in Request : SeenOK(q)

\* Steps that keep the edits and totals of the runs there are.
LEMMA EditsKept ==
  ASSUME IInv, Typed, Versions, NEW q \in Request,
         DOMAIN run \subseteq DOMAIN run',
         \A r \in DOMAIN run' \ DOMAIN run : Edits(run'[r]) = {run'[r].gen},
         \A r \in DOMAIN run : /\ Edits(run'[r]) = Edits(run[r]) /\ run'[r].gen = run[r].gen
                               /\ run'[r].totals = run[r].totals,
         \A o \in Request : o # q => req'[o] = req[o],
         Holds(q)' => req'[q].old = {run'[req'[q].id].gen},
         SeenOK(q)'
  PROVE  Versions'
<1>1. OneEdit'
  BY DEF Versions, OneEdit
<1>2. ASSUME NEW o \in Request, o # q, req[o].op \in Moves \cup {"update"}
      PROVE  req[o].id \in DOMAIN run /\ req'[o] = req[o]
  BY <1>2, RequestKinds DEF Typed, Exists
<1>3. OldCurrent'
  BY <1>2 DEF Versions, OldCurrent, Holds
<1>4. \A o \in Request : SeenOK(o)'
  <2> SUFFICES ASSUME NEW o \in Request, req'[o].op \in Moves, o # q
               PROVE  SeenOK(o)'
    BY DEF SeenOK
  <2>1. req[o].id \in DOMAIN run /\ req'[o] = req[o] /\ SeenOK(o)
    BY <1>2 DEF Versions
  <2> QED BY <2>1 DEF SeenOK, MayApprove
<1> QED BY <1>1, <1>3, <1>4 DEF Versions

LEMMA CreateVersions ==
  ASSUME IInv, Typed, Versions, NEW r \in RunId, NEW p \in Period, NEW sheet \in Sheet,
         Create(r, p, sheet)
  PROVE  Versions'
<1> DEFINE new == NewRun(p, sheet)
<1>1. Edits(new) = {new.gen}
  BY DEF NewRun, NewItems, Edits
<1> HIDE DEF new
<1>2. /\ run' = [s \in DOMAIN run \cup {r} |-> IF s = r THEN new ELSE run[s]] /\ UNCHANGED req
      /\ r \notin DOMAIN run
  BY DEF Create, Slot, Exists, new
<1>3. /\ DOMAIN run' = DOMAIN run \cup {r} /\ run'[r] = new
      /\ \A s \in DOMAIN run : run'[s] = run[s]
  BY <1>2
<1>4. OneEdit'
  BY <1>1, <1>3 DEF Versions, OneEdit
<1>5. ASSUME NEW o \in Request, req[o].op \in Moves \cup {"update"}
      PROVE  req[o].id \in DOMAIN run /\ req'[o] = req[o]
  BY <1>2, <1>5, RequestKinds DEF Typed, Exists
<1>6. OldCurrent'
  BY <1>2, <1>3, <1>5 DEF Versions, OldCurrent, Holds
<1>7. \A o \in Request : SeenOK(o)'
  BY <1>2, <1>3, <1>5 DEF Versions, SeenOK
<1> QED BY <1>4, <1>6, <1>7 DEF Versions

LEMMA UpdateLockVersions ==
  ASSUME IInv, Typed, Versions, NEW q \in Request, UpdateLock(q)
  PROVE  Versions'
<1> DEFINE seen == {i.gen : i \in run[req[q].id].items}
<1>1. /\ req[q].op = "update" /\ DOMAIN req[q] = {"op", "id", "period", "sheet", "old"}
      /\ req[q].id \in DOMAIN run
  BY RequestKinds DEF UpdateLock, IInv, Shape, Typed, Exists
<1>2. seen = {run[req[q].id].gen}
  BY <1>1 DEF Versions, OneEdit, Edits
<1>3. req' = [req EXCEPT ![q].old = seen] /\ UNCHANGED run
  BY DEF UpdateLock
<1> HIDE DEF seen
<1>4. /\ \A o \in Request : o # q => req'[o] = req[o]
      /\ req'[q].op = "update" /\ req'[q].id = req[q].id /\ req'[q].old = seen
  BY <1>1, <1>3 DEF Typed, TypeOK
<1>5. Holds(q)' => req'[q].old = {run'[req'[q].id].gen}
  BY <1>2, <1>3, <1>4
<1>6. SeenOK(q)'
  BY <1>4 DEF SeenOK, Moves
<1> QED BY <1>3, <1>4, <1>5, <1>6, EditsKept

\* An edit that keeps the period replaces all items: whoever else could have replaced
\* some would hold the lock of the same period.
LEMMA UpdateCommitVersions ==
  ASSUME IInv, Typed, Versions, PeriodsKept, NEW q \in Request, UpdateCommit(q)
  PROVE  Versions'
<1> DEFINE r == req[q].id
           g == run[r].gen + 1
           fresh == NewItems(g, req[q].sheet)
           kept == {i \in run[r].items : i.gen \notin req[q].old}
<1>1. /\ r \in DOMAIN run /\ DOMAIN run[r] = Fields /\ g \in Nat /\ run[r].gen \in Nat
      /\ run[r].gen < g /\ Holds(q)
  BY RequestKinds, ConstantsOK DEF UpdateCommit, Typed, TypeOK, Exists, RunRow, Fields, Holds
<1>2. run' = [run EXCEPT ![r].period = req[q].period, ![r].gen = g,
                         ![r].totals = Totals(req[q].sheet), ![r].items = kept \cup {fresh}]
  BY <1>1 DEF UpdateCommit
<1>3. kept = {}
  BY <1>1 DEF Versions, OneEdit, OldCurrent, Edits
<1>4. fresh.gen = g
  BY DEF NewItems
<1> HIDE DEF fresh, kept
<1>5. /\ DOMAIN run' = DOMAIN run /\ run'[r].gen = g /\ run'[r].items = {fresh}
      /\ \A s \in DOMAIN run : s # r => run'[s] = run[s]
  BY <1>1, <1>2, <1>3 DEF Fields
<1>6. /\ req'[q] = Idle /\ Idle.op = "idle"
      /\ \A o \in Request : o # q => req'[o] = req[o]
  BY DEF UpdateCommit, Finish, Idle, Typed, TypeOK
<1> HIDE DEF r, g
<1>7. OneEdit'
  BY <1>4, <1>5 DEF Versions, OneEdit, Edits
<1>8. OldCurrent'
  <2> SUFFICES ASSUME NEW o \in Request, Holds(o)'
               PROVE  req'[o].old = {run'[req'[o].id].gen}
    BY DEF OldCurrent
  <2>1. o # q /\ req'[o] = req[o] /\ Holds(o)
    BY <1>6 DEF Holds
  <2>2. req[o].period # req[q].period
    BY <1>1, <2>1 DEF IInv, LockHolderAlone, Holds
  <2>3. req[o].id # r
    BY <1>1, <2>1, <2>2 DEF PeriodsKept, Holds, r
  <2>4. req[o].id \in DOMAIN run
    BY <2>1, RequestKinds DEF Typed, Exists, Holds
  <2> QED BY <1>5, <2>1, <2>3, <2>4 DEF Versions, OldCurrent
<1>9. \A o \in Request : SeenOK(o)'
  <2> SUFFICES ASSUME NEW o \in Request, req'[o].op \in Moves
               PROVE  SeenOK(o)'
    BY DEF SeenOK
  <2>1. req'[o] = req[o] /\ req[o].id \in DOMAIN run /\ SeenOK(o) /\ req[o].seen.gen \in Nat
    BY <1>6, RequestKinds, ConstantsOK DEF Typed, Exists, Moves, Versions, RunRow
  <2>2. CASE req[o].id = r
    BY <1>1, <1>5, <2>1, <2>2 DEF SeenOK
  <2>3. CASE req[o].id # r
    BY <1>5, <2>1, <2>3 DEF SeenOK
  <2> QED BY <2>2, <2>3
<1> QED BY <1>7, <1>8, <1>9 DEF Versions

LEMMA TransitionCommitVersions ==
  ASSUME IInv, Typed, Versions, NEW q \in Request, TransitionCommit(q)
  PROVE  Versions'
<1> DEFINE r == req[q].id
           a == req[q].action
           seen == req[q].seen
<1>1. /\ r \in DOMAIN run /\ RunRow(run[r]) /\ a \in Action /\ DOMAIN run' = DOMAIN run
      /\ \A s \in DOMAIN run : s # r => run'[s] = run[s]
      /\ run'[r].items = {Stamped(i, seen, a) : i \in run[r].items}
      /\ run'[r].totals = run[r].totals /\ run'[r].gen = run[r].gen /\ Finish(q)
  BY CommitWrites
<1>2. Edits(run'[r]) = Edits(run[r])
  BY <1>1, StampedOK DEF Edits, RunRow
<1>3. /\ req'[q] = Idle /\ Idle.op = "idle"
      /\ \A o \in Request : o # q => req'[o] = req[o]
  BY <1>1 DEF Finish, Idle, Typed, TypeOK
<1> HIDE DEF r, a, seen
<1>4. SeenOK(q)' /\ ~Holds(q)'
  BY <1>3 DEF SeenOK, Moves, Holds
<1> QED BY <1>1, <1>2, <1>3, <1>4, EditsKept

LEMMA OthersVersions ==
  ASSUME IInv, Typed, Versions, NEW q \in Request,
         \/ \E r \in RunId, p \in Period, sheet \in Sheet : UpdateRead(q, r, p, sheet)
         \/ \E r \in RunId : DeleteRead(q, r)
         \/ DeleteCommit(q)
         \/ \E r \in RunId, op \in Moves, action \in Action, u \in User :
               TransitionRead(q, r, op, action, u)
         \/ Abort(q)
  PROVE  Versions'
<1>1. ASSUME UNCHANGED run, \A o \in Request : o # q => req'[o] = req[o],
             ~Holds(q)', SeenOK(q)'
      PROVE  Versions'
  BY <1>1, EditsKept
<1>2. ASSUME NEW r \in RunId, NEW p \in Period, NEW sheet \in Sheet, UpdateRead(q, r, p, sheet)
      PROVE  Versions'
  BY <1>1, <1>2 DEF UpdateRead, Begin, Typed, TypeOK, Holds, SeenOK, Moves
<1>3. ASSUME NEW r \in RunId, DeleteRead(q, r)
      PROVE  Versions'
  BY <1>1, <1>3 DEF DeleteRead, Begin, Typed, TypeOK, Holds, SeenOK, Moves
<1>4. ASSUME NEW r \in RunId, NEW op \in Moves, NEW action \in Action, NEW u \in User,
             TransitionRead(q, r, op, action, u)
      PROVE  Versions'
  <2> DEFINE new == [op |-> op, id |-> r, action |-> action, user |-> u, seen |-> run[r]]
  <2>1. /\ req' = [req EXCEPT ![q] = new] /\ UNCHANGED run /\ r \in DOMAIN run
        /\ action = "approve" => MayApprove(u, run[r].totals)
    BY <1>4 DEF TransitionRead, Begin, Live, Exists
  <2>2. /\ req'[q] = new /\ \A o \in Request : o # q => req'[o] = req[o]
    BY <2>1 DEF Typed, TypeOK
  <2>3. Edits(run[r]) = {run[r].gen} /\ run[r].gen <= run[r].gen
    BY <2>1, ConstantsOK DEF Versions, OneEdit, Typed, TypeOK, RunRow
  <2>4. SeenOK(q)'
    BY <2>1, <2>2, <2>3 DEF SeenOK, MayApprove
  <2>5. ~Holds(q)'
    BY <2>2 DEF Holds, Moves
  <2> QED BY <1>1, <2>1, <2>2, <2>4, <2>5
<1>5. CASE Abort(q)
  BY <1>1, <1>5 DEF Abort, Finish, Idle, Typed, TypeOK, Holds, SeenOK, Moves
<1>6. CASE DeleteCommit(q)
  <2>1. req[q].id \in DOMAIN run /\ DOMAIN run[req[q].id] = Fields
    BY <1>6, RequestKinds DEF DeleteCommit, Typed, TypeOK, Exists, RunRow, Fields
  <2>2. run' = [run EXCEPT ![req[q].id].deleted = TRUE] /\ Finish(q)
    BY <1>6 DEF DeleteCommit
  <2>3. /\ DOMAIN run' = DOMAIN run
        /\ \A r \in DOMAIN run : /\ run'[r].items = run[r].items /\ run'[r].gen = run[r].gen
                                 /\ run'[r].totals = run[r].totals
    BY <2>1, <2>2 DEF Fields
  <2>4. \A r \in DOMAIN run : Edits(run'[r]) = Edits(run[r])
    BY <2>3 DEF Edits
  <2>5. /\ req'[q] = Idle /\ Idle.op = "idle"
        /\ \A o \in Request : o # q => req'[o] = req[o]
    BY <2>2 DEF Finish, Idle, Typed, TypeOK
  <2>6. SeenOK(q)' /\ ~Holds(q)'
    BY <2>5 DEF SeenOK, Moves, Holds
  <2> QED BY <2>3, <2>4, <2>5, <2>6, EditsKept
<1> QED BY <1>2, <1>3, <1>4, <1>5, <1>6

LEMMA NextVersions == IInv /\ Typed /\ Versions /\ PeriodsKept /\ [Next]_vars => Versions'
<1> SUFFICES ASSUME IInv, Typed, Versions, PeriodsKept, [Next]_vars PROVE Versions'
  OBVIOUS
<1>1. CASE Next
  BY <1>1, CreateVersions, UpdateLockVersions, UpdateCommitVersions, TransitionCommitVersions,
     OthersVersions DEF Next, Moves
<1>2. CASE UNCHANGED vars
  BY <1>2 DEF vars, Versions, OneEdit, OldCurrent, Holds, SeenOK, MayApprove
<1> QED BY <1>1, <1>2

\* A commit that finds the items it read finds the total it read.
LEMMA FoundIsCurrent ==
  ASSUME IInv, Typed, Versions, NEW q \in Request, TransitionCommit(q)
  PROVE  req[q].seen.totals = run[req[q].id].totals
<1>1. /\ req[q].id \in DOMAIN run /\ req[q].op \in Moves
      /\ ItemsFound(run[req[q].id], req[q].seen)
  BY CommitWrites
<1>2. {req[q].seen.gen} \subseteq {run[req[q].id].gen}
  BY <1>1 DEF ItemsFound, Versions, OneEdit, SeenOK, Edits
<1> QED BY <1>1, <1>2 DEF Versions, SeenOK

PaysTheTotal ==
  \A r \in RunId : cash'[r] # cash[r] => cash'[r].amount = PaidAmount(run[r].totals)

LEMMA NextPays == IInv /\ Typed /\ Versions /\ [Next]_vars => [PaysTheTotal]_vars
<1> SUFFICES ASSUME IInv, Typed, Versions, Next PROVE PaysTheTotal
  OBVIOUS
<1>1. ASSUME NEW q \in Request, TransitionCommit(q), NEW r \in RunId, cash'[r] # cash[r]
      PROVE  cash'[r].amount = PaidAmount(run[r].totals)
  <2>1. req[q].action = "pay" /\ RecordPayment(req[q].id, req[q].seen.totals)
    BY <1>1 DEF TransitionCommit
  <2>2. PICK posted : cash' = [cash EXCEPT ![req[q].id] =
                                 [amount |-> PaidAmount(req[q].seen.totals), posted |-> posted]]
    BY <2>1 DEF RecordPayment
  <2>3. r = req[q].id /\ cash'[r].amount = PaidAmount(req[q].seen.totals)
    BY <1>1, <2>2 DEF Typed, TypeOK
  <2>4. req[q].seen.totals = run[r].totals
    BY <1>1, <2>3, FoundIsCurrent
  <2> QED BY <2>3, <2>4
<1>2. ASSUME ~ \E q \in Request : TransitionCommit(q)
      PROVE  UNCHANGED cash
  BY <1>2 DEF Next, Create, UpdateRead, UpdateLock, UpdateCommit, DeleteRead, DeleteCommit,
     TransitionRead, Abort
<1> QED BY <1>1, <1>2 DEF PaysTheTotal

ApprovesWithinLimit ==
  \A r \in RunId :
    Exists(r) /\ run[r].status # "APPROVED" /\ run'[r].status = "APPROVED" =>
      MayApprove(run'[r].approvedBy, run'[r].totals)

LEMMA NextApproves == IInv /\ Typed /\ Versions /\ [Next]_vars => [ApprovesWithinLimit]_vars
<1> SUFFICES ASSUME IInv, Typed, Versions, Next PROVE ApprovesWithinLimit
  OBVIOUS
<1>1. ASSUME NEW q \in Request, TransitionCommit(q), NEW r \in RunId, Exists(r),
             run[r].status # "APPROVED", run'[r].status = "APPROVED"
      PROVE  MayApprove(run'[r].approvedBy, run'[r].totals)
  <2>1. r = req[q].id
    BY <1>1, CommitWrites DEF Exists
  <2>2. /\ run'[r].status = To(req[q].action) /\ req[q].action \in Action /\ req[q].op \in Moves
        /\ run'[r].approvedBy = Approver(run[r], req[q].seen, req[q].op, req[q].action, req[q].user)
        /\ run'[r].totals = run[r].totals
    BY <1>1, <2>1, CommitWrites
  <2>3. req[q].action = "approve"
    BY <1>1, <2>2 DEF To, Action
  <2>4. run'[r].approvedBy = req[q].user
    <3>1. req[q].op # "pay"
      BY <2>3 DEF Typed, Kinds
    <3> QED BY <2>2, <2>3, <3>1 DEF Approver
  <2>5. MayApprove(req[q].user, req[q].seen.totals) /\ req[q].seen.totals = run[r].totals
    BY <1>1, <2>1, <2>2, <2>3, FoundIsCurrent DEF Versions, SeenOK
  <2> QED BY <2>2, <2>4, <2>5
<1>2. ASSUME ~ \E q \in Request : TransitionCommit(q), NEW r \in RunId, Exists(r)
      PROVE  run'[r].status = run[r].status
  <2>1. CASE \E s \in RunId, p \in Period, sheet \in Sheet : Create(s, p, sheet)
    BY <1>2, <2>1 DEF Create, Exists
  <2>2. ASSUME NEW q \in Request, UpdateCommit(q) \/ DeleteCommit(q)
        PROVE  run'[r].status = run[r].status
    <3>1. req[q].id \in DOMAIN run /\ DOMAIN run[req[q].id] = Fields
      BY <2>2, RequestKinds DEF UpdateCommit, DeleteCommit, Typed, TypeOK, Exists, RunRow, Fields
    <3> QED BY <1>2, <2>2, <3>1 DEF UpdateCommit, DeleteCommit, Exists, Fields
  <2>3. CASE UNCHANGED run
    BY <2>3
  <2> QED BY <1>2, <2>1, <2>2, <2>3 DEF Next, UpdateRead, UpdateLock, DeleteRead, TransitionRead, Abort
<1> QED BY <1>1, <1>2 DEF ApprovesWithinLimit

LEMMA InitVersions == Init => Versions
  BY DEF Init, Versions, OneEdit, OldCurrent, Holds, SeenOK, Moves, Idle

LEMMA VersionsHold == Spec /\ []PeriodsKept => []Versions
BY InitVersions, NextVersions, Inductive, PTL DEF Spec

\* Where edits keep the period, a payment pays out what its run adds up to at that moment:
\* processPayrollPayment read the run long before, but stamps its items by id.
THEOREM PaymentsMatch == Spec /\ []PeriodsKept => PaymentMatchesRun
<1>1. [PaysTheTotal]_vars =>
        [\A r \in RunId : cash'[r] # cash[r] => cash'[r].amount = PaidAmount(run[r].totals)]_vars
  BY DEF PaysTheTotal
<1> QED BY <1>1, VersionsHold, Inductive, NextPays, PTL DEF Spec, PaymentMatchesRun

\* Where edits keep the period, whoever takes a run into APPROVED may approve the total it
\* has at that moment (assertApprovalLimit looks at the total that was read).
THEOREM ApproversMay == Spec /\ []PeriodsKept => ApproverMayApprove
<1>1. [ApprovesWithinLimit]_vars =>
        [\A r \in RunId :
           Exists(r) /\ run[r].status # "APPROVED" /\ run'[r].status = "APPROVED" =>
             MayApprove(run'[r].approvedBy, run'[r].totals)]_vars
  BY DEF ApprovesWithinLimit
<1> QED BY <1>1, VersionsHold, Inductive, NextApproves, PTL DEF Spec, ApproverMayApprove

-----------------------------------------------------------------------------
(* Requests that run one by one.                                           *)

\* At most one request is in flight.
Sole == \A p, q \in Request : req[p] # Idle /\ req[q] # Idle => p = q

LEMMA StepsAlone ==
  ASSUME MCNext, alone', DOMAIN req' = Request
  PROVE  alone /\ Sole' /\ (req' # req \/ \A q \in Request : req[q] = Idle)
<1>1. alone /\ Cardinality(InFlight') <= 1 /\ (InFlight = {} \/ req' # req)
  BY DEF MCNext
<1>2. IsFiniteSet(InFlight')
  BY ConstantsOK, FS_Subset DEF InFlight
<1>3. Sole'
  BY <1>1, <1>2, AtMostOne DEF Sole, InFlight
<1> QED BY <1>1, <1>3 DEF InFlight

\* What a run is, on which nobody works: its items are those of its last edit, and add up
\* to its total, which is that of a list of items that may be paid.
Whole(r) ==
  /\ \E i \in run[r].items : run[r].items = {i} /\ i.totals = run[r].totals
  /\ \E sheet \in Sheet : Payable(sheet) /\ run[r].totals = Totals(sheet)

Covered(r) ==
  run[r].status \in {"APPROVED", "PAID"} =>
    run[r].approvedBy # None /\ MayApprove(run[r].approvedBy, run[r].totals)

\* Only a run that stays PAID has been paid out.
Settled(r) ==
  /\ payments[r] > 0 => r \in DOMAIN run /\ run[r].status = "PAID"
  /\ cash[r] # None => payments[r] > 0

\* What the request in flight has read is still so.
StillSo(q) ==
  LET r == req[q].id IN
  /\ req[q].op = "update" =>
       /\ run[r].status \in {"DRAFT", "REJECTED"} /\ Payable(req[q].sheet)
       /\ Holds(q) => req[q].old = Edits(run[r])
  /\ req[q].op = "delete" => run[r].status # "PAID"
  /\ req[q].op \in Moves =>
       /\ req[q].seen = run[r] /\ run[r].status # "PAID"
       /\ req[q].action = "pay" => run[r].status = "APPROVED"
       /\ req[q].action = "approve" => MayApprove(req[q].user, run[r].totals)

AloneFacts ==
  /\ Sole
  /\ \A r \in DOMAIN run : Whole(r) /\ Covered(r)
  /\ \A r \in RunId : Settled(r)
  /\ \A q \in Request : StillSo(q)

\* A request that begins finds the others idle; so does one that ends.
LEMMA BeginsAlone ==
  ASSUME Typed, AloneFacts, NEW q \in Request, UNCHANGED <<run, cash, ledger, payments>>,
         \A o \in Request : o # q => req'[o] = req[o], req'[q] # Idle, Sole', StillSo(q)'
  PROVE  AloneFacts'
<1>1. \A o \in Request : o # q => req'[o] = Idle
  BY DEF Sole
<1>2. \A o \in Request : StillSo(o)'
  BY <1>1 DEF StillSo, Idle, Moves
<1>3. /\ \A r \in DOMAIN run' : Whole(r)' /\ Covered(r)'
      /\ \A r \in RunId : Settled(r)'
  BY DEF AloneFacts, Whole, Covered, Settled, MayApprove
<1> QED BY <1>2, <1>3 DEF AloneFacts

LEMMA EndsAlone ==
  ASSUME Typed, AloneFacts, NEW q \in Request, req[q] # Idle, Finish(q)
  PROVE  \A o \in Request : req'[o] = Idle /\ StillSo(o)'
<1>1. \A o \in Request : req'[o] = Idle
  BY DEF Finish, AloneFacts, Sole, Typed, TypeOK
<1> QED BY <1>1 DEF StillSo, Idle, Moves

LEMMA CreateAlone ==
  ASSUME Typed, AloneFacts, NEW r \in RunId, NEW p \in Period, NEW sheet \in Sheet,
         Create(r, p, sheet), \A q \in Request : req[q] = Idle
  PROVE  AloneFacts'
<1> DEFINE new == NewRun(p, sheet)
<1>1. /\ run' = [s \in DOMAIN run \cup {r} |-> IF s = r THEN new ELSE run[s]]
      /\ r \notin DOMAIN run /\ Payable(sheet) /\ UNCHANGED <<cash, ledger, payments, req>>
  BY DEF Create, Slot, Exists
<1>2. /\ new.items = {NewItems(0, sheet)} /\ new.totals = Totals(sheet)
      /\ NewItems(0, sheet).totals = Totals(sheet) /\ new.status = "DRAFT"
  BY DEF NewRun, NewItems
<1> HIDE DEF new
<1>3. /\ DOMAIN run' = DOMAIN run \cup {r} /\ run'[r] = new
      /\ \A s \in DOMAIN run : run'[s] = run[s]
  BY <1>1
<1>4. Whole(r)' /\ Covered(r)'
  BY <1>1, <1>2, <1>3 DEF Whole, Covered
<1>5. \A s \in DOMAIN run : Whole(s)' /\ Covered(s)'
  BY <1>1, <1>3 DEF AloneFacts, Whole, Covered, MayApprove
<1>6. \A s \in RunId : Settled(s)'
  BY <1>1, <1>3 DEF AloneFacts, Settled
<1>7. Sole' /\ \A q \in Request : StillSo(q)'
  BY <1>1 DEF Sole, StillSo, Idle, Moves
<1> QED BY <1>3, <1>4, <1>5, <1>6, <1>7 DEF AloneFacts

LEMMA ReadsAlone ==
  ASSUME Typed, AloneFacts, NEW q \in Request, Sole',
         \/ \E r \in RunId, p \in Period, sheet \in Sheet : UpdateRead(q, r, p, sheet)
         \/ \E r \in RunId : DeleteRead(q, r)
         \/ \E r \in RunId, op \in Moves, action \in Action, u \in User :
               TransitionRead(q, r, op, action, u)
  PROVE  AloneFacts'
<1>1. ASSUME NEW r \in RunId, NEW p \in Period, NEW sheet \in Sheet, UpdateRead(q, r, p, sheet)
      PROVE  AloneFacts'
  BY <1>1, BeginsAlone DEF UpdateRead, Begin, Typed, TypeOK, StillSo, Holds, Moves, Idle
<1>2. ASSUME NEW r \in RunId, DeleteRead(q, r)
      PROVE  AloneFacts'
  BY <1>2, BeginsAlone DEF DeleteRead, Begin, Typed, TypeOK, StillSo, Moves, Idle
<1>3. ASSUME NEW r \in RunId, NEW op \in Moves, NEW action \in Action, NEW u \in User,
             TransitionRead(q, r, op, action, u)
      PROVE  AloneFacts'
  <2> DEFINE new == [op |-> op, id |-> r, action |-> action, user |-> u, seen |-> run[r]]
  <2>1. /\ req' = [req EXCEPT ![q] = new] /\ UNCHANGED <<run, cash, ledger, payments>>
        /\ run[r].status # "PAID" /\ (action = "pay" => run[r].status = "APPROVED")
        /\ action = "approve" => MayApprove(u, run[r].totals)
    BY <1>3 DEF TransitionRead, Begin, From, Moves, Action
  <2>2. req'[q] = new /\ \A o \in Request : o # q => req'[o] = req[o]
    BY <2>1 DEF Typed, TypeOK
  <2>3. new # Idle
    BY DEF Idle, Moves
  <2>4. StillSo(q)'
    BY <2>1, <2>2 DEF StillSo, Moves, MayApprove
  <2> HIDE DEF new
  <2> QED BY <2>1, <2>2, <2>3, <2>4, BeginsAlone
<1> QED BY <1>1, <1>2, <1>3

LEMMA UpdateLockAlone ==
  ASSUME Shape, Typed, AloneFacts, NEW q \in Request, Sole', UpdateLock(q)
  PROVE  AloneFacts'
<1> DEFINE seen == {i.gen : i \in run[req[q].id].items}
<1>1. /\ req[q].op = "update" /\ DOMAIN req[q] = {"op", "id", "period", "sheet", "old"}
      /\ req' = [req EXCEPT ![q].old = seen] /\ UNCHANGED <<run, cash, ledger, payments>>
  BY DEF UpdateLock, Shape
<1> HIDE DEF seen
<1>2. /\ \A o \in Request : o # q => req'[o] = req[o]
      /\ req'[q].op = "update" /\ req'[q].id = req[q].id /\ req'[q].old = seen
      /\ req'[q].sheet = req[q].sheet
  BY <1>1 DEF Typed, TypeOK
<1>3. req'[q] # Idle
  BY <1>2 DEF Idle
<1>4. StillSo(q) /\ seen = Edits(run[req[q].id])
  BY DEF AloneFacts, seen, Edits
<1>5. StillSo(q)'
  BY <1>1, <1>2, <1>4 DEF StillSo, Moves
<1> QED BY <1>1, <1>2, <1>3, <1>5, BeginsAlone

LEMMA UpdateCommitAlone ==
  ASSUME Typed, AloneFacts, NEW q \in Request, UpdateCommit(q)
  PROVE  AloneFacts' /\ PaidStays
<1>r. PICK r \in RunId : r = req[q].id /\ r \in DOMAIN run
  BY RequestKinds DEF UpdateCommit, Typed, TypeOK, Exists
<1> DEFINE g == run[r].gen + 1
           fresh == NewItems(g, req[q].sheet)
           kept == {i \in run[r].items : i.gen \notin req[q].old}
<1>1. /\ DOMAIN run[r] = Fields /\ req[q].sheet \in Sheet
      /\ req[q].op = "update" /\ req[q].old # None
  BY <1>r, RequestKinds DEF UpdateCommit, Typed, TypeOK, RunRow, Fields
<1>2. /\ run' = [run EXCEPT ![r].period = req[q].period, ![r].gen = g,
                            ![r].totals = Totals(req[q].sheet), ![r].items = kept \cup {fresh}]
      /\ Finish(q) /\ UNCHANGED <<cash, ledger, payments>>
  BY <1>r, <1>1 DEF UpdateCommit
<1>3. /\ run[r].status \in {"DRAFT", "REJECTED"} /\ Payable(req[q].sheet)
      /\ req[q].old = Edits(run[r])
  BY <1>r, <1>1 DEF AloneFacts, StillSo, Holds
<1>4. kept = {}
  BY <1>3 DEF Edits
<1>5. fresh.totals = Totals(req[q].sheet)
  BY DEF NewItems
<1> HIDE DEF fresh, kept, g
<1>6. /\ DOMAIN run' = DOMAIN run /\ run'[r].items = {fresh} /\ run'[r].status = run[r].status
      /\ run'[r].totals = Totals(req[q].sheet)
      /\ \A s \in DOMAIN run : s # r => run'[s] = run[s]
  BY <1>r, <1>1, <1>2, <1>4 DEF Fields
<1>7. \A o \in Request : req'[o] = Idle /\ StillSo(o)'
  BY <1>1, <1>2, EndsAlone DEF Idle
<1>8. Whole(r)' /\ Covered(r)'
  BY <1>1, <1>3, <1>5, <1>6 DEF Whole, Covered
<1>9. \A s \in DOMAIN run : s # r => Whole(s)' /\ Covered(s)'
  BY <1>6 DEF AloneFacts, Whole, Covered, MayApprove
<1>10. \A s \in RunId : Settled(s)'
  BY <1>2, <1>6 DEF AloneFacts, Settled
<1>11. PaidStays
  BY <1>3, <1>6 DEF AloneFacts, Settled, PaidStays
<1> QED BY <1>6, <1>7, <1>8, <1>9, <1>10, <1>11 DEF AloneFacts, Sole

LEMMA DeleteCommitAlone ==
  ASSUME Typed, AloneFacts, NEW q \in Request, DeleteCommit(q)
  PROVE  AloneFacts' /\ PaidStays
<1>r. PICK r \in RunId : r = req[q].id /\ r \in DOMAIN run /\ DOMAIN run[r] = Fields
  BY RequestKinds DEF DeleteCommit, Typed, TypeOK, Exists, RunRow, Fields
<1>1. /\ run' = [run EXCEPT ![r].deleted = TRUE] /\ Finish(q) /\ req[q].op = "delete"
      /\ UNCHANGED <<cash, ledger, payments>>
  BY <1>r DEF DeleteCommit
<1>2. run[r].status # "PAID"
  BY <1>r, <1>1 DEF AloneFacts, StillSo
<1>3. /\ DOMAIN run' = DOMAIN run
      /\ run'[r].items = run[r].items /\ run'[r].status = run[r].status
      /\ run'[r].totals = run[r].totals /\ run'[r].approvedBy = run[r].approvedBy
      /\ \A s \in DOMAIN run : s # r => run'[s] = run[s]
  BY <1>r, <1>1 DEF Fields
<1>4. \A o \in Request : req'[o] = Idle /\ StillSo(o)'
  BY <1>1, EndsAlone DEF Idle
<1>5. \A s \in DOMAIN run : Whole(s)' /\ Covered(s)'
  BY <1>3 DEF AloneFacts, Whole, Covered, MayApprove
<1>6. \A s \in RunId : Settled(s)'
  BY <1>1, <1>3 DEF AloneFacts, Settled
<1>7. PaidStays
  BY <1>2, <1>3 DEF AloneFacts, Settled, PaidStays
<1> QED BY <1>3, <1>4, <1>5, <1>6, <1>7 DEF AloneFacts, Sole

LEMMA TransitionCommitAlone ==
  ASSUME Typed, AloneFacts, NEW q \in Request, TransitionCommit(q)
  PROVE  AloneFacts' /\ PaidStays
<1>r. PICK r, a, seen : r = req[q].id /\ a = req[q].action /\ seen = req[q].seen
  OBVIOUS
<1>1. /\ r \in DOMAIN run /\ r \in RunId /\ RunRow(run[r]) /\ RunRow(seen)
      /\ a \in Action /\ req[q].user \in User /\ req[q].op \in Moves
      /\ DOMAIN run' = DOMAIN run
      /\ \A s \in DOMAIN run : s # r => run'[s] = run[s]
      /\ run'[r].status = To(a) /\ run'[r].items = {Stamped(i, seen, a) : i \in run[r].items}
      /\ run'[r].approvedBy = Approver(run[r], seen, req[q].op, a, req[q].user)
      /\ run'[r].totals = run[r].totals /\ Finish(q)
  BY <1>r, CommitWrites
<1>2. /\ seen = run[r] /\ run[r].status # "PAID" /\ (a = "pay" => run[r].status = "APPROVED")
      /\ a = "approve" => MayApprove(req[q].user, run[r].totals)
  BY <1>r, <1>1 DEF AloneFacts, StillSo
<1>3. req[q].op \in {"approve", "pay"} => a = req[q].op
  BY <1>r DEF Typed, Kinds
<1>5. Whole(r)'
  <2>1. PICK i \in run[r].items : run[r].items = {i} /\ i.totals = run[r].totals
    BY <1>1 DEF AloneFacts, Whole
  <2>2. run'[r].items = {Stamped(i, seen, a)} /\ Stamped(i, seen, a).totals = run[r].totals
    BY <1>1, <2>1, StampedOK DEF RunRow
  <2> QED BY <1>1, <2>2 DEF AloneFacts, Whole
<1>6. Covered(r)'
  <2>1. CASE a = "approve"
    <3>1. run'[r].approvedBy = req[q].user
      BY <1>1, <1>3, <2>1 DEF Approver
    <3> QED BY <1>1, <1>2, <2>1, <3>1, ConstantsOK DEF Covered, MayApprove
  <2>2. CASE a = "pay"
    <3>1. run'[r].approvedBy = run[r].approvedBy
      BY <1>1, <1>2, <1>3, <2>2 DEF Approver, Moves
    <3>2. Covered(r) /\ run[r].status = "APPROVED"
      BY <1>1, <1>2, <2>2 DEF AloneFacts
    <3> QED BY <1>1, <3>1, <3>2 DEF Covered, MayApprove
  <2>3. CASE a \notin {"approve", "pay"}
    BY <1>1, <2>3 DEF Covered, To, Action
  <2> QED BY <2>1, <2>2, <2>3
<1>7. \A s \in DOMAIN run : s # r => Whole(s)' /\ Covered(s)'
  BY <1>1 DEF AloneFacts, Whole, Covered, MayApprove
<1>8. ~(payments[r] > 0)
  BY <1>1, <1>2 DEF AloneFacts, Settled
<1>9. \A s \in RunId : Settled(s)'
  <2>1. CASE a # "pay"
    BY <1>r, <1>1, <1>8, <2>1 DEF TransitionCommit, AloneFacts, Settled
  <2>2. CASE a = "pay"
    <3>1. RecordPayment(r, seen.totals) /\ run'[r].status = "PAID"
      BY <1>r, <1>1, <2>2 DEF TransitionCommit, To
    <3>2. PICK row : cash' = [cash EXCEPT ![r] = row]
      BY <3>1 DEF RecordPayment
    <3>3. payments' = [payments EXCEPT ![r] = Min({payments[r] + 1, 2})]
      BY <3>1 DEF RecordPayment, Typed, TypeOK
    <3>4. payments[r] \in 0..2 /\ payments[r] = 0
      BY <1>1, <1>8 DEF Typed, TypeOK
    <3>5. Min({payments[r] + 1, 2}) = 1
      BY <3>4 DEF Min
    <3> QED BY <1>1, <3>1, <3>2, <3>3, <3>5 DEF AloneFacts, Settled, Typed, TypeOK
  <2> QED BY <2>1, <2>2
<1>10. \A o \in Request : req'[o] = Idle /\ StillSo(o)'
  BY <1>1, EndsAlone DEF Idle, Moves
<1>11. PaidStays
  BY <1>1, <1>8 DEF AloneFacts, Settled, PaidStays
<1> QED BY <1>1, <1>5, <1>6, <1>7, <1>9, <1>10, <1>11 DEF AloneFacts, Sole

LEMMA AbortAlone ==
  ASSUME Typed, AloneFacts, NEW q \in Request, Abort(q)
  PROVE  AloneFacts'
<1>1. Finish(q) /\ req[q] # Idle /\ UNCHANGED <<run, cash, ledger, payments>>
  BY DEF Abort
<1>2. \A o \in Request : req'[o] = Idle /\ StillSo(o)'
  BY <1>1, EndsAlone
<1> QED BY <1>1, <1>2 DEF AloneFacts, Sole, Whole, Covered, Settled, MayApprove

LEMMA NextAlone ==
  ASSUME IInv, Typed, Typed', AloneFacts, MCNext, alone'
  PROVE  AloneFacts' /\ PaidStays
<1>1. Next /\ Sole' /\ (req' # req \/ \A q \in Request : req[q] = Idle)
  BY StepsAlone DEF MCNext, Typed, TypeOK
<1>2. ASSUME NEW r \in RunId, NEW p \in Period, NEW sheet \in Sheet, Create(r, p, sheet)
      PROVE  AloneFacts' /\ PaidStays
  <2>1. \A q \in Request : req[q] = Idle
    BY <1>1, <1>2 DEF Create, Slot
  <2>2. \A s \in DOMAIN run : run'[s] = run[s]
    BY <1>2 DEF Create, Exists
  <2> QED BY <1>2, <2>1, <2>2, CreateAlone DEF AloneFacts, Settled, PaidStays
<1>3. ASSUME AloneFacts', UNCHANGED run
      PROVE  AloneFacts' /\ PaidStays
  BY <1>3 DEF AloneFacts, Settled, PaidStays
<1>4. ASSUME NEW q \in Request,
             \/ \E r \in RunId, p \in Period, sheet \in Sheet : UpdateRead(q, r, p, sheet)
             \/ \E r \in RunId : DeleteRead(q, r)
             \/ \E r \in RunId, op \in Moves, action \in Action, u \in User :
                   TransitionRead(q, r, op, action, u)
      PROVE  AloneFacts' /\ PaidStays
  <2>1. UNCHANGED run
    BY <1>4 DEF UpdateRead, DeleteRead, TransitionRead
  <2> QED BY <1>1, <1>3, <1>4, <2>1, ReadsAlone
<1>5. ASSUME NEW q \in Request, UpdateLock(q)
      PROVE  AloneFacts' /\ PaidStays
  <2>1. UNCHANGED run
    BY <1>5 DEF UpdateLock
  <2> QED BY <1>1, <1>3, <1>5, <2>1, UpdateLockAlone DEF IInv
<1>6. ASSUME NEW q \in Request, Abort(q)
      PROVE  AloneFacts' /\ PaidStays
  <2>1. UNCHANGED run
    BY <1>6 DEF Abort
  <2> QED BY <1>3, <1>6, <2>1, AbortAlone
<1> QED BY <1>1, <1>2, <1>4, <1>5, <1>6, UpdateCommitAlone, DeleteCommitAlone,
        TransitionCommitAlone DEF Next, Moves

LEMMA InitAlone == Init => AloneFacts
  BY DEF Init, AloneFacts, Sole, Settled, StillSo, Idle, Moves

Alone == alone => AloneFacts

LEMMA AlonesHold == MCSpec => [](IInv /\ Typed) /\ []Alone
<1>1. MCSpec => [](IInv /\ Typed)
  <2>1. MCInit => Init
    BY DEF MCInit
  <2>2. [MCNext]_mcvars => [Next]_vars
    BY DEF MCNext, mcvars, vars
  <2> QED BY <2>1, <2>2, Inductive, PTL DEF MCSpec, Spec
<1>2. MCInit => Alone
  BY InitAlone DEF MCInit, Alone
<1>3. Alone /\ IInv /\ Typed /\ Typed' /\ [MCNext]_mcvars => Alone'
  <2> SUFFICES ASSUME Alone, IInv, Typed, Typed', [MCNext]_mcvars, alone'
               PROVE  AloneFacts'
    BY DEF Alone
  <2>1. CASE MCNext
    BY <2>1, NextAlone DEF Alone, MCNext
  <2>2. CASE UNCHANGED mcvars
    BY <2>2 DEF mcvars, vars, Alone, AloneFacts, Sole, Whole, Covered, Settled, StillSo, Holds,
       MayApprove
  <2> QED BY <2>1, <2>2
<1> QED BY <1>1, <1>2, <1>3, PTL DEF MCSpec

-----------------------------------------------------------------------------
(* Totals.                                                                 *)

Amounts == [base : Nat, bonuses : Nat, deductions : Nat, tax : Nat]
TotalsRow == [gross : Int, deductions : Int, tax : Int, net : Int]

\* A sum of cents over the items of a list is an integer.
LEMMA SumOfSheet ==
  ASSUME NEW f, IsFiniteSet(DOMAIN f), \A e \in DOMAIN f : f[e] \in Int
  PROVE  SumFunction(f) \in Int
  BY SumRemoves DEF SumFunction, Integral

LEMMA TotalsAreSums ==
  ASSUME NEW sheet \in Sheet
  PROVE  Totals(sheet) \in TotalsRow
<1>1. /\ IsFiniteSet(DOMAIN sheet)
      /\ \A e \in DOMAIN sheet : sheet[e] \in Amounts
  BY ConstantsOK DEF Amounts
<1>2. \A e \in DOMAIN sheet :
        /\ RoundToCents(sheet[e].base) \in Int /\ RoundToCents(sheet[e].bonuses) \in Int
        /\ RoundToCents(sheet[e].deductions) \in Int /\ RoundToCents(sheet[e].tax) \in Int
        /\ Net(sheet[e]) \in Int
  BY <1>1 DEF Amounts, RoundToCents, Net
<1> DEFINE gross == [e \in DOMAIN sheet |-> RoundToCents(sheet[e].base) + RoundToCents(sheet[e].bonuses)]
           deductions == [e \in DOMAIN sheet |-> RoundToCents(sheet[e].deductions)]
           tax == [e \in DOMAIN sheet |-> RoundToCents(sheet[e].tax)]
           net == [e \in DOMAIN sheet |-> Net(sheet[e])]
<1>3. /\ SumFunction(gross) \in Int /\ SumFunction(deductions) \in Int
      /\ SumFunction(tax) \in Int /\ SumFunction(net) \in Int
  <2>1. /\ DOMAIN gross = DOMAIN sheet /\ DOMAIN deductions = DOMAIN sheet
        /\ DOMAIN tax = DOMAIN sheet /\ DOMAIN net = DOMAIN sheet
    OBVIOUS
  <2>2. \A e \in DOMAIN sheet :
          gross[e] \in Int /\ deductions[e] \in Int /\ tax[e] \in Int /\ net[e] \in Int
    BY <1>2
  <2> HIDE DEF gross, deductions, tax, net
  <2> QED BY <1>1, <2>1, <2>2, SumOfSheet
<1>4. Totals(sheet) = [gross |-> SumFunction(gross), deductions |-> SumFunction(deductions),
                       tax |-> SumFunction(tax), net |-> SumFunction(net)]
  BY DEF Totals, Total
<1> HIDE DEF gross, deductions, tax, net
<1> QED BY <1>3, <1>4 DEF TotalsRow

\* The sum over a single item.
LEMMA OneItem ==
  ASSUME NEW i, i.totals.net \in Int
  PROVE  SumFunction([j \in {i} |-> j.totals.net]) = i.totals.net
<1> DEFINE f == [j \in {i} |-> j.totals.net]
<1>1. DOMAIN f = {i} /\ f[i] = i.totals.net
  OBVIOUS
<1> HIDE DEF f
<1>2. SumFunctionOnSet(f, {i}) = f[i] + 0
  BY SumSingle
<1>3. SumFunction(f) = i.totals.net
  BY <1>1, <1>2 DEF SumFunction
<1> QED BY <1>3 DEF f

\* One request at a time, a run awaiting or past payment has an approval of its present
\* total, which is the sum of its items (updatePayroll, applyStatusToItems).
THEOREM ApprovalsCover == MCSpec => []ApprovalCoversTotalAlone
<1>1. Alone => ApprovalCoversTotalAlone
  <2> SUFFICES ASSUME AloneFacts, NEW r \in RunId, Exists(r), run[r].status \in {"APPROVED", "PAID"}
               PROVE  /\ run[r].approvedBy # None
                      /\ MayApprove(run[r].approvedBy, run[r].totals)
                      /\ run[r].totals.net = SumFunction([i \in run[r].items |-> i.totals.net])
    BY DEF Alone, ApprovalCoversTotalAlone, ApprovalCoversTotal
  <2>1. Whole(r) /\ Covered(r)
    BY DEF AloneFacts, Exists
  <2>2. PICK i : run[r].items = {i} /\ i.totals = run[r].totals
    BY <2>1 DEF Whole
  <2>3. run[r].totals \in TotalsRow
    BY <2>1, TotalsAreSums DEF Whole
  <2>4. i.totals.net \in Int
    BY <2>2, <2>3 DEF TotalsRow
  <2> QED BY <2>1, <2>2, <2>4, OneItem DEF Covered
<1> QED BY <1>1, AlonesHold, PTL

\* One request at a time, a run that was paid out stays as it was paid: no step changes or
\* deletes it ("Paid payrolls cannot be deleted").
THEOREM PaidRunsStay == MCSpec => PaidStaysAlone
<1>1. IInv /\ Typed /\ Typed' /\ Alone /\ [MCNext]_mcvars => [alone' => PaidStays]_mcvars
  BY NextAlone DEF Alone, MCNext
<1>2. MCSpec => [](IInv /\ Typed)
  BY AlonesHold
<1> QED BY <1>1, <1>2, AlonesHold, PTL DEF MCSpec, PaidStaysAlone

-----------------------------------------------------------------------------
(* The cashbook and the journal, under every interleaving.                 *)

\* The totals of every run, and of every run a move has read, are sums of amounts.
Summed ==
  /\ \A r \in DOMAIN run : run[r].totals \in TotalsRow
  /\ \A q \in Request : req[q].op \in Moves => req[q].seen.totals \in TotalsRow

\* A run without a payment has no cashbook row.
NoRowUnpaid == \A r \in RunId : payments[r] = 0 => cash[r] = None

Booked == Summed /\ NoRowUnpaid /\ CashbookMatchesLedger

\* A batch the journal takes credits cash with the amount of the row, or has no cash line
\* and an expense of that amount.
LEMMA BatchTellsAmount ==
  ASSUME NEW t \in TotalsRow, ExpenseDebit(t) > 0
  PROVE  PaidAmount(t) = IF CashCredit(t) > 0 THEN CashCredit(t) ELSE ExpenseDebit(t)
<1>1. t.net \in Int /\ t.gross \in Int
  BY DEF TotalsRow
<1>2. CASE t.net > 0
  <2>1. Max({t.net, 0}) = t.net
    BY <1>1, <1>2 DEF Max
  <2> QED BY <1>1, <1>2, <2>1 DEF CashCredit, PaidAmount
<1>3. CASE ~(t.net > 0)
  <2>1. t.net <= 0 /\ Max({t.net, 0}) = 0
    BY <1>1, <1>3 DEF Max
  <2>2. t.gross > 0 /\ ExpenseDebit(t) = t.gross /\ PaidAmount(t) = t.gross
    BY <1>1, <1>3 DEF ExpenseDebit, PaidAmount
  <2>3. CashCredit(t) = t.gross \/ CashCredit(t) = 0
    BY <2>1, <2>2 DEF CashCredit
  <2> QED BY <1>1, <2>2, <2>3
<1> QED BY <1>2, <1>3

\* One request changes: what it has read, if it is a move, is summed.
LEMMA RequestSummed ==
  ASSUME Typed, Summed, NEW q \in Request, UNCHANGED run, DOMAIN req' = Request,
         \A o \in Request : o # q => req'[o] = req[o],
         req'[q].op \in Moves => req'[q].seen.totals \in TotalsRow
  PROVE  Summed'
  BY DEF Summed

\* One run is written and a request ends.
LEMMA RunSummed ==
  ASSUME Typed, Summed, NEW q \in Request, Finish(q), NEW r, DOMAIN run' = DOMAIN run,
         \A s \in DOMAIN run : s # r => run'[s] = run[s], run'[r].totals \in TotalsRow
  PROVE  Summed'
<1>1. req'[q] = Idle /\ \A o \in Request : o # q => req'[o] = req[o]
  BY DEF Finish, Typed, TypeOK
<1>2. \A o \in Request : req'[o].op \in Moves => req'[o].seen.totals \in TotalsRow
  BY <1>1 DEF Summed, Idle, Moves
<1>3. \A s \in DOMAIN run' : run'[s].totals \in TotalsRow
  BY DEF Summed
<1> QED BY <1>2, <1>3 DEF Summed

LEMMA NextSummed ==
  ASSUME IInv, Typed, Summed, [Next]_vars
  PROVE  Summed'
<1>1. ASSUME NEW r \in RunId, NEW p \in Period, NEW sheet \in Sheet, Create(r, p, sheet)
      PROVE  Summed'
  <2>1. /\ run' = [s \in DOMAIN run \cup {r} |-> IF s = r THEN NewRun(p, sheet) ELSE run[s]]
        /\ UNCHANGED req
    BY <1>1 DEF Create, Slot
  <2>2. NewRun(p, sheet).totals = Totals(sheet)
    BY DEF NewRun
  <2>3. \A s \in DOMAIN run' : run'[s].totals \in TotalsRow
    BY <2>1, <2>2, TotalsAreSums DEF Summed
  <2> QED BY <2>1, <2>3 DEF Summed
<1>2. ASSUME NEW q \in Request, NEW r \in RunId, NEW p \in Period, NEW sheet \in Sheet,
             UpdateRead(q, r, p, sheet)
      PROVE  Summed'
  BY <1>2, RequestSummed DEF UpdateRead, Begin, Moves, Typed, TypeOK
<1>3. ASSUME NEW q \in Request, UpdateLock(q)
      PROVE  Summed'
  <2>1. /\ UNCHANGED run /\ req[q].op = "update"
        /\ req' = [req EXCEPT ![q].old = {i.gen : i \in run[req[q].id].items}]
    BY <1>3 DEF UpdateLock
  <2>2. DOMAIN req[q] = {"op", "id", "period", "sheet", "old"}
    BY <2>1 DEF IInv, Shape
  <2>3. /\ DOMAIN req' = Request /\ req'[q].op = "update"
        /\ \A o \in Request : o # q => req'[o] = req[o]
    BY <2>1, <2>2 DEF Typed, TypeOK
  <2> QED BY <2>1, <2>3, RequestSummed DEF Moves
<1>4. ASSUME NEW q \in Request, UpdateCommit(q)
      PROVE  Summed'
  <2>r. PICK r : r = req[q].id
    OBVIOUS
  <2>1. r \in DOMAIN run /\ req[q].sheet \in Sheet /\ Finish(q) /\ RunRow(run[r])
    BY <1>4, <2>r, RequestKinds DEF UpdateCommit, Typed, TypeOK, Exists
  <2>2. PICK g, items :
          run' = [run EXCEPT ![r].period = req[q].period, ![r].gen = g,
                             ![r].totals = Totals(req[q].sheet), ![r].items = items]
    BY <1>4, <2>r DEF UpdateCommit
  <2>3. "totals" \in DOMAIN run[r]
    BY <2>1 DEF RunRow
  <2>4. /\ DOMAIN run' = DOMAIN run /\ \A s \in DOMAIN run : s # r => run'[s] = run[s]
        /\ run'[r].totals = Totals(req[q].sheet)
    BY <2>1, <2>2, <2>3
  <2>5. run'[r].totals \in TotalsRow
    BY <2>1, <2>4, TotalsAreSums
  <2> QED BY <2>1, <2>4, <2>5, RunSummed
<1>5. ASSUME NEW q \in Request, NEW r \in RunId, DeleteRead(q, r)
      PROVE  Summed'
  BY <1>5, RequestSummed DEF DeleteRead, Begin, Moves, Typed, TypeOK
<1>6. ASSUME NEW q \in Request, DeleteCommit(q)
      PROVE  Summed'
  <2>r. PICK r : r = req[q].id
    OBVIOUS
  <2>1. /\ r \in DOMAIN run /\ run' = [run EXCEPT ![r].deleted = TRUE] /\ Finish(q)
        /\ RunRow(run[r])
    BY <1>6, <2>r, RequestKinds DEF DeleteCommit, Typed, TypeOK, Exists
  <2>2. /\ DOMAIN run' = DOMAIN run /\ \A s \in DOMAIN run : s # r => run'[s] = run[s]
        /\ run'[r].totals = run[r].totals
    BY <2>1 DEF RunRow
  <2> QED BY <2>1, <2>2, RunSummed DEF Summed
<1>7. ASSUME NEW q \in Request, NEW r \in RunId, NEW op \in Moves, NEW action \in Action,
             NEW u \in User, TransitionRead(q, r, op, action, u)
      PROVE  Summed'
  <2>1. /\ req' = [req EXCEPT ![q] = [op |-> op, id |-> r, action |-> action, user |-> u,
                                      seen |-> run[r]]]
        /\ UNCHANGED run /\ r \in DOMAIN run
    BY <1>7 DEF TransitionRead, Begin, Live, Exists
  <2>2. /\ DOMAIN req' = Request /\ req'[q].seen = run[r]
        /\ \A o \in Request : o # q => req'[o] = req[o]
    BY <2>1 DEF Typed, TypeOK
  <2> QED BY <2>1, <2>2, RequestSummed DEF Summed
<1>8. ASSUME NEW q \in Request, TransitionCommit(q)
      PROVE  Summed'
  <2>r. PICK r : r = req[q].id
    OBVIOUS
  <2>1. /\ r \in DOMAIN run /\ DOMAIN run' = DOMAIN run /\ Finish(q)
        /\ \A s \in DOMAIN run : s # r => run'[s] = run[s]
        /\ run'[r].totals = run[r].totals
    BY <1>8, <2>r, CommitWrites
  <2> QED BY <2>1, RunSummed DEF Summed
<1>9. ASSUME NEW q \in Request, Abort(q)
      PROVE  Summed'
  BY <1>9, RequestSummed DEF Abort, Finish, Idle, Moves, Typed, TypeOK
<1>10. CASE UNCHANGED vars
  BY <1>10 DEF vars, Summed
<1> QED BY <1>1, <1>2, <1>3, <1>4, <1>5, <1>6, <1>7, <1>8, <1>9, <1>10 DEF Next, Moves

\* A payment writes the row and the batch of one run from the same totals.
LEMMA PaymentBooked ==
  ASSUME Typed, Booked, NEW r \in RunId, NEW t \in TotalsRow, RecordPayment(r, t)
  PROVE  NoRowUnpaid' /\ CashbookMatchesLedger'
<1>1. PICK posted \in BOOLEAN :
        /\ posted => ExpenseDebit(t) > 0
        /\ ledger' = [ledger EXCEPT ![r] = IF posted THEN t ELSE None]
        /\ cash' = [cash EXCEPT ![r] = [amount |-> PaidAmount(t),
                      posted |-> posted \/ (cash[r] # None /\ cash[r].posted)]]
        /\ payments' = [payments EXCEPT ![r] = Min({payments[r] + 1, 2})]
  BY DEF RecordPayment, Typed, TypeOK
<1>2. /\ ledger'[r] = (IF posted THEN t ELSE None)
      /\ cash'[r].amount = PaidAmount(t)
      /\ cash'[r].posted <=> (posted \/ (cash[r] # None /\ cash[r].posted))
      /\ payments'[r] = Min({payments[r] + 1, 2}) /\ payments[r] \in 0..2
      /\ \A s \in RunId : s # r => /\ cash'[s] = cash[s] /\ ledger'[s] = ledger[s]
                                   /\ payments'[s] = payments[s]
  BY <1>1 DEF Typed, TypeOK
<1>3. payments'[r] > 0 /\ payments'[r] \in 0..2 /\ (payments'[r] <= 1 => payments[r] = 0)
  <2>1. CASE payments[r] = 0
    <3>1. Min({payments[r] + 1, 2}) = 1
      BY <2>1 DEF Min
    <3> QED BY <1>2, <2>1, <3>1
  <2>2. CASE payments[r] # 0
    <3>1. Min({payments[r] + 1, 2}) = 2
      BY <1>2, <2>2 DEF Min
    <3> QED BY <1>2, <3>1
  <2> QED BY <2>1, <2>2
<1>4. NoRowUnpaid'
  BY <1>2, <1>3 DEF Booked, NoRowUnpaid
<1>5. t # None
  BY ConstantsOK DEF TotalsRow
<1>6. posted => /\ ledger'[r] = t /\ cash'[r].posted
                /\ cash'[r].amount = IF CashCredit(t) > 0 THEN CashCredit(t) ELSE ExpenseDebit(t)
  BY <1>1, <1>2, BatchTellsAmount
<1>7. cash'[r].posted /\ payments'[r] <= 1 => posted
  BY <1>2, <1>3 DEF Booked, NoRowUnpaid
<1> SUFFICES ASSUME NEW s \in RunId, cash'[s] # None
             PROVE  /\ ledger'[s] # None =>
                         /\ cash'[s].posted
                         /\ cash'[s].amount = IF CashCredit(ledger'[s]) > 0
                                              THEN CashCredit(ledger'[s])
                                              ELSE ExpenseDebit(ledger'[s])
                    /\ cash'[s].posted /\ payments'[s] <= 1 => ledger'[s] # None
  BY <1>4 DEF CashbookMatchesLedger, CashCredit, Withheld, ExpenseDebit
<1>8. CASE s = r
  BY <1>2, <1>5, <1>6, <1>7, <1>8
<1>9. CASE s # r
  BY <1>2, <1>9 DEF Booked, CashbookMatchesLedger
<1> QED BY <1>8, <1>9

LEMMA NextBooked ==
  ASSUME IInv, Typed, Booked, [Next]_vars
  PROVE  Booked'
<1>1. Summed'
  BY NextSummed DEF Booked
<1>2. CASE UNCHANGED <<cash, ledger, payments>>
  BY <1>1, <1>2 DEF Booked, NoRowUnpaid, CashbookMatchesLedger, CashCredit, Withheld, ExpenseDebit
<1>3. ASSUME NEW q \in Request, TransitionCommit(q), req[q].action = "pay"
      PROVE  Booked'
  <2> DEFINE t == req[q].seen.totals
  <2>1. PICK r \in RunId : r = req[q].id /\ req[q].op \in Moves
    BY <1>3, CommitWrites
  <2>2. t \in TotalsRow /\ RecordPayment(r, t)
    BY <1>3, <2>1 DEF TransitionCommit, Booked, Summed
  <2> QED BY <1>1, <2>2, PaymentBooked DEF Booked
<1>4. UNCHANGED <<cash, ledger, payments>>
        \/ \E q \in Request : TransitionCommit(q) /\ req[q].action = "pay"
  BY DEF vars, Next, Create, UpdateRead, UpdateLock, UpdateCommit, DeleteRead, DeleteCommit,
     TransitionRead, TransitionCommit, Abort
<1> QED BY <1>2, <1>3, <1>4

\* However requests interleave, the cashbook row and the batch of a run tell of one payment
\* (recordPayrollPayment): the row's amount is the cash credited, or the expense where all of
\* it is withheld, and a row marked POSTED has its batch unless the run was paid twice.
THEOREM CashbookFollowsLedger == Spec => []CashbookMatchesLedger
<1>1. Init => Booked
  BY DEF Init, Booked, Summed, NoRowUnpaid, CashbookMatchesLedger, Idle, Moves
<1>2. IInv /\ Typed /\ Booked /\ [Next]_vars => Booked'
  BY NextBooked
<1>3. Booked => CashbookMatchesLedger
  BY DEF Booked
<1> QED BY <1>1, <1>2, <1>3, Inductive, PTL DEF Spec
=============================================================================
