--------------------------- MODULE Journal_proofs ---------------------------
(***************************************************************************)
(* Proofs about Journal: type correctness, the links of reversals, the     *)
(* refinement of SourceLedger, the audit trail, balanced entries, and what *)
(* holds one request at a time, for every chart of accounts, set of        *)
(* sources, drafts, periods, batches and any number of requests.           *)
(***************************************************************************)
EXTENDS MCJournal, SequenceTheorems, Sums

USE DEF Exists

-----------------------------------------------------------------------------
(* What the operators that write batches do.                               *)

\* Write adds the fresh rows, marks the reversed originals and leaves the rest.
LEMMA WriteEffect ==
  ASSUME NEW fresh, NEW rev, Write(fresh, rev), DOMAIN fresh \cap DOMAIN batch = {}
  PROVE  /\ DOMAIN batch' = DOMAIN batch \cup DOMAIN fresh
         /\ \A b \in DOMAIN fresh : batch'[b] = fresh[b]
         /\ \A b \in DOMAIN batch \cap DOMAIN rev :
              batch'[b] = [batch[b] EXCEPT !.status = "REVERSED", !.reversedBy = rev[b]]
         /\ \A b \in DOMAIN batch \ DOMAIN rev : batch'[b] = batch[b]
  BY DEF Write

\* The reversals retractPriorForSource makes: one per reversible original, each under
\* an id of its own.
LEMMA ReversalsMade ==
  ASSUME NEW originals, NEW ids, NEW rev \in ReversalIds(originals, ids)
  PROVE  /\ DOMAIN rev = ReversibleOf(originals)
         /\ DOMAIN ReversalRows(rev) \subseteq ids
         /\ \A b \in DOMAIN rev : rev[b] \in ids /\ rev[b] \in DOMAIN ReversalRows(rev)
         /\ \A b \in DOMAIN rev : ReversalRows(rev)[rev[b]] = ReversalOf(b)
         /\ \A n \in DOMAIN ReversalRows(rev) : \E b \in DOMAIN rev : n = rev[b]
  <1> DEFINE O == ReversibleOf(originals)
  <1>1. rev \in [O -> ids] /\ \A a, b \in O : rev[a] = rev[b] => a = b
    BY DEF ReversalIds, Injection, IsInjective
  <1>2. DOMAIN ReversalRows(rev) = {rev[b] : b \in O}
    BY <1>1 DEF ReversalRows, Range
  <1>3. ASSUME NEW b \in O
        PROVE  ReversalRows(rev)[rev[b]] = ReversalOf(b)
    <2>1. (CHOOSE a \in DOMAIN rev : rev[a] = rev[b]) = b
      BY <1>1
    <2>. QED  BY <1>1, <1>2, <2>1 DEF ReversalRows, Range
  <1>. QED  BY <1>1, <1>2, <1>3

\* What a hook writes: each row it posts under an id of its own, and the reversals.
HookWrites(q, fresh, new, rev) ==
  /\ Write(fresh, rev)
  /\ DOMAIN rev = ReversibleOf(req[q].prior)
  /\ DOMAIN fresh \subseteq Free
  /\ \A i \in DOMAIN req[q].rows : new[i] \in DOMAIN fresh /\ fresh[new[i]] = req[q].rows[i]
  /\ \A b \in DOMAIN rev : rev[b] \in DOMAIN fresh /\ fresh[rev[b]] = ReversalOf(b)
  /\ \A x \in DOMAIN fresh : \/ \E i \in DOMAIN req[q].rows : x = new[i]
                             \/ \E b \in DOMAIN rev : x = rev[b]

LEMMA RowsMade ==
  ASSUME NEW q, NEW new, NEW ids, NEW rev, new \in Injection(DOMAIN req[q].rows, Free),
         ids = Free \ Range(new), rev \in ReversalIds(req[q].prior, ids),
         Write(HookRows(q, new, rev), rev)
  PROVE  HookWrites(q, HookRows(q, new, rev), new, rev)
  <1> DEFINE D == DOMAIN req[q].rows
  <1>1. new \in [D -> Free] /\ \A i, j \in D : new[i] = new[j] => i = j
    BY DEF Injection, IsInjective
  <1>2. Range(new) = {new[i] : i \in D} /\ Range(new) \subseteq Free /\ DOMAIN new = D
    BY <1>1 DEF Range
  <1>3. /\ DOMAIN rev = ReversibleOf(req[q].prior)
        /\ \A b \in DOMAIN rev : rev[b] \in Free \ Range(new)
        /\ \A b \in DOMAIN rev : ReversalRows(rev)[rev[b]] = ReversalOf(b)
    BY ReversalsMade
  <1>4. Range(rev) = {rev[b] : b \in DOMAIN rev}
    BY DEF Range
  <1>5. DOMAIN HookRows(q, new, rev) = Range(new) \cup {rev[b] : b \in DOMAIN rev}
    BY <1>4 DEF HookRows
  <1>6. ASSUME NEW i \in D
        PROVE  new[i] \in DOMAIN HookRows(q, new, rev) /\ HookRows(q, new, rev)[new[i]] = req[q].rows[i]
    <2>1. (CHOOSE j \in DOMAIN new : new[j] = new[i]) = i
      BY <1>1, <1>2
    <2>2. new[i] \in Range(new)
      BY <1>2
    <2>. QED  BY <1>5, <2>1, <2>2 DEF HookRows
  <1>7. ASSUME NEW b \in DOMAIN rev
        PROVE  rev[b] \in DOMAIN HookRows(q, new, rev) /\ HookRows(q, new, rev)[rev[b]] = ReversalOf(b)
    BY <1>3, <1>4, <1>5 DEF HookRows
  <1>8. \A x \in DOMAIN HookRows(q, new, rev) : \/ \E i \in D : x = new[i]
                                                \/ \E b \in DOMAIN rev : x = rev[b]
    BY <1>2, <1>5
  <1>9. DOMAIN HookRows(q, new, rev) \subseteq Free
    BY <1>2, <1>3, <1>5
  <1>. QED  BY <1>3, <1>6, <1>7, <1>8, <1>9, Zenon DEF HookWrites

LEMMA HookWritten ==
  ASSUME NEW q, HookCommit(q)
  PROVE  \E fresh, new, rev : HookWrites(q, fresh, new, rev)
  <1>1. PICK new, ids, rev :
          /\ new \in Injection(DOMAIN req[q].rows, Free) /\ ids = Free \ Range(new)
          /\ rev \in ReversalIds(req[q].prior, ids)
          /\ Write(HookRows(q, new, rev), rev)
    BY Zenon DEF HookCommit
  <1>2. HookWrites(q, HookRows(q, new, rev), new, rev)
    BY <1>1, RowsMade
  <1>. QED  BY <1>2

-----------------------------------------------------------------------------
(* Type correctness.                                                       *)

LEMMA MirrorTyped ==
  ASSUME NEW lines, \A i \in DOMAIN lines : lines[i] \in Line
  PROVE  /\ DOMAIN Mirror(lines) = DOMAIN lines
         /\ \A i \in DOMAIN Mirror(lines) : Mirror(lines)[i] \in Line
  BY DEF Mirror, Line

LEMMA RoundedTyped ==
  ASSUME NEW draft \in Draft
  PROVE  /\ IsFiniteSet(DOMAIN Rounded(draft))
         /\ \A i \in DOMAIN Rounded(draft) : Rounded(draft)[i] \in Line
  <1>1. draft \in Seq([account : Account, debit : Int, credit : Int])
    BY ConstantsOK
  <1>2. \A i \in DOMAIN draft : draft[i] \in [account : Account, debit : Int, credit : Int]
    <2>1. DOMAIN draft = 1..Len(draft)
      BY <1>1, LenProperties
    <2>. QED  BY <1>1, <2>1, ElementOfSeq
  <1>3. \A n \in Int : RoundToCents(n) \in Int
    BY DEF RoundToCents
  <1>4. IsFiniteSet(DOMAIN Rounded(draft))
    <2>1. DOMAIN Rounded(draft) = 1..Len(draft) /\ Len(draft) \in Nat
      BY <1>1, LenProperties DEF Rounded
    <2>. QED  BY <2>1, FS_Interval
  <1>. QED  BY <1>2, <1>3, <1>4 DEF Rounded, Line

LEMMA PostingTyped ==
  ASSUME NEW byHook \in BOOLEAN, NEW src \in HandSource, NEW draft \in Draft, NEW d \in Day
  PROVE  BatchRow(PostingOf(byHook, src, Rounded(draft), d))
  BY RoundedTyped DEF BatchRow, PostingOf, HandSource

\* The line lists a hook posts: at least one, each a draft.
LEMMA DraftsTyped ==
  ASSUME NEW drafts \in Together
  PROVE  DOMAIN drafts # {} /\ \A i \in DOMAIN drafts : drafts[i] \in Draft
  <1>1. drafts \in Seq(Draft) /\ drafts # <<>>
    BY ConstantsOK
  <1>2. DOMAIN drafts = 1..Len(drafts) /\ Len(drafts) \in Nat
    BY <1>1, LenProperties
  <1>3. Len(drafts) # 0
    BY <1>1, EmptySeq
  <1>. QED  BY <1>1, <1>2, <1>3, ElementOfSeq

LEMMA ReversalTyped ==
  ASSUME NEW b \in DOMAIN batch, DOMAIN batch \subseteq BatchId, BatchRow(batch[b]), today \in Day
  PROVE  BatchRow(ReversalOf(b))
  BY MirrorTyped DEF BatchRow, ReversalOf

LEMMA MarkedTyped ==
  ASSUME NEW row, BatchRow(row), NEW n \in BatchId
  PROVE  BatchRow([row EXCEPT !.status = "REVERSED", !.reversedBy = n])
  BY DEF BatchRow

LEMMA CascadeTyped ==
  ASSUME NEW row, BatchRow(row), NEW a
  PROVE  BatchRow([row EXCEPT !.lines = WithoutAccount(@, a)])
  <1>1. DOMAIN WithoutAccount(row.lines, a) \subseteq DOMAIN row.lines
    BY DEF WithoutAccount, Restrict
  <1>2. IsFiniteSet(DOMAIN WithoutAccount(row.lines, a))
    BY <1>1, FS_Subset DEF BatchRow
  <1>. QED  BY <1>2 DEF BatchRow, WithoutAccount, Restrict

\* Write keeps every batch well typed when the fresh rows are.
LEMMA WriteTyped ==
  ASSUME NEW fresh, NEW rev, Write(fresh, rev),
         DOMAIN batch \subseteq BatchId, \A b \in DOMAIN batch : BatchRow(batch[b]),
         DOMAIN fresh \subseteq BatchId \ DOMAIN batch,
         \A b \in DOMAIN fresh : BatchRow(fresh[b]),
         \A b \in DOMAIN rev : rev[b] \in BatchId
  PROVE  /\ DOMAIN batch \subseteq DOMAIN batch' /\ DOMAIN batch' \subseteq BatchId
         /\ \A b \in DOMAIN batch' : BatchRow(batch'[b])
  <1>1. /\ DOMAIN batch' = DOMAIN batch \cup DOMAIN fresh
        /\ \A b \in DOMAIN fresh : batch'[b] = fresh[b]
        /\ \A b \in DOMAIN batch \cap DOMAIN rev :
             batch'[b] = [batch[b] EXCEPT !.status = "REVERSED", !.reversedBy = rev[b]]
        /\ \A b \in DOMAIN batch \ DOMAIN rev : batch'[b] = batch[b]
    <2>1. DOMAIN fresh \cap DOMAIN batch = {}
      OBVIOUS
    <2>. QED  BY <2>1, WriteEffect
  <1>2. \A b \in DOMAIN batch \cap DOMAIN rev :
          BatchRow([batch[b] EXCEPT !.status = "REVERSED", !.reversedBy = rev[b]])
    BY MarkedTyped
  <1>3. DOMAIN batch \subseteq DOMAIN batch' /\ DOMAIN batch' \subseteq BatchId
    BY <1>1
  <1>4. ASSUME NEW b \in DOMAIN batch' PROVE BatchRow(batch'[b])
    <2>1. CASE b \in DOMAIN fresh
      BY <1>1, <2>1
    <2>2. CASE b \in DOMAIN batch \cap DOMAIN rev
      BY <1>1, <1>2, <2>2
    <2>3. CASE b \in DOMAIN batch \ DOMAIN rev
      BY <1>1, <2>3
    <2>. QED  BY <1>1, <2>1, <2>2, <2>3
  <1>. QED  BY <1>3, <1>4

\* Requests stay well typed while batches are only added, and when one of them ends.
LEMMA RequestsKept ==
  ASSUME TypeOK, DOMAIN batch \subseteq DOMAIN batch', UNCHANGED req
  PROVE  \A q \in Request : RequestOK(req[q])'
  BY DEF TypeOK, RequestOK, BatchRow

LEMMA RequestsFinished ==
  ASSUME TypeOK, DOMAIN batch \subseteq DOMAIN batch', NEW q \in Request, Finish(q)
  PROVE  /\ DOMAIN req' = Request
         /\ \A r \in Request : RequestOK(req[r])'
  BY DEF TypeOK, RequestOK, BatchRow, Finish

LEMMA RequestBegun ==
  ASSUME TypeOK, UNCHANGED batch, NEW q \in Request, NEW r, Begin(q, r), RequestOK(r)
  PROVE  /\ DOMAIN req' = Request
         /\ \A x \in Request : RequestOK(req[x])'
  <1>1. \A x \in Request : RequestOK(req[x])
    BY DEF TypeOK
  <1>2. \A x \in Request : req'[x] = IF x = q THEN r ELSE req[x]
    BY DEF TypeOK, Begin
  <1>3. \A x \in Request : req'[x] = req[x] \/ req'[x] = r
    BY <1>2
  <1>4. DOMAIN req' = Request
    BY DEF TypeOK, Begin
  <1>5. ASSUME NEW x \in Request PROVE RequestOK(req[x])'
    <2>1. PICK y : y = req'[x]
      OBVIOUS
    <2>2. RequestOK(y)
      BY <1>1, <1>3, <2>1
    <2>. QED  BY <2>1, <2>2 DEF RequestOK, BatchRow
  <1>. QED  BY <1>4, <1>5

LEMMA InitTyped == Init => TypeOK
  <1> SUFFICES ASSUME Init PROVE TypeOK
    OBVIOUS
  <1>1. acct \in [Account -> AccountRow]
    <2>1. \A f \in Form : AccountWith(f) \in AccountRow
      BY ConstantsOK DEF AccountWith, AccountRow
    <2>2. AbsentAccount \in AccountRow
      BY DEF AbsentAccount, AccountRow
    <2> DEFINE Start == {AbsentAccount} \cup {AccountWith(f) : f \in Form}
    <2>3. Start \subseteq AccountRow
      BY <2>1, <2>2
    <2>4. acct \in [Account -> Start]
      BY DEF Init
    <2> HIDE DEF Start
    <2>. QED  BY <2>3, <2>4
  <1>2. period \in [PeriodId -> PeriodRow] /\ today \in Day
    BY ConstantsOK DEF Init, PeriodRow, Day
  <1>3. DOMAIN batch = {}
    BY DEF Init
  <1>4. DOMAIN req = Request /\ \A q \in Request : RequestOK(req[q])
    BY DEF Init, RequestOK
  <1>. QED  BY <1>1, <1>2, <1>3, <1>4 DEF TypeOK

LEMMA NextTyped == TypeOK /\ [Next]_vars => TypeOK'
<1> SUFFICES ASSUME TypeOK, [Next]_vars PROVE TypeOK'
  OBVIOUS
<1>1. ASSUME NEW a \in Account, NEW form \in Edit, UpsertAccount(a, form) PROVE TypeOK'
  <2>1. form \in [active : BOOLEAN, credit : BOOLEAN, restricted : BOOLEAN]
    BY ConstantsOK
  <2>. QED  BY <1>1, <2>1, RequestsKept DEF UpsertAccount, Slot, TypeOK, AccountRow, AccountWith
<1>2. ASSUME NEW a \in Account, NEW active \in BOOLEAN, SetAccountActive(a, active)
      PROVE  TypeOK'
  BY <1>2, RequestsKept DEF SetAccountActive, Slot, TypeOK, AccountRow
<1>3. ASSUME NEW p \in PeriodId, NEW locked \in BOOLEAN, SetPeriodLock(p, locked)
      PROVE  TypeOK'
  BY <1>3, RequestsKept DEF SetPeriodLock, Slot, TypeOK, PeriodRow
<1>4. ASSUME NEW src \in Source, RetractSource(src) PROVE TypeOK'
  <2>1. PICK rev \in ReversalIds(Prior(src), Free) : Write(ReversalRows(rev), rev)
    BY <1>4 DEF RetractSource
  <2>2. /\ DOMAIN rev \subseteq DOMAIN batch
        /\ \A b \in DOMAIN rev : rev[b] \in BatchId
        /\ DOMAIN ReversalRows(rev) \subseteq BatchId \ DOMAIN batch
        /\ \A n \in DOMAIN ReversalRows(rev) : BatchRow(ReversalRows(rev)[n])
    <3>1. \A b \in DOMAIN batch : BatchRow(ReversalOf(b))
      BY ReversalTyped DEF TypeOK
    <3>2. /\ DOMAIN rev = ReversibleOf(Prior(src))
          /\ DOMAIN ReversalRows(rev) \subseteq Free
          /\ \A b \in DOMAIN rev : rev[b] \in Free
          /\ \A b \in DOMAIN rev : ReversalRows(rev)[rev[b]] = ReversalOf(b)
          /\ \A n \in DOMAIN ReversalRows(rev) : \E b \in DOMAIN rev : n = rev[b]
      BY <2>1, ReversalsMade
    <3>3. DOMAIN rev \subseteq DOMAIN batch
      BY <3>2 DEF Prior, ReversibleOf
    <3>. QED  BY <3>1, <3>2, <3>3 DEF Free
  <2>3. /\ DOMAIN batch \subseteq DOMAIN batch' /\ DOMAIN batch' \subseteq BatchId
        /\ \A b \in DOMAIN batch' : BatchRow(batch'[b])
    BY <2>1, <2>2, WriteTyped DEF TypeOK
  <2>. QED  BY <1>4, <2>3, RequestsKept DEF RetractSource, Slot, TypeOK
<1>5. CASE Tick
  BY <1>5, ConstantsOK, RequestsKept DEF Tick, TypeOK, Day
<1>6. ASSUME NEW q \in Request, NEW a \in Account, DeleteAccountRead(q, a) PROVE TypeOK'
  <2>1. RequestOK([op |-> "delete", account |-> a])
    BY DEF RequestOK
  <2>. QED  BY <1>6, <2>1, RequestBegun DEF DeleteAccountRead, TypeOK
<1>7. ASSUME NEW q \in Request, DeleteAccountCommit(q) PROVE TypeOK'
  <2>1. \A b \in DOMAIN batch : BatchRow(batch'[b])
    BY <1>7, CascadeTyped DEF DeleteAccountCommit, TypeOK
  <2>2. DOMAIN batch' = DOMAIN batch
    BY <1>7 DEF DeleteAccountCommit
  <2>3. acct' \in [Account -> AccountRow]
    BY <1>7 DEF DeleteAccountCommit, TypeOK, AbsentAccount, AccountRow
  <2>. QED  BY <1>7, <2>1, <2>2, <2>3, RequestsFinished DEF DeleteAccountCommit, TypeOK
<1>8. ASSUME NEW q \in Request, NEW p \in PeriodId, NEW first \in Day, NEW last \in Day,
             CreatePeriodRead(q, p, first, last)
      PROVE  TypeOK'
  <2> DEFINE r == [op |-> "period", id |-> p,
                   row |-> [status |-> "OPEN", start |-> first, end |-> last]]
  <2>1. RequestOK(r)
    BY DEF RequestOK, PeriodRow
  <2>2. Begin(q, r) /\ UNCHANGED <<acct, period, batch, today>>
    BY <1>8 DEF CreatePeriodRead
  <2>. QED  BY <2>1, <2>2, RequestBegun DEF TypeOK
<1>9. ASSUME NEW q \in Request, CreatePeriodCommit(q) PROVE TypeOK'
  <2>1. period' \in [PeriodId -> PeriodRow]
    BY <1>9 DEF CreatePeriodCommit, TypeOK, RequestOK, Idle
  <2>. QED  BY <1>9, <2>1, RequestsFinished DEF CreatePeriodCommit, TypeOK
<1>10. ASSUME NEW q \in Request, NEW src \in HandSource, NEW draft \in Draft,
              NEW d \in Day, PostRead(q, src, draft, d)
       PROVE  TypeOK'
  <2> DEFINE r == [op |-> "post", row |-> PostingOf(FALSE, src, Rounded(draft), d)]
  <2>2. RequestOK(r)
    BY PostingTyped DEF RequestOK
  <2>3. Begin(q, r) /\ UNCHANGED <<acct, period, batch, today>>
    BY <1>10 DEF PostRead
  <2>. QED  BY <2>2, <2>3, RequestBegun DEF TypeOK
<1>11. ASSUME NEW q \in Request, PostCommit(q) PROVE TypeOK'
  <2>1. PICK n \in Free : Write([b \in {n} |-> req[q].row], <<>>)
    BY <1>11 DEF PostCommit
  <2>2. BatchRow(req[q].row)
    BY <1>11 DEF PostCommit, TypeOK, RequestOK, Idle
  <2>3. /\ DOMAIN batch \subseteq DOMAIN batch' /\ DOMAIN batch' \subseteq BatchId
        /\ \A b \in DOMAIN batch' : BatchRow(batch'[b])
    BY <2>1, <2>2, WriteTyped DEF TypeOK, Free
  <2>. QED  BY <1>11, <2>3, RequestsFinished DEF PostCommit, TypeOK
<1>16. ASSUME NEW q \in Request, NEW src \in Source, NEW drafts \in Together,
              NEW d \in Day, HookRead(q, src, drafts, d)
       PROVE  TypeOK'
  <2>1. Prior(src) \subseteq DOMAIN batch
    BY DEF Prior
  <2> DEFINE lists == [i \in DOMAIN drafts |-> Rounded(drafts[i])]
             r == [op |-> "hook", source |-> src, prior |-> Prior(src),
                   rows |-> [i \in DOMAIN lists |-> PostingOf(TRUE, src, lists[i], d)]]
  <2>2. \A i \in DOMAIN lists : BatchRow(PostingOf(TRUE, src, lists[i], d))
    BY DraftsTyped, PostingTyped DEF HandSource
  <2>3. /\ r.op = "hook" /\ r.source = src /\ r.prior = Prior(src)
        /\ \A i \in DOMAIN r.rows : BatchRow(r.rows[i])
    BY <2>2
  <2>4. Begin(q, r) /\ UNCHANGED <<acct, period, batch, today>>
    BY <1>16 DEF HookRead
  <2> HIDE DEF r
  <2>5. RequestOK(r)
    BY <2>1, <2>3 DEF RequestOK
  <2>. QED  BY <2>4, <2>5, RequestBegun DEF TypeOK
<1>17. ASSUME NEW q \in Request, HookCommit(q) PROVE TypeOK'
  <2>1. PICK fresh, new, rev : HookWrites(q, fresh, new, rev)
    BY <1>17, HookWritten
  <2>2. (\A i \in DOMAIN req[q].rows : BatchRow(req[q].rows[i])) /\ req[q].prior \subseteq DOMAIN batch
    BY <1>17 DEF HookCommit, TypeOK, RequestOK, Idle
  <2>3. /\ \A b \in DOMAIN rev : rev[b] \in BatchId
        /\ DOMAIN fresh \subseteq BatchId \ DOMAIN batch
        /\ \A x \in DOMAIN fresh : BatchRow(fresh[x])
    <3>1. \A b \in DOMAIN batch : BatchRow(ReversalOf(b))
      BY ReversalTyped DEF TypeOK
    <3>2. DOMAIN rev \subseteq DOMAIN batch
      BY <2>1, <2>2 DEF HookWrites, ReversibleOf
    <3>. QED  BY <2>1, <2>2, <3>1, <3>2 DEF HookWrites, Free
  <2>4. /\ DOMAIN batch \subseteq DOMAIN batch' /\ DOMAIN batch' \subseteq BatchId
        /\ \A b \in DOMAIN batch' : BatchRow(batch'[b])
    BY <2>1, <2>3, WriteTyped DEF TypeOK, HookWrites
  <2>. QED  BY <1>17, <2>4, RequestsFinished DEF HookCommit, TypeOK
<1>12. ASSUME NEW q \in Request, NEW b \in BatchId, ReverseRead(q, b) PROVE TypeOK'
  <2>1. BatchRow(ReversalOf(b))
    BY <1>12, ReversalTyped DEF ReverseRead, TypeOK
  <2> DEFINE r == [op |-> "reverse", target |-> b, row |-> ReversalOf(b)]
  <2>2. Begin(q, r) /\ b \in DOMAIN batch /\ UNCHANGED <<acct, period, batch, today>>
    BY <1>12 DEF ReverseRead
  <2>3. RequestOK(r)
    BY <2>1, <2>2 DEF RequestOK
  <2>. QED  BY <2>2, <2>3, RequestBegun DEF TypeOK
<1>13. ASSUME NEW q \in Request, ReverseCommit(q) PROVE TypeOK'
  <2>1. PICK n \in Free : Write([b \in {n} |-> req[q].row], [b \in {req[q].target} |-> n])
    BY <1>13 DEF ReverseCommit
  <2>2. BatchRow(req[q].row) /\ req[q].target \in DOMAIN batch
    BY <1>13 DEF ReverseCommit, TypeOK, RequestOK, Idle
  <2>3. /\ DOMAIN batch \subseteq DOMAIN batch' /\ DOMAIN batch' \subseteq BatchId
        /\ \A b \in DOMAIN batch' : BatchRow(batch'[b])
    BY <2>1, <2>2, WriteTyped DEF TypeOK, Free
  <2>. QED  BY <1>13, <2>3, RequestsFinished DEF ReverseCommit, TypeOK
<1>14. ASSUME NEW q \in Request, Abort(q) PROVE TypeOK'
  BY <1>14, RequestsFinished DEF Abort, TypeOK
<1>15. CASE UNCHANGED vars
  BY <1>15, RequestsKept DEF vars, TypeOK
<1>. QED  BY <1>1, <1>2, <1>3, <1>4, <1>5, <1>6, <1>7, <1>8, <1>9, <1>10, <1>11, <1>12,
             <1>13, <1>14, <1>15, <1>16, <1>17 DEF Next

\* Every reachable state is well typed; in particular a request in flight never loses
\* the batches it refers to.
THEOREM TypeCorrect == Spec => []TypeOK
  BY InitTyped, NextTyped, PTL DEF Spec

-----------------------------------------------------------------------------
(* The inductive invariant.                                                *)

Inv == TypeOK /\ ReversalLinks /\ InFlightOK

\* How a step changes the batches, by field: it inserts the rows of fresh under new ids,
\* and marks each original of rev as reversed by one of them.
Change(fresh, rev) ==
  /\ DOMAIN fresh \subseteq Free
  /\ DOMAIN rev \subseteq DOMAIN batch
  /\ \A b \in DOMAIN rev : rev[b] \in DOMAIN fresh /\ fresh[rev[b]].reverses = b
  /\ \A x \in DOMAIN fresh :
       /\ fresh[x].status = "POSTED" /\ fresh[x].reversedBy = None
       /\ fresh[x].reverses # None =>
            /\ fresh[x].source = "REVERSAL"
            /\ fresh[x].reverses \in DOMAIN rev /\ rev[fresh[x].reverses] = x
  /\ DOMAIN batch' = DOMAIN batch \cup DOMAIN fresh
  /\ \A b \in DOMAIN fresh : batch'[b] = fresh[b]
  /\ \A b \in DOMAIN batch :
       /\ batch'[b].reverses = batch[b].reverses /\ batch'[b].byHook = batch[b].byHook
       /\ batch'[b].source = batch[b].source /\ batch'[b].date = batch[b].date
       /\ batch'[b].debit = batch[b].debit /\ batch'[b].credit = batch[b].credit
       /\ batch'[b].lines = batch[b].lines
       /\ b \in DOMAIN rev => batch'[b].status = "REVERSED" /\ batch'[b].reversedBy = rev[b]
       /\ b \notin DOMAIN rev =>
            batch'[b].status = batch[b].status /\ batch'[b].reversedBy = batch[b].reversedBy

LEMMA WriteChange ==
  ASSUME TypeOK, NEW fresh, NEW rev, Write(fresh, rev),
         DOMAIN fresh \subseteq Free, DOMAIN rev \subseteq DOMAIN batch,
         \A b \in DOMAIN rev : rev[b] \in DOMAIN fresh /\ fresh[rev[b]].reverses = b,
         \A x \in DOMAIN fresh :
           /\ fresh[x].status = "POSTED" /\ fresh[x].reversedBy = None
           /\ fresh[x].reverses # None =>
                /\ fresh[x].source = "REVERSAL"
                /\ fresh[x].reverses \in DOMAIN rev /\ rev[fresh[x].reverses] = x
  PROVE  Change(fresh, rev)
  <1>1. DOMAIN fresh \cap DOMAIN batch = {}
    BY DEF Free
  <1>2. /\ DOMAIN batch' = DOMAIN batch \cup DOMAIN fresh
        /\ \A b \in DOMAIN fresh : batch'[b] = fresh[b]
        /\ \A b \in DOMAIN batch \cap DOMAIN rev :
             batch'[b] = [batch[b] EXCEPT !.status = "REVERSED", !.reversedBy = rev[b]]
        /\ \A b \in DOMAIN batch \ DOMAIN rev : batch'[b] = batch[b]
    BY ONLY <1>1, Write(fresh, rev), WriteEffect
  <1>3. \A b \in DOMAIN batch : BatchRow(batch[b])
    BY DEF TypeOK
  <1>4. ASSUME NEW b \in DOMAIN batch
        PROVE  /\ batch'[b].reverses = batch[b].reverses /\ batch'[b].byHook = batch[b].byHook
               /\ batch'[b].source = batch[b].source /\ batch'[b].date = batch[b].date
               /\ batch'[b].debit = batch[b].debit /\ batch'[b].credit = batch[b].credit
               /\ batch'[b].lines = batch[b].lines
               /\ b \in DOMAIN rev =>
                    batch'[b].status = "REVERSED" /\ batch'[b].reversedBy = rev[b]
               /\ b \notin DOMAIN rev =>
                    /\ batch'[b].status = batch[b].status
                    /\ batch'[b].reversedBy = batch[b].reversedBy
    <2>1. CASE b \in DOMAIN rev
      <3>1. batch'[b] = [batch[b] EXCEPT !.status = "REVERSED", !.reversedBy = rev[b]]
        BY <1>2, <2>1
      <3>2. BatchRow(batch[b])
        BY <1>3
      <3>. QED  BY <3>1, <3>2, <2>1 DEF BatchRow
    <2>2. CASE b \notin DOMAIN rev
      BY <1>2, <2>2
    <2>. QED  BY <2>1, <2>2
  <1>. QED  BY <1>2, <1>4 DEF Change

\* The four steps that write batches are changes of that kind.
LEMMA RetractChange ==
  ASSUME TypeOK, NEW src \in Source, RetractSource(src)
  PROVE  \E fresh, rev :
           /\ Change(fresh, rev)
           /\ \A x \in DOMAIN fresh :
                /\ fresh[x].source = "REVERSAL" /\ ~fresh[x].byHook
                /\ fresh[x].reverses \in DOMAIN rev
                /\ fresh[x] = ReversalOf(fresh[x].reverses)
           /\ DOMAIN rev = ReversibleOf(Prior(src))
  <1>1. PICK rev \in ReversalIds(Prior(src), Free) : Write(ReversalRows(rev), rev)
    BY DEF RetractSource
  <1>2. /\ DOMAIN rev = ReversibleOf(Prior(src))
        /\ DOMAIN ReversalRows(rev) \subseteq Free
        /\ \A b \in DOMAIN rev : rev[b] \in DOMAIN ReversalRows(rev)
        /\ \A b \in DOMAIN rev : ReversalRows(rev)[rev[b]] = ReversalOf(b)
        /\ \A n \in DOMAIN ReversalRows(rev) : \E b \in DOMAIN rev : n = rev[b]
    BY <1>1, ReversalsMade
  <1>3. DOMAIN rev \subseteq DOMAIN batch
    BY <1>2 DEF Prior, ReversibleOf
  <1>4. \A b : /\ ReversalOf(b).status = "POSTED" /\ ReversalOf(b).reversedBy = None
               /\ ReversalOf(b).source = "REVERSAL" /\ ReversalOf(b).reverses = b
               /\ ~ReversalOf(b).byHook
    BY DEF ReversalOf
  <1> DEFINE fresh == ReversalRows(rev)
  <1>5. /\ \A b \in DOMAIN rev : rev[b] \in DOMAIN fresh /\ fresh[rev[b]].reverses = b
        /\ \A x \in DOMAIN fresh :
             /\ fresh[x].status = "POSTED" /\ fresh[x].reversedBy = None
             /\ fresh[x].source = "REVERSAL" /\ ~fresh[x].byHook
             /\ fresh[x].reverses \in DOMAIN rev /\ rev[fresh[x].reverses] = x
             /\ fresh[x] = ReversalOf(fresh[x].reverses)
    BY <1>2, <1>4
  <1>6. Change(fresh, rev)
    BY <1>1, <1>2, <1>3, <1>5, WriteChange
  <1>. QED  BY <1>2, <1>5, <1>6

LEMMA PostChange ==
  ASSUME TypeOK, InFlightOK, NEW q \in Request, PostCommit(q)
  PROVE  \E fresh, rev, n : /\ Change(fresh, rev)
                            /\ DOMAIN fresh = {n} /\ fresh[n] = req[q].row
                            /\ ~fresh[n].byHook /\ fresh[n].reverses = None
                            /\ DOMAIN rev = {}
  <1>1. PICK n \in Free : Write([b \in {n} |-> req[q].row], <<>>)
    BY DEF PostCommit
  <1> DEFINE fresh == [b \in {n} |-> req[q].row]
             rev == <<>>
  <1>2. /\ req[q].row.status = "POSTED" /\ req[q].row.reversedBy = None
        /\ req[q].row.reverses = None /\ ~req[q].row.byHook
    BY DEF PostCommit, InFlightOK
  <1>3. DOMAIN fresh = {n} /\ fresh[n] = req[q].row /\ DOMAIN rev = {}
    OBVIOUS
  <1>4. Write(fresh, rev)
    BY <1>1
  <1> HIDE DEF fresh, rev
  <1>5. Change(fresh, rev)
    BY <1>2, <1>3, <1>4, WriteChange
  <1>. QED  BY <1>2, <1>3, <1>5

\* What the rows of a hook and the reversals beside them look like.
HookChanges(q, fresh, rev) ==
  /\ Change(fresh, rev)
  /\ DOMAIN rev = ReversibleOf(req[q].prior)
  /\ \A x \in DOMAIN fresh :
       \/ /\ fresh[x].byHook /\ fresh[x].source = req[q].source /\ fresh[x].reverses = None
          /\ \E i \in DOMAIN req[q].rows : fresh[x] = req[q].rows[i]
       \/ /\ ~fresh[x].byHook /\ fresh[x].source = "REVERSAL"
          /\ fresh[x].reverses \in DOMAIN rev
          /\ fresh[x] = ReversalOf(fresh[x].reverses)
  /\ \E x \in DOMAIN fresh : fresh[x].byHook /\ fresh[x].source = req[q].source

LEMMA HookChange ==
  ASSUME TypeOK, InFlightOK, NEW q \in Request, HookCommit(q)
  PROVE  \E fresh, rev : HookChanges(q, fresh, rev)
  <1>1. PICK fresh, new, rev : HookWrites(q, fresh, new, rev)
    BY HookWritten
  <1>2. req[q].op = "hook" /\ req[q].prior \subseteq DOMAIN batch
    BY DEF HookCommit, TypeOK, RequestOK, Idle
  <1>3. /\ DOMAIN req[q].rows # {}
        /\ \A i \in DOMAIN req[q].rows :
              /\ req[q].rows[i].status = "POSTED" /\ req[q].rows[i].source = req[q].source
              /\ req[q].rows[i].reverses = None /\ req[q].rows[i].reversedBy = None
              /\ req[q].rows[i].byHook
    BY <1>2 DEF InFlightOK
  <1>4. \A b : /\ ReversalOf(b).status = "POSTED" /\ ReversalOf(b).reversedBy = None
               /\ ReversalOf(b).source = "REVERSAL" /\ ReversalOf(b).reverses = b
               /\ ~ReversalOf(b).byHook
    BY DEF ReversalOf
  <1>5. DOMAIN rev \subseteq DOMAIN batch
    BY <1>1, <1>2 DEF HookWrites, ReversibleOf
  <1>6. \A b \in DOMAIN rev : b \in BatchId /\ b # None
    BY <1>5, ConstantsOK DEF TypeOK
  <1>7. ASSUME NEW x \in DOMAIN fresh
        PROVE  /\ fresh[x].status = "POSTED" /\ fresh[x].reversedBy = None
               /\ fresh[x].reverses # None =>
                    /\ fresh[x].source = "REVERSAL"
                    /\ fresh[x].reverses \in DOMAIN rev /\ rev[fresh[x].reverses] = x
               /\ \/ /\ fresh[x].byHook /\ fresh[x].source = req[q].source
                     /\ fresh[x].reverses = None
                     /\ \E i \in DOMAIN req[q].rows : fresh[x] = req[q].rows[i]
                  \/ /\ ~fresh[x].byHook /\ fresh[x].source = "REVERSAL"
                     /\ fresh[x].reverses \in DOMAIN rev
                     /\ fresh[x] = ReversalOf(fresh[x].reverses)
    <2>1. CASE \E i \in DOMAIN req[q].rows : x = new[i]
      BY <1>1, <1>3, <2>1 DEF HookWrites
    <2>2. CASE \E b \in DOMAIN rev : x = rev[b]
      BY <1>1, <1>4, <2>2 DEF HookWrites
    <2>. QED  BY <1>1, <2>1, <2>2 DEF HookWrites
  <1>8. \A b \in DOMAIN rev : rev[b] \in DOMAIN fresh /\ fresh[rev[b]].reverses = b
    BY <1>1, <1>4 DEF HookWrites
  <1>9. Change(fresh, rev)
    BY <1>1, <1>5, <1>7, <1>8, WriteChange DEF HookWrites
  <1>10. \E x \in DOMAIN fresh : fresh[x].byHook /\ fresh[x].source = req[q].source
    BY <1>1, <1>3 DEF HookWrites
  <1>11. DOMAIN rev = ReversibleOf(req[q].prior)
    BY <1>1 DEF HookWrites
  <1>12. HookChanges(q, fresh, rev)
    BY <1>7, <1>9, <1>10, <1>11 DEF HookChanges
  <1>. QED  BY <1>12

LEMMA ReverseChange ==
  ASSUME TypeOK, InFlightOK, NEW q \in Request, ReverseCommit(q)
  PROVE  \E fresh, rev :
           /\ Change(fresh, rev)
           /\ \A x \in DOMAIN fresh : /\ fresh[x].source = "REVERSAL" /\ ~fresh[x].byHook
                                     /\ fresh[x] = req[q].row
           /\ DOMAIN rev = {req[q].target}
  <1>1. PICK n \in Free : Write([b \in {n} |-> req[q].row], [b \in {req[q].target} |-> n])
    BY DEF ReverseCommit
  <1> DEFINE fresh == [b \in {n} |-> req[q].row]
             rev == [b \in {req[q].target} |-> n]
  <1>2. /\ req[q].target \in DOMAIN batch /\ req[q].row.reverses = req[q].target
        /\ req[q].row.status = "POSTED" /\ req[q].row.reversedBy = None
        /\ req[q].row.source = "REVERSAL" /\ ~req[q].row.byHook
    BY DEF ReverseCommit, TypeOK, RequestOK, Idle, InFlightOK
  <1>3. /\ DOMAIN fresh = {n} /\ fresh[n] = req[q].row
        /\ DOMAIN rev = {req[q].target} /\ rev[req[q].target] = n
    OBVIOUS
  <1>4. Write(fresh, rev)
    BY <1>1
  <1> HIDE DEF fresh, rev
  <1>5. Change(fresh, rev)
    BY <1>2, <1>3, <1>4, WriteChange
  <1>. QED  BY <1>2, <1>3, <1>5

-----------------------------------------------------------------------------
(* The invariant is preserved by a change of batches.                      *)

LEMMA LinksKept ==
  ASSUME TypeOK, ReversalLinks, NEW fresh, NEW rev, Change(fresh, rev)
  PROVE  ReversalLinks'
  <1>1. None \notin BatchId /\ DOMAIN batch \subseteq BatchId
    BY ConstantsOK DEF TypeOK
  <1>2. \A b \in DOMAIN rev : rev[b] # None
    BY <1>1 DEF Change, Free
  <1>3. SUFFICES ASSUME NEW b \in DOMAIN batch'
        PROVE  /\ (batch'[b].status = "REVERSED") <=> (batch'[b].reversedBy # None)
               /\ batch'[b].reversedBy # None =>
                    /\ batch'[b].reversedBy \in DOMAIN batch'
                    /\ batch'[batch'[b].reversedBy].reverses = b
               /\ batch'[b].reverses # None =>
                    /\ batch'[b].source = "REVERSAL"
                    /\ batch'[b].reverses \in DOMAIN batch'
                    /\ batch'[batch'[b].reverses].status = "REVERSED"
    BY DEF ReversalLinks
  <1>4. CASE b \in DOMAIN fresh
    BY <1>4 DEF Change
  <1>5. CASE b \in DOMAIN batch /\ b \in DOMAIN rev
    BY <1>2, <1>5 DEF Change, ReversalLinks
  <1>6. CASE b \in DOMAIN batch /\ b \notin DOMAIN rev
    BY <1>6 DEF Change, ReversalLinks
  <1>. QED  BY <1>4, <1>5, <1>6 DEF Change

\* Requests in flight keep what they rely on when batches change and no hook in flight is
\* of a source that a hook posts to.
LEMMA InFlightKept ==
  ASSUME Inv, NEW fresh, NEW rev, Change(fresh, rev), NEW S,
         \A x \in DOMAIN fresh : fresh[x].byHook => fresh[x].source \in S,
         \A r \in Request :
           req'[r] = Idle \/ (/\ req'[r] = req[r]
                              /\ req[r].op = "hook" => req[r].source \notin S)
  PROVE  InFlightOK'
  <1>1. \A x \in Request : req'[x] = req[x] \/ req'[x].op = "idle"
    BY DEF Idle
  <1>2. SUFFICES ASSUME NEW r \in Request, req'[r] = req[r], req[r].op = "hook"
        PROVE  /\ \A b \in Prior(req[r].source)' : batch'[b].byHook => b \in req[r].prior
               /\ \A b \in req[r].prior : batch'[b].source = req[r].source
    BY <1>1 DEF Inv, InFlightOK
  <1>3. req[r].source \notin S \/ req'[r] = Idle
    BY <1>2
  <1>4. req[r].source \notin S
    BY <1>2, <1>3 DEF Idle
  <1>5. req[r].prior \subseteq DOMAIN batch
    BY <1>2 DEF Inv, TypeOK, RequestOK, Idle
  <1>6. \A b \in req[r].prior : batch'[b].source = req[r].source
    BY <1>2, <1>5 DEF Change, Inv, InFlightOK
  <1>7. ASSUME NEW b \in Prior(req[r].source)', batch'[b].byHook
        PROVE  b \in req[r].prior
    <2>1. b \in DOMAIN batch' /\ batch'[b].source = req[r].source /\ batch'[b].status = "POSTED"
      BY <1>2, <1>7 DEF Prior
    <2>2. b \in DOMAIN batch
      BY <1>4, <1>7, <2>1 DEF Change
    <2>3. b \notin DOMAIN rev
      BY <2>1, <2>2 DEF Change
    <2>4. b \in Prior(req[r].source) /\ batch[b].byHook
      BY <1>7, <2>1, <2>2, <2>3 DEF Change, Prior
    <2>. QED  BY <1>2, <2>4 DEF Inv, InFlightOK
  <1>. QED  BY <1>6, <1>7

-----------------------------------------------------------------------------
(* Safety.                                                                 *)

LEMMA InitSafe == Init => Inv
<1> SUFFICES ASSUME Init PROVE Inv
  OBVIOUS
<1>1. DOMAIN batch = {} /\ \A q \in Request : req[q] = Idle
  BY DEF Init
<1>. QED  BY <1>1, InitTyped DEF Inv, ReversalLinks, InFlightOK, Idle

\* A step that leaves the batches alone and may end a request.
LEMMA BatchesKept ==
  ASSUME Inv, UNCHANGED batch, \A r \in Request : req'[r] \in {req[r], Idle}
  PROVE  ReversalLinks' /\ InFlightOK'
  <1>1. ReversalLinks'
    BY DEF Inv, ReversalLinks
  <1>2. \A src : Prior(src)' = Prior(src)
    BY DEF Prior
  <1>3. \A r \in Request : req'[r] = req[r] \/ req'[r].op = "idle"
    BY DEF Idle
  <1>4. InFlightOK'
    BY <1>2, <1>3 DEF Inv, InFlightOK
  <1>. QED  BY <1>1, <1>4

\* A step that leaves the batches alone and begins a request that is no hook.
LEMMA RequestAdded ==
  ASSUME Inv, UNCHANGED batch, NEW q \in Request, NEW r, Begin(q, r), r.op # "hook",
         r.op = "post" =>
           /\ r.row.status = "POSTED" /\ ~r.row.byHook
           /\ r.row.reverses = None /\ r.row.reversedBy = None,
         r.op = "reverse" =>
           /\ r.row.status = "POSTED" /\ r.row.source = "REVERSAL"
           /\ r.row.reverses = r.target /\ r.row.reversedBy = None
           /\ ~r.row.byHook
  PROVE  ReversalLinks' /\ InFlightOK'
  <1>1. ReversalLinks'
    BY DEF Inv, ReversalLinks
  <1>2. \A src : Prior(src)' = Prior(src)
    BY DEF Prior
  <1>3. \A x \in Request : req'[x] = IF x = q THEN r ELSE req[x]
    BY DEF Begin, Inv, TypeOK
  <1>4. InFlightOK'
    BY <1>2, <1>3 DEF Inv, InFlightOK
  <1>. QED  BY <1>1, <1>4

LEMMA NextSafe == Inv /\ [Next]_vars => Inv'
<1> SUFFICES ASSUME Inv, [Next]_vars PROVE ReversalLinks' /\ InFlightOK'
  BY NextTyped DEF Inv
<1>0. TypeOK /\ ReversalLinks /\ InFlightOK
  BY DEF Inv
<1>f. ASSUME NEW q \in Request, Finish(q)
      PROVE  /\ req'[q] = Idle
             /\ \A r \in Request \ {q} : req'[r] = req[r]
  BY <1>0, <1>f DEF Finish, TypeOK
<1>1. ASSUME NEW a \in Account, NEW form \in Edit, UpsertAccount(a, form)
      PROVE  ReversalLinks' /\ InFlightOK'
  BY <1>1, BatchesKept DEF UpsertAccount, Slot
<1>2. ASSUME NEW a \in Account, NEW active \in BOOLEAN, SetAccountActive(a, active)
      PROVE  ReversalLinks' /\ InFlightOK'
  BY <1>2, BatchesKept DEF SetAccountActive, Slot
<1>3. ASSUME NEW p \in PeriodId, NEW locked \in BOOLEAN, SetPeriodLock(p, locked)
      PROVE  ReversalLinks' /\ InFlightOK'
  BY <1>3, BatchesKept DEF SetPeriodLock, Slot
<1>4. ASSUME NEW src \in Source, RetractSource(src)
      PROVE  ReversalLinks' /\ InFlightOK'
  <2>1. PICK fresh, rev : /\ Change(fresh, rev)
                          /\ \A x \in DOMAIN fresh : ~fresh[x].byHook
    BY <1>0, <1>4, RetractChange
  <2>2. UNCHANGED req
    BY <1>4 DEF RetractSource, Slot
  <2>3. InFlightOK'
    <3> DEFINE S == {}
    <3>1. \A x \in DOMAIN fresh : fresh[x].byHook => fresh[x].source \in S
      BY <2>1
    <3>2. \A r \in Request :
            req'[r] = Idle \/ (/\ req'[r] = req[r]
                               /\ req[r].op = "hook" => req[r].source \notin S)
      BY <2>2
    <3> HIDE DEF S
    <3>. QED  BY <2>1, <3>1, <3>2, InFlightKept
  <2>. QED  BY <1>0, <2>1, <2>3, LinksKept
<1>5. CASE Tick
  BY <1>5, BatchesKept DEF Tick
<1>6. ASSUME NEW q \in Request, NEW a \in Account, DeleteAccountRead(q, a)
      PROVE  ReversalLinks' /\ InFlightOK'
  BY <1>6, RequestAdded DEF DeleteAccountRead
<1>7. ASSUME NEW q \in Request, DeleteAccountCommit(q)
      PROVE  ReversalLinks' /\ InFlightOK'
  <2>1. DOMAIN batch' = DOMAIN batch
    BY <1>7 DEF DeleteAccountCommit
  <2>2. ASSUME NEW b \in DOMAIN batch
        PROVE  /\ batch'[b].status = batch[b].status
               /\ batch'[b].source = batch[b].source
               /\ batch'[b].reverses = batch[b].reverses
               /\ batch'[b].reversedBy = batch[b].reversedBy
               /\ batch'[b].byHook = batch[b].byHook
    <3>1. BatchRow(batch[b])
      BY <1>0 DEF TypeOK
    <3>2. batch'[b] = [batch[b] EXCEPT !.lines = WithoutAccount(@, req[q].account)]
      BY <1>7 DEF DeleteAccountCommit
    <3>. QED  BY <3>1, <3>2 DEF BatchRow
  <2>3. ReversalLinks'
    BY <1>0, <2>1, <2>2 DEF ReversalLinks
  <2>4. \A src : Prior(src)' = Prior(src)
    BY <2>1, <2>2 DEF Prior
  <2>5. \A r \in Request : req'[r] = req[r] \/ req'[r].op = "idle"
    BY <1>7, <1>f DEF DeleteAccountCommit, Idle
  <2>6. InFlightOK'
    <3>1. ASSUME NEW r \in Request, req'[r] = req[r], req[r].op = "hook"
          PROVE  /\ \A b \in Prior(req[r].source)' : batch'[b].byHook => b \in req[r].prior
                 /\ \A b \in req[r].prior : batch'[b].source = req[r].source
      <4>1. req[r].prior \subseteq DOMAIN batch
        BY <1>0, <3>1 DEF TypeOK, RequestOK, Idle
      <4>2. Prior(req[r].source)' = Prior(req[r].source)
        BY <2>4, <3>1
      <4>3. Prior(req[r].source) \subseteq DOMAIN batch
        BY DEF Prior
      <4>4. /\ \A b \in Prior(req[r].source) : batch[b].byHook => b \in req[r].prior
            /\ \A b \in req[r].prior : batch[b].source = req[r].source
        BY <1>0, <3>1 DEF InFlightOK
      <4>. QED  BY <2>2, <4>1, <4>2, <4>3, <4>4
    <3>. QED  BY <1>0, <2>5, <3>1 DEF InFlightOK
  <2>. QED  BY <2>3, <2>6
<1>8. ASSUME NEW q \in Request, NEW p \in PeriodId, NEW first \in Day, NEW last \in Day,
             CreatePeriodRead(q, p, first, last)
      PROVE  ReversalLinks' /\ InFlightOK'
  BY <1>8, RequestAdded DEF CreatePeriodRead
<1>9. ASSUME NEW q \in Request, CreatePeriodCommit(q)
      PROVE  ReversalLinks' /\ InFlightOK'
  BY <1>9, <1>f, BatchesKept DEF CreatePeriodCommit
<1>10. ASSUME NEW q \in Request, NEW src \in HandSource, NEW draft \in Draft,
              NEW d \in Day, PostRead(q, src, draft, d)
       PROVE  ReversalLinks' /\ InFlightOK'
  <2> DEFINE r == [op |-> "post", row |-> PostingOf(FALSE, src, Rounded(draft), d)]
  <2>1. Begin(q, r) /\ UNCHANGED batch
    BY <1>10 DEF PostRead
  <2>2. /\ r.op = "post" /\ r.row.status = "POSTED" /\ ~r.row.byHook
        /\ r.row.reverses = None /\ r.row.reversedBy = None
    BY DEF PostingOf
  <2> HIDE DEF r
  <2>. QED  BY <2>1, <2>2, RequestAdded
<1>11. ASSUME NEW q \in Request, PostCommit(q)
       PROVE  ReversalLinks' /\ InFlightOK'
  <2>1. PICK fresh, rev, n : /\ Change(fresh, rev)
                             /\ DOMAIN fresh = {n} /\ fresh[n] = req[q].row
                             /\ ~fresh[n].byHook /\ fresh[n].reverses = None
                             /\ DOMAIN rev = {}
    BY <1>0, <1>11, PostChange
  <2>2. \A r \in Request : req'[r] = Idle \/ req'[r] = req[r]
    BY <1>11, <1>f DEF PostCommit
  <2>3. InFlightOK'
    <3> DEFINE S == {}
    <3>1. \A x \in DOMAIN fresh : fresh[x].byHook => fresh[x].source \in S
      BY <2>1
    <3>2. \A r \in Request :
            req'[r] = Idle \/ (/\ req'[r] = req[r]
                               /\ req[r].op = "hook" => req[r].source \notin S)
      BY <2>2
    <3> HIDE DEF S
    <3>. QED  BY <2>1, <3>1, <3>2, InFlightKept
  <2>. QED  BY <1>0, <2>1, <2>3, LinksKept
<1>16. ASSUME NEW q \in Request, NEW src \in Source, NEW drafts \in Together,
              NEW d \in Day, HookRead(q, src, drafts, d)
       PROVE  ReversalLinks' /\ InFlightOK'
  <2> DEFINE lists == [i \in DOMAIN drafts |-> Rounded(drafts[i])]
             r == [op |-> "hook", source |-> src, prior |-> Prior(src),
                   rows |-> [i \in DOMAIN lists |-> PostingOf(TRUE, src, lists[i], d)]]
  <2>1. UNCHANGED batch /\ SourceUnlocked(src) /\ Begin(q, r)
    BY <1>16 DEF HookRead
  <2>2. \A x \in Request : req'[x] = IF x = q THEN r ELSE req[x]
    BY <1>0, <2>1 DEF Begin, TypeOK
  <2>3. /\ r.op = "hook" /\ r.source = src /\ r.prior = Prior(src) /\ DOMAIN r.rows # {}
        /\ \A i \in DOMAIN r.rows :
              /\ r.rows[i].status = "POSTED" /\ r.rows[i].source = src /\ r.rows[i].byHook
              /\ r.rows[i].reverses = None /\ r.rows[i].reversedBy = None
    BY DraftsTyped DEF PostingOf
  <2> HIDE DEF r
  <2>4. ReversalLinks'
    BY <1>0, <2>1 DEF ReversalLinks
  <2>5. \A s : Prior(s)' = Prior(s)
    BY <2>1 DEF Prior
  <2>6. ASSUME NEW x \in Request, req'[x].op = "hook"
        PROVE  /\ DOMAIN req'[x].rows # {}
               /\ \A i \in DOMAIN req'[x].rows :
                    /\ req'[x].rows[i].status = "POSTED"
                    /\ req'[x].rows[i].source = req'[x].source
                    /\ req'[x].rows[i].reverses = None /\ req'[x].rows[i].reversedBy = None
                    /\ req'[x].rows[i].byHook
               /\ \A b \in Prior(req'[x].source) : batch[b].byHook => b \in req'[x].prior
               /\ \A b \in req'[x].prior : batch[b].source = req'[x].source
               /\ \A y \in Request \ {x} :
                    req'[y].op = "hook" => req'[y].source # req'[x].source
    <3>1. CASE x = q
      <4>1. req'[x] = r /\ \A y \in Request \ {x} : req'[y] = req[y]
        BY <2>2, <3>1
      <4>. QED  BY <2>1, <2>3, <4>1 DEF SourceUnlocked, Prior
    <3>2. CASE x # q
      <4>1. req'[x] = req[x] /\ req'[q] = r /\ \A y \in Request \ {q} : req'[y] = req[y]
        BY <2>2, <3>2
      <4>. QED  BY <1>0, <2>1, <2>3, <2>6, <3>2, <4>1 DEF SourceUnlocked, InFlightOK
    <3>. QED  BY <3>1, <3>2
  <2>7. ASSUME NEW x \in Request
        PROVE  /\ req'[x].op = "post" =>
                    /\ req'[x].row.status = "POSTED" /\ ~req'[x].row.byHook
                    /\ req'[x].row.reverses = None /\ req'[x].row.reversedBy = None
               /\ req'[x].op = "reverse" =>
                    /\ req'[x].row.status = "POSTED" /\ req'[x].row.source = "REVERSAL"
                    /\ req'[x].row.reverses = req'[x].target /\ req'[x].row.reversedBy = None
                    /\ ~req'[x].row.byHook
    BY <1>0, <2>2, <2>3 DEF InFlightOK
  <2>8. InFlightOK'
    BY <2>1, <2>5, <2>6, <2>7 DEF InFlightOK
  <2>. QED  BY <2>4, <2>8
<1>17. ASSUME NEW q \in Request, HookCommit(q)
       PROVE  ReversalLinks' /\ InFlightOK'
  <2>1. PICK fresh, rev : HookChanges(q, fresh, rev)
    BY <1>0, <1>17, HookChange
  <2>2. req[q].op = "hook" /\ Finish(q)
    BY <1>17 DEF HookCommit
  <2>3. InFlightOK'
    <3> DEFINE S == {req[q].source}
    <3>1. \A x \in DOMAIN fresh : fresh[x].byHook => fresh[x].source \in S
      BY <2>1 DEF HookChanges
    <3>2. \A r \in Request :
            req'[r] = Idle \/ (/\ req'[r] = req[r]
                               /\ req[r].op = "hook" => req[r].source \notin S)
      BY <1>0, <1>f, <2>2 DEF InFlightOK
    <3>3. Change(fresh, rev)
      BY <2>1 DEF HookChanges
    <3> HIDE DEF S
    <3>. QED  BY <3>1, <3>2, <3>3, InFlightKept
  <2>4. Change(fresh, rev)
    BY <2>1 DEF HookChanges
  <2>. QED  BY <1>0, <2>3, <2>4, LinksKept
<1>12. ASSUME NEW q \in Request, NEW b \in BatchId, ReverseRead(q, b)
       PROVE  ReversalLinks' /\ InFlightOK'
  <2> DEFINE r == [op |-> "reverse", target |-> b, row |-> ReversalOf(b)]
  <2>1. Begin(q, r) /\ UNCHANGED batch
    BY <1>12 DEF ReverseRead
  <2>2. /\ r.op = "reverse" /\ r.row.status = "POSTED" /\ r.row.source = "REVERSAL"
        /\ r.row.reverses = r.target /\ r.row.reversedBy = None /\ ~r.row.byHook
    BY DEF ReversalOf
  <2> HIDE DEF r
  <2>. QED  BY <2>1, <2>2, RequestAdded
<1>13. ASSUME NEW q \in Request, ReverseCommit(q)
       PROVE  ReversalLinks' /\ InFlightOK'
  <2>1. PICK fresh, rev : /\ Change(fresh, rev)
                          /\ \A x \in DOMAIN fresh : ~fresh[x].byHook
    BY <1>0, <1>13, ReverseChange
  <2>2. \A r \in Request : req'[r] = Idle \/ req'[r] = req[r]
    BY <1>13, <1>f DEF ReverseCommit
  <2>3. InFlightOK'
    <3> DEFINE S == {}
    <3>1. \A x \in DOMAIN fresh : fresh[x].byHook => fresh[x].source \in S
      BY <2>1
    <3>2. \A r \in Request :
            req'[r] = Idle \/ (/\ req'[r] = req[r]
                               /\ req[r].op = "hook" => req[r].source \notin S)
      BY <2>2
    <3> HIDE DEF S
    <3>. QED  BY <2>1, <3>1, <3>2, InFlightKept
  <2>. QED  BY <1>0, <2>1, <2>3, LinksKept
<1>14. ASSUME NEW q \in Request, Abort(q)
       PROVE  ReversalLinks' /\ InFlightOK'
  BY <1>14, <1>f, BatchesKept DEF Abort
<1>15. CASE UNCHANGED vars
  BY <1>15, BatchesKept DEF vars
<1>. QED  BY <1>1, <1>2, <1>3, <1>4, <1>5, <1>6, <1>7, <1>8, <1>9, <1>10, <1>11, <1>12,
             <1>13, <1>14, <1>15, <1>16, <1>17 DEF Next

LEMMA Safe == Spec => []Inv
  BY InitSafe, NextSafe, PTL DEF Spec

\* Both sides of every reversal stay linked, whatever interleaves.
THEOREM LinksHold == Spec => []ReversalLinks
  <1>1. Inv => ReversalLinks
    BY DEF Inv
  <1>. QED  BY Safe, <1>1, PTL

\* A request in flight can rely on what it read: a hook retracts whatever hooks posted for
\* its source (a batch posted by hand under the source's name, without its row lock, it may
\* miss), and a reversal still finds its original.
THEOREM RequestsSound == Spec => []InFlightOK
  <1>1. Inv => InFlightOK
    BY DEF Inv
  <1>. QED  BY Safe, <1>1, PTL

-----------------------------------------------------------------------------
(* The audit trail.                                                        *)

\* What AuditTrail says of one batch.
Kept(b) ==
  /\ b \in DOMAIN batch'
  /\ batch'[b].source = batch[b].source
  /\ batch'[b].date = batch[b].date
  /\ batch'[b].debit = batch[b].debit
  /\ batch'[b].credit = batch[b].credit
  /\ batch'[b].reverses = batch[b].reverses
  /\ batch[b].status = "REVERSED" => batch'[b].status = "REVERSED"
  /\ \A i \in DOMAIN batch[b].lines :
       \/ i \in DOMAIN batch'[b].lines /\ batch'[b].lines[i] = batch[b].lines[i]
       \/ acct'[batch[b].lines[i].account].state = "ABSENT"

LEMMA ChangeKeeps ==
  ASSUME NEW fresh, NEW rev, Change(fresh, rev)
  PROVE  \A b \in DOMAIN batch : Kept(b)
  BY DEF Change, Kept

LEMMA NextKeeps ==
  ASSUME Inv, [Next]_vars
  PROVE  \A b \in DOMAIN batch : Kept(b)
<1>0. TypeOK /\ InFlightOK
  BY DEF Inv
<1>1. ASSUME UNCHANGED batch PROVE \A b \in DOMAIN batch : Kept(b)
  BY <1>1 DEF Kept
<1>2. ASSUME NEW src \in Source, RetractSource(src) PROVE \A b \in DOMAIN batch : Kept(b)
  BY <1>0, <1>2, RetractChange, ChangeKeeps
<1>3. ASSUME NEW q \in Request, PostCommit(q) PROVE \A b \in DOMAIN batch : Kept(b)
  BY <1>0, <1>3, PostChange, ChangeKeeps
<1>7. ASSUME NEW q \in Request, HookCommit(q) PROVE \A b \in DOMAIN batch : Kept(b)
  BY <1>0, <1>7, HookChange, ChangeKeeps DEF HookChanges
<1>4. ASSUME NEW q \in Request, ReverseCommit(q) PROVE \A b \in DOMAIN batch : Kept(b)
  BY <1>0, <1>4, ReverseChange, ChangeKeeps
<1>5. ASSUME NEW q \in Request, DeleteAccountCommit(q), NEW b \in DOMAIN batch
      PROVE  Kept(b)
  <2> DEFINE a == req[q].account
             m == [batch[b] EXCEPT !.lines = WithoutAccount(@, a)]
  <2>1. BatchRow(batch[b])
    BY <1>0 DEF TypeOK
  <2>2. batch'[b] = m /\ b \in DOMAIN batch'
    BY <1>5 DEF DeleteAccountCommit
  <2>3. /\ m.source = batch[b].source /\ m.date = batch[b].date
        /\ m.debit = batch[b].debit /\ m.credit = batch[b].credit
        /\ m.reverses = batch[b].reverses /\ m.status = batch[b].status
        /\ m.lines = WithoutAccount(batch[b].lines, a)
    BY <2>1 DEF BatchRow
  <2>4. a \in Account /\ acct'[a].state = "ABSENT"
    BY <1>0, <1>5 DEF DeleteAccountCommit, TypeOK, RequestOK, Idle, AbsentAccount
  <2>5. \A i \in DOMAIN batch[b].lines :
          batch[b].lines[i].account # a =>
            i \in DOMAIN m.lines /\ m.lines[i] = batch[b].lines[i]
    BY <2>3 DEF WithoutAccount, Restrict
  <2> HIDE DEF m, a
  <2>. QED  BY <2>2, <2>3, <2>4, <2>5 DEF Kept
<1>6. \/ UNCHANGED batch
      \/ \E src \in Source : RetractSource(src)
      \/ \E q \in Request :
           PostCommit(q) \/ HookCommit(q) \/ ReverseCommit(q) \/ DeleteAccountCommit(q)
  BY DEF Next, vars, UpsertAccount, SetAccountActive, SetPeriodLock, Tick, DeleteAccountRead,
     CreatePeriodRead, CreatePeriodCommit, PostRead, HookRead, ReverseRead, Abort
<1>. QED  BY <1>1, <1>2, <1>3, <1>4, <1>5, <1>6, <1>7

\* No step, whatever it interleaves with, removes or rewrites a batch or reopens one.
THEOREM AuditTrailHolds == Spec => AuditTrail
  <1>1. Inv /\ [Next]_vars => [\A b \in DOMAIN batch : Kept(b)]_vars
    BY NextKeeps
  <1>. QED  BY Safe, <1>1, PTL DEF Spec, AuditTrail, Kept

-----------------------------------------------------------------------------
(* The journal implements SourceLedger.                                    *)

\* What counts after a change: what counted and was not reversed, and what is new.
LEMMA PriorChange ==
  ASSUME NEW fresh, NEW rev, Change(fresh, rev), NEW s \in Source
  PROVE  Prior(s)' = (Prior(s) \ DOMAIN rev) \cup {x \in DOMAIN fresh : fresh[x].source = s}
  BY DEF Change, Prior, Free

LEMMA UsedGrows ==
  ASSUME TypeOK, NEW fresh, NEW rev, Change(fresh, rev), DOMAIN fresh # {}
  PROVE  Ledger!Grows
  <1>1. DOMAIN batch \subseteq DOMAIN batch' /\ DOMAIN batch' \subseteq BatchId
    BY DEF TypeOK, Change, Free
  <1>2. DOMAIN batch' # DOMAIN batch
    BY DEF Change, Free
  <1>. QED  BY <1>1, <1>2 DEF Ledger!Grows

\* A change none of whose batches a hook posted.
LEMMA NoneHooked ==
  ASSUME NEW fresh, NEW rev, Change(fresh, rev), \A x \in DOMAIN fresh : ~fresh[x].byHook
  PROVE  {b \in DOMAIN batch : batch[b].byHook}' = {b \in DOMAIN batch : batch[b].byHook}
  BY DEF Change

LEMMA InitRefines == Init => Ledger!Init
  BY DEF Init, Prior, Ledger!Init

LEMMA RetractRefines ==
  ASSUME Inv, NEW src \in Source, RetractSource(src)
  PROVE  Ledger!Next
  <1>1. PICK fresh, rev : /\ Change(fresh, rev)
                          /\ \A x \in DOMAIN fresh :
                               fresh[x].source = "REVERSAL" /\ ~fresh[x].byHook
                          /\ DOMAIN rev = ReversibleOf(Prior(src))
    BY RetractChange DEF Inv
  <1>2. Prior(src) \subseteq DOMAIN rev
    BY <1>1 DEF Inv, ReversalLinks, Prior, ReversibleOf, Reversible
  <1>3. \A s \in Source \ {src} : Prior(s) \cap DOMAIN rev = {}
    BY <1>1 DEF Prior, ReversibleOf
  <1>4. \A s \in Source : {x \in DOMAIN fresh : fresh[x].source = s} = {}
    BY <1>1, ConstantsOK
  <1>5. Prior(src)' = {}
    BY <1>1, <1>2, <1>4, PriorChange
  <1>6. \A s \in Source \ {src} : Prior(s)' = Prior(s)
    <2>1. ASSUME NEW s \in Source \ {src} PROVE Prior(s)' = Prior(s)
      <3>1. Prior(s)' = (Prior(s) \ DOMAIN rev) \cup {x \in DOMAIN fresh : fresh[x].source = s}
        BY <1>1, PriorChange
      <3>. QED  BY <1>3, <1>4, <3>1
    <2>. QED  BY <2>1
  <1>7. Prior(src) # {}
    BY DEF RetractSource
  <1>8. DOMAIN fresh # {}
    BY <1>1, <1>2, <1>7 DEF Change
  <1>9. Ledger!Grows
    BY <1>1, <1>8, UsedGrows DEF Inv
  <1>10. {b \in DOMAIN batch : batch[b].byHook}' = {b \in DOMAIN batch : batch[b].byHook}
    BY <1>1, NoneHooked
  <1>11. [s \in Source |-> Prior(s)]' = [[s \in Source |-> Prior(s)] EXCEPT ![src] = {}]
    BY <1>5, <1>6
  <1>12. Ledger!Withdraw(src)
    BY <1>10, <1>11 DEF Ledger!Withdraw
  <1>. QED  BY <1>9, <1>12 DEF Ledger!Next

LEMMA ReverseRefines ==
  ASSUME Inv, NEW q \in Request, ReverseCommit(q)
  PROVE  Ledger!Next
  <1>0. PICK b : b = req[q].target
    OBVIOUS
  <1>1. PICK fresh, rev : /\ Change(fresh, rev)
                          /\ \A x \in DOMAIN fresh :
                               fresh[x].source = "REVERSAL" /\ ~fresh[x].byHook
                          /\ DOMAIN rev = {b}
    BY <1>0, ReverseChange DEF Inv
  <1>2. b \in DOMAIN batch
    BY <1>0 DEF Inv, TypeOK, RequestOK, ReverseCommit, Idle
  <1>3. DOMAIN fresh # {}
    BY <1>1 DEF Change
  <1>4. \A s \in Source : {x \in DOMAIN fresh : fresh[x].source = s} = {}
    BY <1>1, ConstantsOK
  <1>5. \A s \in Source : Prior(s)' = Prior(s) \ {b}
    <2>1. ASSUME NEW s \in Source PROVE Prior(s)' = Prior(s) \ {b}
      <3>1. Prior(s)' = (Prior(s) \ DOMAIN rev) \cup {x \in DOMAIN fresh : fresh[x].source = s}
        BY <1>1, PriorChange
      <3>. QED  BY <1>1, <1>4, <3>1
    <2>. QED  BY <2>1
  <1>6. Ledger!Grows
    BY <1>1, <1>3, UsedGrows DEF Inv
  <1>9. {x \in DOMAIN batch : batch[x].byHook}' = {x \in DOMAIN batch : batch[x].byHook}
    BY <1>1, NoneHooked
  <1>7. CASE batch[b].status = "POSTED" /\ batch[b].source \in Source
    <2>1. PICK s \in Source : s = batch[b].source
      BY <1>7
    <2>2. b \in Prior(s) /\ \A o \in Source \ {s} : b \notin Prior(o)
      BY <1>2, <1>7, <2>1 DEF Prior
    <2>3. Prior(s)' = Prior(s) \ {b} /\ \A o \in Source \ {s} : Prior(o)' = Prior(o)
      BY <1>5, <2>2
    <2>4. [o \in Source |-> Prior(o)]' = [[o \in Source |-> Prior(o)] EXCEPT ![s] = @ \ {b}]
      BY <2>3
    <2>5. Ledger!Reverse(s, b) /\ b \in [o \in Source |-> Prior(o)][s]
      BY <1>9, <2>2, <2>4 DEF Ledger!Reverse
    <2>. QED  BY <1>6, <2>5 DEF Ledger!Next
  <1>8. CASE ~(batch[b].status = "POSTED" /\ batch[b].source \in Source)
    <2>1. \A s \in Source : b \notin Prior(s)
      BY <1>8 DEF Prior
    <2>2. \A s \in Source : Prior(s)' = Prior(s)
      BY <1>5, <2>1
    <2>3. [o \in Source |-> Prior(o)]' = [o \in Source |-> Prior(o)]
      BY <2>2
    <2>4. Ledger!Record
      BY <1>9, <2>3 DEF Ledger!Record
    <2>. QED  BY <1>6, <2>4 DEF Ledger!Next
  <1>. QED  BY <1>7, <1>8

\* A posting by hand adds to the source it names, if a hook has that source.
LEMMA PostRefines ==
  ASSUME Inv, NEW q \in Request, PostCommit(q)
  PROVE  Ledger!Next
  <1>1. PICK fresh, rev, n : /\ Change(fresh, rev)
                             /\ DOMAIN fresh = {n} /\ fresh[n] = req[q].row
                             /\ ~fresh[n].byHook /\ fresh[n].reverses = None
                             /\ DOMAIN rev = {}
    BY PostChange DEF Inv
  <1>2. PICK src : src = fresh[n].source
    OBVIOUS
  <1>3. \A s \in Source : Prior(s)' = Prior(s) \cup {x \in {n} : fresh[x].source = s}
    <2>1. ASSUME NEW s \in Source
          PROVE  Prior(s)' = Prior(s) \cup {x \in {n} : fresh[x].source = s}
      <3>1. Prior(s)' = (Prior(s) \ DOMAIN rev) \cup {x \in DOMAIN fresh : fresh[x].source = s}
        BY <1>1, PriorChange
      <3>. QED  BY <1>1, <3>1
    <2>. QED  BY <2>1
  <1>4. Ledger!Grows
    BY <1>1, UsedGrows DEF Inv
  <1>5. n \in DOMAIN batch' \ DOMAIN batch /\ ~batch'[n].byHook
    BY <1>1 DEF Change, Free
  <1>6. \A s \in Source \ {src} : Prior(s)' = Prior(s)
    BY <1>2, <1>3
  <1>9. {b \in DOMAIN batch : batch[b].byHook}' = {b \in DOMAIN batch : batch[b].byHook}
    BY <1>1, NoneHooked
  <1>7. CASE src \in Source
    <2>1. Prior(src)' = Prior(src) \cup {n}
      BY <1>2, <1>3, <1>7
    <2>2. [s \in Source |-> Prior(s)]' = [[s \in Source |-> Prior(s)] EXCEPT ![src] = @ \cup {n}]
      BY <1>6, <2>1
    <2>3. Ledger!Add(src, n) /\ n \in BatchId
      BY <1>1, <1>5, <1>9, <2>2 DEF Ledger!Add, Change, Free
    <2>. QED  BY <1>4, <1>7, <2>3 DEF Ledger!Next
  <1>8. CASE src \notin Source
    <2>1. [s \in Source |-> Prior(s)]' = [s \in Source |-> Prior(s)]
      BY <1>6, <1>8
    <2>2. Ledger!Record
      BY <1>9, <2>1 DEF Ledger!Record
    <2>. QED  BY <1>4, <2>2 DEF Ledger!Next
  <1>. QED  BY <1>7, <1>8

\* A hook replaces whatever hooks had posted for its source.
LEMMA HookRefines ==
  ASSUME Inv, NEW q \in Request, HookCommit(q)
  PROVE  Ledger!Next
  <1>0. PICK src : src = req[q].source
    OBVIOUS
  <1>1. PICK fresh, rev : HookChanges(q, fresh, rev)
    BY HookChange DEF Inv
  <1>2. req[q].op = "hook" /\ src \in Source /\ req[q].prior \subseteq DOMAIN batch
    BY <1>0 DEF HookCommit, Inv, TypeOK, RequestOK, Idle
  <1>3. \A b \in req[q].prior : batch[b].source = src
    BY <1>0, <1>2 DEF Inv, InFlightOK
  <1>4. PICK made : made = {x \in DOMAIN fresh : fresh[x].source = src}
    OBVIOUS
  <1>5. PICK missed : missed = Prior(src) \ DOMAIN rev
    OBVIOUS
  <1>6. Change(fresh, rev) /\ DOMAIN rev = ReversibleOf(req[q].prior)
    BY <1>1 DEF HookChanges
  <1>7. /\ Prior(src)' = missed \cup made
        /\ \A s \in Source \ {src} : Prior(s)' = Prior(s)
    <2>1. Prior(src)' = (Prior(src) \ DOMAIN rev) \cup {x \in DOMAIN fresh : fresh[x].source = src}
      BY <1>2, <1>6, PriorChange
    <2>2. ASSUME NEW s \in Source \ {src} PROVE Prior(s)' = Prior(s)
      <3>1. Prior(s)' = (Prior(s) \ DOMAIN rev) \cup {x \in DOMAIN fresh : fresh[x].source = s}
        BY <1>6, PriorChange
      <3>2. {x \in DOMAIN fresh : fresh[x].source = s} = {}
        BY <1>0, <1>1, <1>2, ConstantsOK DEF HookChanges
      <3>3. Prior(s) \cap DOMAIN rev = {}
        BY <1>3, <1>6 DEF Prior, ReversibleOf
      <3>. QED  BY <3>1, <3>2, <3>3
    <2>. QED  BY <1>4, <1>5, <2>1, <2>2
  <1>8. /\ made # {} /\ DOMAIN fresh # {}
        /\ \A x \in made : x \in DOMAIN batch' \ DOMAIN batch /\ batch'[x].byHook
    <2>1. made # {} /\ \A x \in made : fresh[x].byHook
      BY <1>0, <1>1, <1>2, <1>4, ConstantsOK DEF HookChanges
    <2>. QED  BY <1>4, <1>6, <2>1 DEF Change, Free
  <1>9. missed \subseteq Prior(src) /\ \A b \in missed : ~batch[b].byHook
    <2>1. ASSUME NEW b \in missed PROVE ~batch[b].byHook
      <3>1. b \in Prior(src) /\ b \notin DOMAIN rev
        BY <1>5
      <3>2. Reversible(b)
        BY <3>1 DEF Inv, ReversalLinks, Prior, Reversible
      <3>3. b \notin req[q].prior
        BY <1>6, <3>1, <3>2 DEF ReversibleOf
      <3>4. batch[b].byHook => b \in req[q].prior
        BY <1>0, <1>2, <3>1 DEF Inv, InFlightOK
      <3>5. batch[b].byHook \in BOOLEAN
        BY <3>1 DEF Inv, TypeOK, Prior, BatchRow
      <3>. QED  BY <3>3, <3>4, <3>5
    <2>. QED  BY <1>5, <2>1
  <1>10. Ledger!Grows
    BY <1>6, <1>8, UsedGrows DEF Inv
  <1>11. PICK hooked : hooked = {b \in DOMAIN batch : batch[b].byHook}
    OBVIOUS
  <1>12. {b \in DOMAIN batch : batch[b].byHook}' = hooked \cup made
    <2>1. \A x \in DOMAIN fresh : fresh[x].byHook <=> x \in made
      BY <1>0, <1>1, <1>2, <1>4, ConstantsOK DEF HookChanges
    <2>2. /\ DOMAIN batch' = DOMAIN batch \cup DOMAIN fresh
          /\ \A x \in DOMAIN fresh : batch'[x].byHook <=> x \in made
          /\ \A b \in DOMAIN batch : batch'[b].byHook = batch[b].byHook
      BY <1>6, <2>1 DEF Change
    <2>3. made \subseteq DOMAIN fresh /\ DOMAIN fresh \cap DOMAIN batch = {}
      BY <1>4, <1>6 DEF Change, Free
    <2>4. \A b \in DOMAIN batch' : batch'[b].byHook <=> (b \in hooked \/ b \in made)
      BY <1>11, <2>2, <2>3
    <2>5. hooked \cup made \subseteq DOMAIN batch'
      BY <1>11, <2>2, <2>3
    <2>. QED  BY <2>4, <2>5
  <1>13. hooked \cap made = {} /\ made \subseteq DOMAIN batch' \ DOMAIN batch
    BY <1>8, <1>11
  <1>14. [s \in Source |-> Prior(s)]' = [[s \in Source |-> Prior(s)] EXCEPT ![src] = made \cup missed]
    BY <1>7
  <1>15. missed \subseteq [s \in Source |-> Prior(s)][src] \ hooked
    BY <1>2, <1>9, <1>11
  <1>16. Ledger!Replace(src, missed)
    <2>1. ((hooked \cup made) \ hooked) = made /\ hooked \cup made # hooked
      BY <1>8, <1>13
    <2>. QED  BY <1>11, <1>12, <1>13, <1>14, <1>15, <2>1 DEF Ledger!Replace
  <1>17. missed \in SUBSET [s \in Source |-> Prior(s)][src]
    BY <1>15
  <1>. QED  BY <1>2, <1>10, <1>16, <1>17 DEF Ledger!Next

\* A step that leaves every batch's status, source and origin records nothing.
LEMMA SilentRefines ==
  ASSUME DOMAIN batch' = DOMAIN batch,
         \A b \in DOMAIN batch :
           /\ batch'[b].status = batch[b].status /\ batch'[b].source = batch[b].source
           /\ batch'[b].byHook = batch[b].byHook
  PROVE  UNCHANGED Ledger!vars
  <1>1. \A s : Prior(s)' = Prior(s)
    BY DEF Prior
  <1>2. {b \in DOMAIN batch : batch[b].byHook}' = {b \in DOMAIN batch : batch[b].byHook}
    OBVIOUS
  <1>. QED  BY <1>1, <1>2 DEF Ledger!vars

LEMMA StepRefines ==
  ASSUME Inv, [Next]_vars
  PROVE  [Ledger!Next]_(Ledger!vars)
<1>1. ASSUME UNCHANGED batch PROVE UNCHANGED Ledger!vars
  BY <1>1, SilentRefines
<1>2. ASSUME NEW src \in Source, RetractSource(src) PROVE Ledger!Next
  BY <1>2, RetractRefines
<1>3. ASSUME NEW q \in Request, PostCommit(q) PROVE Ledger!Next
  BY <1>3, PostRefines
<1>7. ASSUME NEW q \in Request, HookCommit(q) PROVE Ledger!Next
  BY <1>7, HookRefines
<1>4. ASSUME NEW q \in Request, ReverseCommit(q) PROVE Ledger!Next
  BY <1>4, ReverseRefines
<1>5. ASSUME NEW q \in Request, DeleteAccountCommit(q) PROVE UNCHANGED Ledger!vars
  <2>1. ASSUME NEW b \in DOMAIN batch
        PROVE  /\ batch'[b].status = batch[b].status /\ batch'[b].source = batch[b].source
               /\ batch'[b].byHook = batch[b].byHook
    <3>1. BatchRow(batch[b])
      BY DEF Inv, TypeOK
    <3>2. batch'[b] = [batch[b] EXCEPT !.lines = WithoutAccount(@, req[q].account)]
      BY <1>5 DEF DeleteAccountCommit
    <3>. QED  BY <3>1, <3>2 DEF BatchRow
  <2>2. DOMAIN batch' = DOMAIN batch
    BY <1>5 DEF DeleteAccountCommit
  <2>. QED  BY <2>1, <2>2, SilentRefines
<1>6. \/ UNCHANGED batch
      \/ \E src \in Source : RetractSource(src)
      \/ \E q \in Request :
           PostCommit(q) \/ HookCommit(q) \/ ReverseCommit(q) \/ DeleteAccountCommit(q)
  BY DEF Next, vars, UpsertAccount, SetAccountActive, SetPeriodLock, Tick, DeleteAccountRead,
     CreatePeriodRead, CreatePeriodCommit, PostRead, HookRead, ReverseRead, Abort
<1>. QED  BY <1>1, <1>2, <1>3, <1>4, <1>5, <1>6, <1>7

\* Whoever posts, reverses by hand or deletes accounts at once: a hook takes the place of
\* all that hooks posted for its source before, in one step; what stopped counting never
\* counts again; and only a posting by hand adds to what a source's hook left.
THEOREM JournalImplementsLedger == Spec => ImplementsLedger
  <1>1. Inv /\ [Next]_vars => [Ledger!Next]_(Ledger!vars)
    BY StepRefines
  <1>. QED  BY Safe, InitRefines, <1>1, PTL DEF Spec, ImplementsLedger, Ledger!Spec

-----------------------------------------------------------------------------
(* Totals and effects of entries.                                          *)

\* Entry by entry, m exchanges the debits and the credits of l.
Mirrors(m, l) ==
  /\ DOMAIN m = DOMAIN l
  /\ \A i \in DOMAIN l : /\ m[i].account = l[i].account
                         /\ m[i].debit = l[i].credit /\ m[i].credit = l[i].debit

Same(m, l) == DOMAIN m = DOMAIN l /\ \A i \in DOMAIN l : m[i] = l[i]

LEMMA MirrorMirrors == \A lines : Mirrors(Mirror(lines), lines)
  BY DEF Mirrors, Mirror

LEMMA MirrorTotals ==
  ASSUME NEW m, NEW l, Mirrors(m, l)
  PROVE  /\ TotalDebit(m) = TotalCredit(l) /\ TotalCredit(m) = TotalDebit(l)
         /\ NormalizedLines(l) => NormalizedLines(m)
<1>1. /\ [i \in DOMAIN m |-> m[i].debit] = [i \in DOMAIN l |-> l[i].credit]
      /\ [i \in DOMAIN m |-> m[i].credit] = [i \in DOMAIN l |-> l[i].debit]
  BY DEF Mirrors
<1>2. DOMAIN m = DOMAIN l
  BY DEF Mirrors
<1>3. TotalDebit(m) = TotalCredit(l) /\ TotalCredit(m) = TotalDebit(l)
  BY <1>1, <1>2, Zenon DEF TotalDebit, TotalCredit
<1>4. NormalizedLines(l) => NormalizedLines(m)
  BY DEF Mirrors, NormalizedLines
<1> QED BY <1>3, <1>4

LEMMA SameTotals ==
  ASSUME NEW m, NEW l, Same(m, l)
  PROVE  /\ TotalDebit(m) = TotalDebit(l) /\ TotalCredit(m) = TotalCredit(l)
         /\ NormalizedLines(l) => NormalizedLines(m)
<1>1. /\ [i \in DOMAIN m |-> m[i].debit] = [i \in DOMAIN l |-> l[i].debit]
      /\ [i \in DOMAIN m |-> m[i].credit] = [i \in DOMAIN l |-> l[i].credit]
  BY DEF Same
<1>2. DOMAIN m = DOMAIN l
  BY DEF Same
<1>3. TotalDebit(m) = TotalDebit(l) /\ TotalCredit(m) = TotalCredit(l)
  BY <1>1, <1>2, Zenon DEF TotalDebit, TotalCredit
<1>4. NormalizedLines(l) => NormalizedLines(m)
  BY DEF Same, NormalizedLines
<1> QED BY <1>3, <1>4

\* The debits of normalized entries do not add up to less than nothing.
LEMMA DebitsCount ==
  ASSUME NEW lines, IsFiniteSet(DOMAIN lines), \A i \in DOMAIN lines : lines[i] \in Line,
         NormalizedLines(lines)
  PROVE  TotalDebit(lines) \in Int /\ TotalDebit(lines) >= 0
<1>1. PICK f : f = [i \in DOMAIN lines |-> lines[i].debit]
  OBVIOUS
<1>2. \A i \in DOMAIN lines : f[i] \in Int /\ f[i] >= 0
  BY <1>1 DEF NormalizedLines, Line
<1>3. SumFunctionOnSet(f, DOMAIN lines) \in Int /\ SumFunctionOnSet(f, DOMAIN lines) >= 0
  BY <1>2, SumNonNegative
<1> QED BY <1>1, <1>3 DEF TotalDebit

\* An account none of whose entries exist takes none with it.
LEMMA NothingCascades ==
  ASSUME NEW lines, NEW a, a \notin AccountsOf(lines)
  PROVE  Same(WithoutAccount(lines, a), lines)
  BY DEF AccountsOf, WithoutAccount, Restrict, Same

-----------------------------------------------------------------------------
(* Every batch balances, as long as an account that is being deleted got no *)
(* entry between the two steps of the deletion.                            *)

BalancedRow(row) ==
  /\ TotalDebit(row.lines) = row.debit /\ TotalCredit(row.lines) = row.credit
  /\ row.debit = row.credit /\ row.debit > 0
  /\ NormalizedLines(row.lines)

\* So does what a request is about to insert.
Balanced ==
  /\ \A b \in DOMAIN batch : BalancedRow(batch[b])
  /\ \A q \in Request :
       /\ req[q].op \in {"post", "reverse"} => BalancedRow(req[q].row)
       /\ req[q].op = "hook" => \A i \in DOMAIN req[q].rows : BalancedRow(req[q].rows[i])

\* What deleteAccount counted before its transaction still holds: nothing in the code
\* sees to it, and the foreign key cascades.
NothingToCascade ==
  \A q \in Request : req[q].op = "delete" =>
    \A b \in DOMAIN batch : req[q].account \notin AccountsOf(batch[b].lines)

LEMMA PostingBalanced ==
  ASSUME NEW byHook, NEW src, NEW draft \in Draft, NEW d, NEW earlier,
         Postable(earlier, Rounded(draft), d)
  PROVE  BalancedRow(PostingOf(byHook, src, Rounded(draft), d))
<1>1. PICK lines : lines = Rounded(draft)
  OBVIOUS
<1>2. /\ NormalizedLines(lines) /\ TotalDebit(lines) = TotalCredit(lines)
      /\ TotalDebit(lines) # 0
  BY <1>1 DEF Postable
<1>3. TotalDebit(lines) \in Int /\ TotalDebit(lines) >= 0
  BY <1>1, <1>2, RoundedTyped, DebitsCount
<1>4. TotalDebit(lines) > 0
  BY <1>2, <1>3
<1> QED BY <1>1, <1>2, <1>4 DEF PostingOf, BalancedRow

LEMMA ReversalBalanced ==
  ASSUME NEW b, BalancedRow(batch[b])
  PROVE  BalancedRow(ReversalOf(b))
<1>1. PICK l : l = batch[b].lines
  OBVIOUS
<1>2. PICK m : m = Mirror(l)
  OBVIOUS
<1>3. TotalDebit(m) = TotalCredit(l) /\ TotalCredit(m) = TotalDebit(l) /\ NormalizedLines(m)
  BY <1>1, <1>2, MirrorMirrors, MirrorTotals DEF BalancedRow
<1> QED BY <1>1, <1>2, <1>3 DEF ReversalOf, BalancedRow

LEMMA ChangeBalanced ==
  ASSUME Balanced, NEW fresh, NEW rev, Change(fresh, rev),
         \A x \in DOMAIN fresh : BalancedRow(fresh[x]),
         \A r \in Request : req'[r] \in {req[r], Idle}
  PROVE  Balanced'
<1>1. ASSUME NEW b \in DOMAIN batch'
      PROVE  BalancedRow(batch'[b])
  <2>1. CASE b \in DOMAIN fresh
    BY <2>1 DEF Change
  <2>2. CASE b \in DOMAIN batch
    BY <2>2 DEF Change, Balanced, BalancedRow
  <2> QED BY <2>1, <2>2 DEF Change
<1>2. \A r \in Request :
        /\ req'[r].op \in {"post", "reverse"} => BalancedRow(req'[r].row)
        /\ req'[r].op = "hook" => \A i \in DOMAIN req'[r].rows : BalancedRow(req'[r].rows[i])
  BY DEF Balanced, Idle
<1> QED BY <1>1, <1>2 DEF Balanced

LEMMA NextBalanced ==
  ASSUME Inv, Balanced, NothingToCascade, [Next]_vars
  PROVE  Balanced'
<1>0. TypeOK /\ InFlightOK
  BY DEF Inv
<1>f. ASSUME NEW q \in Request, Finish(q)
      PROVE  \A r \in Request : req'[r] \in {req[r], Idle}
  BY <1>0, <1>f DEF Finish, TypeOK
<1>b. ASSUME NEW q \in Request, NEW r, Begin(q, r), UNCHANGED batch,
             r.op \in {"post", "reverse"} => BalancedRow(r.row),
             r.op = "hook" => \A i \in DOMAIN r.rows : BalancedRow(r.rows[i])
      PROVE  Balanced'
  <2>1. \A x \in Request : req'[x] = IF x = q THEN r ELSE req[x]
    BY <1>0, <1>b DEF Begin, TypeOK
  <2> QED BY <1>b, <2>1 DEF Balanced
<1>u. ASSUME UNCHANGED batch, \A r \in Request : req'[r] \in {req[r], Idle}
      PROVE  Balanced'
  BY <1>u DEF Balanced, Idle
<1>1. ASSUME NEW src \in Source, RetractSource(src) PROVE Balanced'
  <2>1. PICK fresh, rev :
          /\ Change(fresh, rev)
          /\ \A x \in DOMAIN fresh :
               fresh[x].reverses \in DOMAIN rev /\ fresh[x] = ReversalOf(fresh[x].reverses)
    BY <1>0, <1>1, RetractChange
  <2>2. \A x \in DOMAIN fresh : BalancedRow(fresh[x])
    BY <2>1, ReversalBalanced DEF Change, Balanced
  <2> QED BY <1>1, <2>1, <2>2, ChangeBalanced DEF RetractSource, Slot
<1>2. ASSUME NEW q \in Request, PostCommit(q) PROVE Balanced'
  <2>1. PICK fresh, rev, n : /\ Change(fresh, rev)
                             /\ DOMAIN fresh = {n} /\ fresh[n] = req[q].row
                             /\ ~fresh[n].byHook /\ fresh[n].reverses = None
                             /\ DOMAIN rev = {}
    BY <1>0, <1>2, PostChange
  <2>2. BalancedRow(req[q].row) /\ Finish(q)
    BY <1>2 DEF PostCommit, Balanced
  <2>3. \A x \in DOMAIN fresh : BalancedRow(fresh[x])
    BY <2>1, <2>2
  <2> QED BY <1>f, <2>1, <2>2, <2>3, ChangeBalanced
<1>11. ASSUME NEW q \in Request, HookCommit(q) PROVE Balanced'
  <2>1. PICK fresh, rev : HookChanges(q, fresh, rev)
    BY <1>0, <1>11, HookChange
  <2>2. (\A i \in DOMAIN req[q].rows : BalancedRow(req[q].rows[i])) /\ Finish(q)
    BY <1>11 DEF HookCommit, Balanced
  <2>3. \A x \in DOMAIN fresh : BalancedRow(fresh[x])
    BY <2>1, <2>2, ReversalBalanced DEF HookChanges, Change, Balanced
  <2>4. Change(fresh, rev)
    BY <2>1 DEF HookChanges
  <2> QED BY <1>f, <2>2, <2>3, <2>4, ChangeBalanced
<1>3. ASSUME NEW q \in Request, ReverseCommit(q) PROVE Balanced'
  <2>1. PICK fresh, rev : /\ Change(fresh, rev)
                          /\ \A x \in DOMAIN fresh : fresh[x] = req[q].row
    BY <1>0, <1>3, ReverseChange
  <2>2. BalancedRow(req[q].row) /\ Finish(q)
    BY <1>3 DEF ReverseCommit, Balanced
  <2> QED BY <1>f, <2>1, <2>2, ChangeBalanced
<1>4. ASSUME NEW q \in Request, DeleteAccountCommit(q) PROVE Balanced'
  <2>1. Finish(q) /\ DOMAIN batch' = DOMAIN batch
    BY <1>4 DEF DeleteAccountCommit
  <2>2. ASSUME NEW b \in DOMAIN batch PROVE BalancedRow(batch'[b])
    <3>1. BatchRow(batch[b]) /\ BalancedRow(batch[b])
      BY <1>0 DEF TypeOK, Balanced
    <3>2. batch'[b] = [batch[b] EXCEPT !.lines = WithoutAccount(@, req[q].account)]
      BY <1>4 DEF DeleteAccountCommit
    <3>3. /\ batch'[b].debit = batch[b].debit /\ batch'[b].credit = batch[b].credit
          /\ batch'[b].lines = WithoutAccount(batch[b].lines, req[q].account)
      BY <3>1, <3>2 DEF BatchRow
    <3>4. Same(batch'[b].lines, batch[b].lines)
      BY <1>4, <3>3, NothingCascades DEF NothingToCascade, DeleteAccountCommit
    <3>5. /\ TotalDebit(batch'[b].lines) = TotalDebit(batch[b].lines)
          /\ TotalCredit(batch'[b].lines) = TotalCredit(batch[b].lines)
          /\ NormalizedLines(batch[b].lines) => NormalizedLines(batch'[b].lines)
      BY <3>4, SameTotals
    <3> QED BY <3>1, <3>3, <3>5 DEF BalancedRow
  <2>3. \A r \in Request :
          /\ req'[r].op \in {"post", "reverse"} => BalancedRow(req'[r].row)
          /\ req'[r].op = "hook" => \A i \in DOMAIN req'[r].rows : BalancedRow(req'[r].rows[i])
    BY <1>f, <2>1 DEF Balanced, Idle
  <2> QED BY <2>1, <2>2, <2>3 DEF Balanced
<1>5. ASSUME NEW q \in Request, NEW src \in HandSource, NEW draft \in Draft,
             NEW d \in Day, PostRead(q, src, draft, d)
      PROVE  Balanced'
  <2>1. PICK r : r = [op |-> "post", row |-> PostingOf(FALSE, src, Rounded(draft), d)]
    OBVIOUS
  <2>2. Begin(q, r) /\ UNCHANGED batch /\ Postable(<<>>, Rounded(draft), d)
    BY <1>5, <2>1 DEF PostRead
  <2>3. BalancedRow(r.row) /\ r.op = "post"
    BY <2>1, <2>2, PostingBalanced
  <2> QED BY <1>b, <2>2, <2>3
<1>12. ASSUME NEW q \in Request, NEW src \in Source, NEW drafts \in Together,
              NEW d \in Day, HookRead(q, src, drafts, d)
       PROVE  Balanced'
  <2>1. PICK lists : lists = [i \in DOMAIN drafts |-> Rounded(drafts[i])]
    OBVIOUS
  <2>2. PICK r : r = [op |-> "hook", source |-> src, prior |-> Prior(src),
                      rows |-> [i \in DOMAIN lists |-> PostingOf(TRUE, src, lists[i], d)]]
    OBVIOUS
  <2>3. /\ Begin(q, r) /\ UNCHANGED batch
        /\ \A i \in DOMAIN lists : Postable(SubSeq(lists, 1, i - 1), lists[i], d)
    BY <1>12, <2>1, <2>2, Zenon DEF HookRead
  <2>4. ASSUME NEW i \in DOMAIN drafts
        PROVE  BalancedRow(PostingOf(TRUE, src, lists[i], d))
    <3>1. PICK earlier : earlier = SubSeq(lists, 1, i - 1)
      OBVIOUS
    <3>2. drafts[i] \in Draft /\ lists[i] = Rounded(drafts[i])
      BY <2>1, DraftsTyped
    <3>3. Postable(earlier, Rounded(drafts[i]), d)
      BY <2>1, <2>3, <3>1, <3>2
    <3> QED BY <3>2, <3>3, PostingBalanced
  <2>5. r.op = "hook" /\ \A i \in DOMAIN r.rows : BalancedRow(r.rows[i])
    BY <2>1, <2>2, <2>4
  <2> QED BY <1>b, <2>3, <2>5
<1>6. ASSUME NEW q \in Request, NEW b \in BatchId, ReverseRead(q, b) PROVE Balanced'
  <2>1. PICK r : r = [op |-> "reverse", target |-> b, row |-> ReversalOf(b)]
    OBVIOUS
  <2>2. Begin(q, r) /\ UNCHANGED batch /\ b \in DOMAIN batch
    BY <1>6, <2>1 DEF ReverseRead
  <2>3. BalancedRow(r.row) /\ r.op = "reverse"
    BY <2>1, <2>2, ReversalBalanced DEF Balanced
  <2> QED BY <1>b, <2>2, <2>3
<1>7. ASSUME NEW q \in Request, NEW a \in Account, DeleteAccountRead(q, a) PROVE Balanced'
  BY <1>7, <1>b DEF DeleteAccountRead
<1>8. ASSUME NEW q \in Request, NEW p \in PeriodId, NEW first \in Day, NEW last \in Day,
             CreatePeriodRead(q, p, first, last)
      PROVE  Balanced'
  BY <1>8, <1>b DEF CreatePeriodRead
<1>9. ASSUME NEW q \in Request, CreatePeriodCommit(q) \/ Abort(q) PROVE Balanced'
  BY <1>9, <1>f, <1>u DEF CreatePeriodCommit, Abort
<1>10. ASSUME UNCHANGED <<batch, req>> PROVE Balanced'
  BY <1>10 DEF Balanced
<1> QED BY <1>1, <1>2, <1>3, <1>4, <1>5, <1>6, <1>7, <1>8, <1>9, <1>10, <1>11, <1>12
        DEF Next, vars, UpsertAccount, SetAccountActive, SetPeriodLock, Slot, Tick

\* Whatever interleaves, every batch balances entry by entry and with its stored totals,
\* for any drafts and any number of requests, provided no account gets an entry between
\* the count and the commit of its deletion (doPost, reverseBatchWithinTx, deleteAccount).
THEOREM EntriesBalance == Spec /\ []NothingToCascade => []EntriesBalanced
<1>1. Init => Balanced
  BY DEF Init, Balanced, Idle
<1>2. Inv /\ Balanced /\ NothingToCascade /\ [Next]_vars => Balanced'
  BY NextBalanced
<1>3. Balanced => EntriesBalanced
  BY DEF Balanced, BalancedRow, EntriesBalanced
<1> QED BY Safe, <1>1, <1>2, <1>3, PTL DEF Spec

-----------------------------------------------------------------------------
(* Requests that run one by one.                                           *)

Sole == \A p, q \in Request : req[p] # Idle /\ req[q] # Idle => p = q

\* Each reversal has an original of its own, and its entries mirror the original's.
Undone ==
  \A c \in DOMAIN batch : batch[c].reverses # None =>
    /\ batch[batch[c].reverses].reversedBy = c
    /\ Mirrors(batch[c].lines, batch[batch[c].reverses].lines)

\* What a request has read is still so.
StillSo(r) ==
  /\ r.op = "post" => StaysNonNegative(<<>>, r.row.lines)
  /\ r.op = "reverse" => Reversible(r.target) /\ Mirrors(r.row.lines, batch[r.target].lines)
  /\ r.op = "delete" => \A b \in DOMAIN batch : r.account \notin AccountsOf(batch[b].lines)

AloneFacts == Sole /\ Undone /\ \A q \in Request : StillSo(req[q])

LEMMA StepsAlone ==
  ASSUME MCNext, alone', DOMAIN req' = Request
  PROVE  alone /\ Sole' /\ (req' # req \/ \A q \in Request : req[q] = Idle)
<1>1. alone /\ Cardinality(InFlight') <= 1 /\ (InFlight = {} \/ req' # req)
  BY DEF MCNext
<1>2. IsFiniteSet(InFlight')
  BY ConstantsOK, FS_Subset DEF InFlight
<1>3. Sole'
  BY <1>1, <1>2, AtMostOne DEF Sole, InFlight
<1> QED BY <1>1, <1>3 DEF InFlight

LEMMA AllIdle ==
  ASSUME TypeOK, AloneFacts, NEW q \in Request, req[q] # Idle, Finish(q)
  PROVE  \A p \in Request : StillSo(req[p])'
<1>1. \A p \in Request : req'[p] = Idle
  BY DEF TypeOK, AloneFacts, Sole, Finish
<1> QED BY <1>1 DEF StillSo, Idle

LEMMA NoneInFlight ==
  ASSUME \A q \in Request : req[q] = Idle, UNCHANGED req
  PROVE  \A p \in Request : StillSo(req[p])'
  BY DEF StillSo, Idle

\* A request that reads.
LEMMA ReadsAlone ==
  ASSUME TypeOK, AloneFacts, Sole', NEW q \in Request, NEW r, Begin(q, r),
         UNCHANGED <<acct, batch>>, StillSo(r)
  PROVE  AloneFacts'
<1>1. \A p \in Request : req'[p] = IF p = q THEN r ELSE req[p]
  BY DEF TypeOK, Begin
<1>2. \A p \in Request : StillSo(req[p])'
  BY <1>1 DEF AloneFacts, StillSo, StaysNonNegative, EffectOfAll, Natural, Balance, Reversible
<1>3. Undone'
  BY DEF AloneFacts, Undone
<1> QED BY <1>2, <1>3 DEF AloneFacts

\* A change that reverses batches not yet reversed, each by its mirror.
LEMMA ChangeUndone ==
  ASSUME Inv, Undone, NEW fresh, NEW rev, Change(fresh, rev),
         \A b \in DOMAIN rev : /\ batch[b].reversedBy = None
                               /\ Mirrors(fresh[rev[b]].lines, batch[b].lines)
  PROVE  Undone'
<1>1. None \notin DOMAIN batch
  BY ConstantsOK DEF Inv, TypeOK
<1>2. ASSUME NEW c \in DOMAIN batch', batch'[c].reverses # None
      PROVE  /\ batch'[batch'[c].reverses].reversedBy = c
             /\ Mirrors(batch'[c].lines, batch'[batch'[c].reverses].lines)
  <2>1. CASE c \in DOMAIN fresh
    <3>1. PICK b \in DOMAIN rev : b = fresh[c].reverses /\ rev[b] = c
      BY <1>2, <2>1 DEF Change
    <3>2. /\ batch'[c] = fresh[c] /\ batch'[b].reversedBy = c
          /\ batch'[b].lines = batch[b].lines
      BY <2>1, <3>1 DEF Change
    <3> QED BY <3>1, <3>2
  <2>2. CASE c \in DOMAIN batch
    <3>1. PICK b : b = batch[c].reverses
      OBVIOUS
    <3>2. /\ batch'[c].reverses = b /\ b # None /\ batch'[c].lines = batch[c].lines
      BY <1>2, <2>2, <3>1 DEF Change
    <3>3. b \in DOMAIN batch /\ batch[b].reversedBy = c
      BY <2>2, <3>1, <3>2 DEF Inv, ReversalLinks, Undone
    <3>4. b \notin DOMAIN rev
      BY <1>1, <2>2, <3>3
    <3>5. batch'[b].reversedBy = c /\ batch'[b].lines = batch[b].lines
      BY <3>3, <3>4 DEF Change
    <3>6. Mirrors(batch[c].lines, batch[b].lines)
      BY <2>2, <3>1, <3>2 DEF Undone
    <3> QED BY <3>2, <3>5, <3>6
  <2> QED BY <1>2, <2>1, <2>2 DEF Change
<1> QED BY <1>2 DEF Undone

\* The reversals retractPriorForSource makes.
LEMMA ReversalsUndo ==
  ASSUME NEW fresh, NEW rev, Change(fresh, rev), NEW originals,
         DOMAIN rev = ReversibleOf(originals),
         \A b \in DOMAIN rev : fresh[rev[b]] = ReversalOf(b)
  PROVE  \A b \in DOMAIN rev : /\ batch[b].reversedBy = None
                               /\ Mirrors(fresh[rev[b]].lines, batch[b].lines)
<1>1. \A b : ReversalOf(b).lines = Mirror(batch[b].lines)
  BY DEF ReversalOf
<1> QED BY <1>1, MirrorMirrors DEF ReversibleOf, Reversible

LEMMA RetractAlone ==
  ASSUME Inv, AloneFacts, NEW src \in Source, RetractSource(src)
  PROVE  Undone'
<1>1. PICK fresh, rev :
        /\ Change(fresh, rev)
        /\ \A x \in DOMAIN fresh : fresh[x] = ReversalOf(fresh[x].reverses)
        /\ DOMAIN rev = ReversibleOf(Prior(src))
  BY RetractChange DEF Inv
<1>2. \A b \in DOMAIN rev : fresh[rev[b]] = ReversalOf(b)
  BY <1>1 DEF Change
<1>3. \A b \in DOMAIN rev : /\ batch[b].reversedBy = None
                            /\ Mirrors(fresh[rev[b]].lines, batch[b].lines)
  BY <1>1, <1>2, ReversalsUndo
<1> QED BY <1>1, <1>3, ChangeUndone DEF AloneFacts

LEMMA PostAlone ==
  ASSUME Inv, AloneFacts, NEW q \in Request, PostCommit(q)
  PROVE  Undone'
<1>1. PICK fresh, rev, n : /\ Change(fresh, rev)
                           /\ DOMAIN fresh = {n} /\ fresh[n] = req[q].row
                           /\ ~fresh[n].byHook /\ fresh[n].reverses = None
                           /\ DOMAIN rev = {}
  BY PostChange DEF Inv
<1> QED BY <1>1, ChangeUndone DEF AloneFacts

LEMMA HookAlone ==
  ASSUME Inv, AloneFacts, NEW q \in Request, HookCommit(q)
  PROVE  Undone'
<1>1. PICK fresh, rev : HookChanges(q, fresh, rev)
  BY HookChange DEF Inv
<1>2. Change(fresh, rev) /\ DOMAIN rev = ReversibleOf(req[q].prior)
  BY <1>1 DEF HookChanges
<1>3. \A b \in DOMAIN rev : b # None
  BY <1>2, ConstantsOK DEF Change, Inv, TypeOK
<1>4. \A b \in DOMAIN rev : fresh[rev[b]] = ReversalOf(b)
  BY <1>1, <1>2, <1>3 DEF HookChanges, Change
<1>5. \A b \in DOMAIN rev : /\ batch[b].reversedBy = None
                            /\ Mirrors(fresh[rev[b]].lines, batch[b].lines)
  BY <1>2, <1>4, ReversalsUndo
<1> QED BY <1>2, <1>5, ChangeUndone DEF AloneFacts

LEMMA ReverseAlone ==
  ASSUME Inv, AloneFacts, NEW q \in Request, ReverseCommit(q)
  PROVE  Undone'
<1>1. PICK fresh, rev : /\ Change(fresh, rev)
                        /\ \A x \in DOMAIN fresh : fresh[x] = req[q].row
                        /\ DOMAIN rev = {req[q].target}
  BY ReverseChange DEF Inv
<1>2. Reversible(req[q].target) /\ Mirrors(req[q].row.lines, batch[req[q].target].lines)
  BY DEF ReverseCommit, AloneFacts, StillSo
<1>3. \A b \in DOMAIN rev : /\ batch[b].reversedBy = None
                            /\ Mirrors(fresh[rev[b]].lines, batch[b].lines)
  BY <1>1, <1>2 DEF Change, Reversible
<1> QED BY <1>1, <1>3, ChangeUndone DEF AloneFacts

LEMMA DeleteAlone ==
  ASSUME Inv, AloneFacts, NEW q \in Request, DeleteAccountCommit(q)
  PROVE  Undone'
<1>1. DOMAIN batch' = DOMAIN batch
  BY DEF DeleteAccountCommit
<1>2. ASSUME NEW b \in DOMAIN batch
      PROVE  /\ batch'[b].reverses = batch[b].reverses
             /\ batch'[b].reversedBy = batch[b].reversedBy
             /\ Same(batch'[b].lines, batch[b].lines)
  <2>1. BatchRow(batch[b])
    BY DEF Inv, TypeOK
  <2>2. batch'[b] = [batch[b] EXCEPT !.lines = WithoutAccount(@, req[q].account)]
    BY DEF DeleteAccountCommit
  <2>3. /\ batch'[b].reverses = batch[b].reverses
        /\ batch'[b].reversedBy = batch[b].reversedBy
        /\ batch'[b].lines = WithoutAccount(batch[b].lines, req[q].account)
    BY <2>1, <2>2 DEF BatchRow
  <2>4. req[q].account \notin AccountsOf(batch[b].lines)
    BY DEF AloneFacts, StillSo, DeleteAccountCommit
  <2> QED BY <2>3, <2>4, NothingCascades
<1>3. \A c \in DOMAIN batch : batch[c].reverses # None => batch[c].reverses \in DOMAIN batch
  BY DEF Inv, ReversalLinks
<1>4. ASSUME NEW c \in DOMAIN batch', batch'[c].reverses # None
      PROVE  /\ batch'[batch'[c].reverses].reversedBy = c
             /\ Mirrors(batch'[c].lines, batch'[batch'[c].reverses].lines)
  <2>1. PICK b \in DOMAIN batch : b = batch[c].reverses
    BY <1>1, <1>2, <1>3, <1>4
  <2>2. batch[b].reversedBy = c /\ Mirrors(batch[c].lines, batch[b].lines)
    BY <1>1, <1>2, <1>4, <2>1 DEF AloneFacts, Undone
  <2>3. Same(batch'[b].lines, batch[b].lines) /\ Same(batch'[c].lines, batch[c].lines)
    BY <1>1, <1>2
  <2>4. Mirrors(batch'[c].lines, batch'[b].lines)
    BY <2>2, <2>3 DEF Mirrors, Same
  <2> QED BY <1>1, <1>2, <2>1, <2>2, <2>4
<1> QED BY <1>4 DEF Undone

LEMMA NextAlone ==
  ASSUME Inv, AloneFacts, Sole', req' # req \/ \A q \in Request : req[q] = Idle, Next
  PROVE  AloneFacts'
<1>0. TypeOK /\ Undone
  BY DEF Inv, AloneFacts
<1>s. ASSUME Slot, Undone' PROVE AloneFacts'
  <2>1. \A q \in Request : req[q] = Idle
    BY <1>s DEF Slot
  <2> QED BY <1>s, <2>1, NoneInFlight DEF AloneFacts, Slot
<1>f. ASSUME NEW q \in Request, req[q] # Idle, Finish(q), Undone' PROVE AloneFacts'
  BY <1>0, <1>f, AllIdle DEF AloneFacts
<1>u. ASSUME UNCHANGED batch PROVE Undone'
  BY <1>0, <1>u DEF Undone
<1>1. ASSUME NEW a \in Account, NEW form \in Edit, UpsertAccount(a, form) PROVE AloneFacts'
  BY <1>1, <1>s, <1>u DEF UpsertAccount
<1>2. ASSUME NEW a \in Account, NEW active \in BOOLEAN, SetAccountActive(a, active)
      PROVE  AloneFacts'
  BY <1>2, <1>s, <1>u DEF SetAccountActive
<1>3. ASSUME NEW p \in PeriodId, NEW locked \in BOOLEAN, SetPeriodLock(p, locked)
      PROVE  AloneFacts'
  BY <1>3, <1>s, <1>u DEF SetPeriodLock
<1>4. ASSUME NEW src \in Source, RetractSource(src) PROVE AloneFacts'
  BY <1>4, <1>s, RetractAlone DEF RetractSource
<1>5. CASE Tick
  <2>1. \A q \in Request : req[q] = Idle
    BY <1>5 DEF Tick
  <2> QED BY <1>5, <1>u, <2>1, NoneInFlight DEF AloneFacts, Tick
<1>6. ASSUME NEW q \in Request, NEW a \in Account, DeleteAccountRead(q, a) PROVE AloneFacts'
  <2>1. PICK r : r = [op |-> "delete", account |-> a]
    OBVIOUS
  <2>2. Begin(q, r) /\ UNCHANGED <<acct, batch>>
    BY <1>6, <2>1 DEF DeleteAccountRead
  <2>3. StillSo(r)
    BY <1>6, <2>1 DEF DeleteAccountRead, StillSo
  <2> QED BY <1>0, <2>2, <2>3, ReadsAlone
<1>7. ASSUME NEW q \in Request, NEW p \in PeriodId, NEW first \in Day, NEW last \in Day,
             CreatePeriodRead(q, p, first, last)
      PROVE  AloneFacts'
  <2>1. PICK r : r = [op |-> "period", id |-> p,
                      row |-> [status |-> "OPEN", start |-> first, end |-> last]]
    OBVIOUS
  <2>2. Begin(q, r) /\ UNCHANGED <<acct, batch>>
    BY <1>7, <2>1 DEF CreatePeriodRead
  <2>3. StillSo(r)
    BY <2>1 DEF StillSo
  <2> QED BY <1>0, <2>2, <2>3, ReadsAlone
<1>8. ASSUME NEW q \in Request, NEW src \in HandSource, NEW draft \in Draft,
             NEW d \in Day, PostRead(q, src, draft, d)
      PROVE  AloneFacts'
  <2>1. PICK r : r = [op |-> "post", row |-> PostingOf(FALSE, src, Rounded(draft), d)]
    OBVIOUS
  <2>2. Begin(q, r) /\ UNCHANGED <<acct, batch>> /\ StaysNonNegative(<<>>, Rounded(draft))
    BY <1>8, <2>1 DEF PostRead, Postable
  <2>3. r.op = "post" /\ r.row.lines = Rounded(draft)
    BY <2>1 DEF PostingOf
  <2>4. StillSo(r)
    BY <2>2, <2>3 DEF StillSo
  <2> QED BY <1>0, <2>2, <2>4, ReadsAlone
<1>12. ASSUME NEW q \in Request, NEW src \in Source, NEW drafts \in Together,
              NEW d \in Day, HookRead(q, src, drafts, d)
       PROVE  AloneFacts'
  <2>1. PICK lists : lists = [i \in DOMAIN drafts |-> Rounded(drafts[i])]
    OBVIOUS
  <2>2. PICK r : r = [op |-> "hook", source |-> src, prior |-> Prior(src),
                      rows |-> [i \in DOMAIN lists |-> PostingOf(TRUE, src, lists[i], d)]]
    OBVIOUS
  <2>3. Begin(q, r) /\ UNCHANGED <<acct, batch>>
    BY <1>12, <2>1, <2>2, Zenon DEF HookRead
  <2>4. StillSo(r)
    BY <2>2 DEF StillSo
  <2> QED BY <1>0, <2>3, <2>4, ReadsAlone
<1>9. ASSUME NEW q \in Request, NEW b \in BatchId, ReverseRead(q, b) PROVE AloneFacts'
  <2>1. PICK r : r = [op |-> "reverse", target |-> b, row |-> ReversalOf(b)]
    OBVIOUS
  <2>2. Begin(q, r) /\ UNCHANGED <<acct, batch>> /\ Reversible(b)
    BY <1>9, <2>1 DEF ReverseRead
  <2>3. r.op = "reverse" /\ r.target = b /\ r.row.lines = Mirror(batch[b].lines)
    BY <2>1 DEF ReversalOf
  <2>4. StillSo(r)
    BY <2>2, <2>3, MirrorMirrors DEF StillSo
  <2> QED BY <1>0, <2>2, <2>4, ReadsAlone
<1>10. ASSUME NEW q \in Request,
              DeleteAccountCommit(q) \/ PostCommit(q) \/ HookCommit(q) \/ ReverseCommit(q)
       PROVE  AloneFacts'
  <2>1. Undone'
    BY <1>10, DeleteAlone, PostAlone, HookAlone, ReverseAlone
  <2>2. req[q] # Idle /\ Finish(q)
    BY <1>10 DEF DeleteAccountCommit, PostCommit, HookCommit, ReverseCommit, Idle
  <2> QED BY <1>f, <2>1, <2>2
<1>11. ASSUME NEW q \in Request, CreatePeriodCommit(q) \/ Abort(q) PROVE AloneFacts'
  <2>1. req[q] # Idle /\ Finish(q) /\ UNCHANGED batch
    BY <1>11 DEF CreatePeriodCommit, Abort, Idle
  <2> QED BY <1>f, <1>u, <2>1
<1> QED BY <1>1, <1>2, <1>3, <1>4, <1>5, <1>6, <1>7, <1>8, <1>9, <1>10, <1>11, <1>12 DEF Next

Alone == alone => AloneFacts

LEMMA MCSafe == MCSpec => [](Inv /\ Alone)
<1>1. MCSpec => []Inv
  <2>1. MCInit => Init
    BY DEF MCInit
  <2>2. [MCNext]_mcvars => [Next]_vars
    BY DEF MCNext, mcvars
  <2> QED BY <2>1, <2>2, Safe, PTL DEF MCSpec, Spec
<1>2. MCInit => Alone
  BY DEF MCInit, Init, Alone, AloneFacts, Sole, Undone, StillSo, Idle
<1>3. Alone /\ Inv /\ Inv' /\ [MCNext]_mcvars => Alone'
  <2> SUFFICES ASSUME Alone, Inv, Inv', [MCNext]_mcvars, alone'
               PROVE  AloneFacts'
    BY DEF Alone
  <2>1. CASE MCNext
    <3>1. DOMAIN req' = Request
      BY DEF Inv, TypeOK
    <3>2. alone /\ Sole' /\ (req' # req \/ \A q \in Request : req[q] = Idle)
      BY <2>1, <3>1, StepsAlone
    <3> QED BY <2>1, <3>2, NextAlone DEF Alone, MCNext
  <2>2. CASE UNCHANGED mcvars
    <3>1. AloneFacts /\ UNCHANGED <<acct, batch, req>>
      BY <2>2 DEF mcvars, vars, Alone
    <3>2. Sole' /\ Undone'
      BY <3>1 DEF AloneFacts, Sole, Undone
    <3>3. \A q \in Request : StillSo(req[q])'
      BY <3>1 DEF AloneFacts, StillSo, StaysNonNegative, EffectOfAll, Natural, Balance, Reversible
    <3> QED BY <3>2, <3>3 DEF AloneFacts
  <2> QED BY <2>1, <2>2
<1> QED BY <1>1, <1>2, <1>3, PTL DEF MCSpec

-----------------------------------------------------------------------------
(* Reversals cancel.                                                       *)

LEMMA EffectInt ==
  ASSUME NEW lines, IsFiniteSet(DOMAIN lines), \A i \in DOMAIN lines : lines[i] \in Line, NEW a
  PROVE  Effect(lines, a) \in Int
<1>1. PICK f : f = [i \in DOMAIN lines |-> lines[i].debit - lines[i].credit]
  OBVIOUS
<1>2. PICK S : S = {i \in DOMAIN lines : lines[i].account = a}
  OBVIOUS
<1>3. IsFiniteSet(S)
  BY <1>2, FS_Subset
<1>4. Integral(f, S)
  BY <1>1, <1>2 DEF Integral, Line
<1>5. SumFunctionOnSet(f, S) \in Int
  BY <1>3, <1>4, SumRemoves
<1> QED BY <1>1, <1>2, <1>5 DEF Effect

\* Mirrored entries have the opposite effect on every account.
LEMMA MirrorEffect ==
  ASSUME NEW l, IsFiniteSet(DOMAIN l), \A i \in DOMAIN l : l[i] \in Line,
         NEW m, Mirrors(m, l), NEW a
  PROVE  Effect(m, a) = -Effect(l, a)
<1>1. PICK f : f = [i \in DOMAIN l |-> l[i].debit - l[i].credit]
  OBVIOUS
<1>2. PICK g : g = [i \in DOMAIN m |-> m[i].debit - m[i].credit]
  OBVIOUS
<1>3. PICK S : S = {i \in DOMAIN l : l[i].account = a}
  OBVIOUS
<1>4. S = {i \in DOMAIN m : m[i].account = a}
  BY <1>3 DEF Mirrors
<1>5. IsFiniteSet(S) /\ S \subseteq DOMAIN l
  BY <1>3, FS_Subset
<1>6. Integral(f, S)
  BY <1>1, <1>5 DEF Integral, Line
<1>7. \A i \in S : g[i] = -f[i]
  <2> SUFFICES ASSUME NEW i \in S PROVE g[i] = -f[i]
    OBVIOUS
  <2>1. /\ i \in DOMAIN l /\ i \in DOMAIN m /\ m[i].debit = l[i].credit
        /\ m[i].credit = l[i].debit
    BY <1>5 DEF Mirrors
  <2>2. l[i].debit \in Int /\ l[i].credit \in Int
    BY <2>1 DEF Line
  <2>3. f[i] = l[i].debit - l[i].credit /\ g[i] = l[i].credit - l[i].debit
    BY <1>1, <1>2, <2>1
  <2> QED BY <2>2, <2>3
<1>8. SumFunctionOnSet(g, S) = -SumFunctionOnSet(f, S)
  BY <1>5, <1>6, <1>7, SumNegates
<1>9. Effect(l, a) = SumFunctionOnSet(f, S)
  BY <1>1, <1>3 DEF Effect
<1>10. Effect(m, a) = SumFunctionOnSet(g, S)
  BY <1>2, <1>4 DEF Effect
<1> QED BY <1>8, <1>9, <1>10

LEMMA UndoneCancels ==
  ASSUME Inv, Undone
  PROVE  ReversalCancels
<1> SUFFICES ASSUME NEW b \in DOMAIN batch, batch[b].status = "REVERSED", NEW a \in Account,
                    NEW reversals, reversals = {c \in DOMAIN batch : batch[c].reverses = b}
             PROVE  Effect(batch[b].lines, a)
                      + SumFunctionOnSet([c \in reversals |-> Effect(batch[c].lines, a)],
                                         reversals) = 0
  BY DEF ReversalCancels
<1>1. b # None
  BY ConstantsOK DEF Inv, TypeOK
<1>2. PICK c \in DOMAIN batch : c = batch[b].reversedBy /\ batch[c].reverses = b
  BY DEF Inv, ReversalLinks
<1>3. reversals = {c}
  BY <1>1, <1>2 DEF Undone
<1>4. PICK g : g = [x \in reversals |-> Effect(batch[x].lines, a)]
  OBVIOUS
<1>5. Effect(batch[c].lines, a) = -Effect(batch[b].lines, a)
  <2>1. Mirrors(batch[c].lines, batch[b].lines)
    BY <1>1, <1>2 DEF Undone
  <2>2. IsFiniteSet(DOMAIN batch[b].lines)
        /\ \A i \in DOMAIN batch[b].lines : batch[b].lines[i] \in Line
    BY DEF Inv, TypeOK, BatchRow
  <2> QED BY <2>1, <2>2, MirrorEffect
<1>6. Effect(batch[b].lines, a) \in Int
  BY EffectInt DEF Inv, TypeOK, BatchRow
<1>7. g[c] = Effect(batch[c].lines, a)
  BY <1>3, <1>4
<1>8. SumFunctionOnSet(g, {c}) = g[c] + 0
  BY SumSingle
<1>9. Effect(batch[b].lines, a) + (g[c] + 0) = 0
  BY <1>5, <1>6, <1>7
<1> QED BY <1>3, <1>4, <1>8, <1>9

\* One request at a time, a reversal cancels its original on every account, whatever was
\* posted, retracted, reversed again or deleted (reverseBatch, retractPriorForSource).
THEOREM ReversalsCancel == MCSpec => []ReversalCancelsAlone
<1>1. Inv /\ Alone => ReversalCancelsAlone
  BY UndoneCancels DEF Alone, AloneFacts, ReversalCancelsAlone
<1> QED BY <1>1, MCSafe, PTL

-----------------------------------------------------------------------------
(* Restricted accounts.                                                    *)

LEMMA BalanceInt ==
  ASSUME TypeOK, NEW a
  PROVE  Balance(a) \in Int
<1>1. PICK f : f = [b \in DOMAIN batch |-> Effect(batch[b].lines, a)]
  OBVIOUS
<1>2. PICK D : D = DOMAIN batch
  OBVIOUS
<1>3. IsFiniteSet(D)
  BY <1>2, ConstantsOK, FS_Subset DEF TypeOK
<1>4. Integral(f, D)
  BY <1>1, <1>2, EffectInt DEF Integral, TypeOK, BatchRow
<1>5. SumFunctionOnSet(f, D) \in Int
  BY <1>3, <1>4, SumRemoves
<1> QED BY <1>1, <1>2, <1>5 DEF Balance

\* A batch of one posting moves the balance of an account by what its entries add.
LEMMA BalanceAdds ==
  ASSUME TypeOK, TypeOK', NEW n, n \notin DOMAIN batch, DOMAIN batch' = DOMAIN batch \cup {n},
         \A b \in DOMAIN batch : batch'[b].lines = batch[b].lines, NEW a
  PROVE  Balance(a)' = Balance(a) + Effect(batch'[n].lines, a)
<1>1. PICK f : f = [b \in DOMAIN batch |-> Effect(batch[b].lines, a)]
  OBVIOUS
<1>2. PICK g : g = [b \in DOMAIN batch' |-> Effect(batch'[b].lines, a)]
  OBVIOUS
<1>3. PICK D : D = DOMAIN batch
  OBVIOUS
<1>4. IsFiniteSet(D)
  BY <1>3, ConstantsOK, FS_Subset DEF TypeOK
<1>5. Integral(f, D)
  BY <1>1, <1>3, EffectInt DEF Integral, TypeOK, BatchRow
<1>6. \A b \in D : g[b] = f[b]
  BY <1>1, <1>2, <1>3
<1>7. g[n] = Effect(batch'[n].lines, a) /\ g[n] \in Int
  <2>1. BatchRow(batch'[n]) /\ g[n] = Effect(batch'[n].lines, a)
    BY <1>2 DEF TypeOK
  <2> QED BY <2>1, EffectInt DEF BatchRow
<1>8. Integral(g, D \cup {n})
  BY <1>5, <1>6, <1>7 DEF Integral
<1>9. SumFunctionOnSet(g, D \cup {n}) = g[n] + SumFunctionOnSet(g, D)
  BY <1>3, <1>4, <1>8, SumAdds
<1>10. SumFunctionOnSet(g, D) = SumFunctionOnSet(f, D)
  BY <1>4, <1>6, SumCongruent
<1>11. SumFunctionOnSet(f, D) \in Int
  BY <1>4, <1>5, SumRemoves
<1>12. Balance(a) = SumFunctionOnSet(f, D)
  BY <1>1, <1>3 DEF Balance
<1>13. Balance(a)' = SumFunctionOnSet(g, D \cup {n})
  BY <1>2, <1>3 DEF Balance
<1> QED BY <1>7, <1>9, <1>10, <1>11, <1>12, <1>13

LEMMA PostsCovered ==
  ASSUME Inv, TypeOK', AloneFacts, NEW q \in Request, PostCommit(q)
  PROVE  PostsAboveZero
<1>1. PICK fresh, rev, n : /\ Change(fresh, rev)
                           /\ DOMAIN fresh = {n} /\ fresh[n] = req[q].row
                           /\ ~fresh[n].byHook /\ fresh[n].reverses = None
                           /\ DOMAIN rev = {}
  BY PostChange DEF Inv
<1> SUFFICES ASSUME NEW b \in DOMAIN batch' \ DOMAIN batch,
                    NEW a \in AccountsOf(batch'[b].lines), acct[a].restricted
             PROVE  Natural(a, Balance(a)') >= 0
  BY DEF PostsAboveZero
<1>2. b = n /\ batch'[n] = req[q].row
  BY <1>1 DEF Change
<1>3. StaysNonNegative(<<>>, req[q].row.lines)
  BY DEF PostCommit, AloneFacts, StillSo
<1>4. /\ n \notin DOMAIN batch /\ DOMAIN batch' = DOMAIN batch \cup {n}
      /\ \A x \in DOMAIN batch : batch'[x].lines = batch[x].lines
  BY <1>1 DEF Change, Free
<1>5. Balance(a)' = Balance(a) + Effect(batch'[n].lines, a)
  BY <1>4, BalanceAdds DEF Inv
<1>6. EffectOfAll(<<>>, a) = 0
  <2>1. PICK f : f = [i \in DOMAIN <<>> |-> Effect(<<>>[i], a)]
    OBVIOUS
  <2>2. SumFunctionOnSet(f, {}) = 0
    BY SumEmpty
  <2>3. DOMAIN <<>> = {}
    OBVIOUS
  <2> QED BY <2>1, <2>2, <2>3 DEF EffectOfAll
<1>7. Natural(a, Balance(a) + EffectOfAll(<<>>, a) + Effect(batch'[n].lines, a)) >= 0
  BY <1>2, <1>3 DEF StaysNonNegative
<1>8. Balance(a) \in Int
  BY BalanceInt DEF Inv
<1>9. Balance(a) + EffectOfAll(<<>>, a) = Balance(a)
  BY <1>6, <1>8
<1> QED BY <1>5, <1>7, <1>9

\* One request at a time, no posting by hand takes an account that forbids it below zero on
\* its normal side (doPost's projected balances, for any chart and any drafts).
THEOREM PostsStayAboveZero == MCSpec => PostsAboveZeroAlone
<1>1. ASSUME Inv, Inv', Alone, [MCNext]_mcvars
      PROVE  [alone' => PostsAboveZero]_mcvars
  <2> SUFFICES ASSUME MCNext, alone' PROVE PostsAboveZero
    BY <1>1
  <2>0. TypeOK /\ TypeOK' /\ InFlightOK /\ AloneFacts
    BY <1>1 DEF Inv, Alone, MCNext
  <2>1. ASSUME DOMAIN batch' = DOMAIN batch PROVE PostsAboveZero
    BY <2>1 DEF PostsAboveZero
  <2>2. ASSUME NEW q \in Request, PostCommit(q) PROVE PostsAboveZero
    BY <1>1, <2>0, <2>2, PostsCovered
  <2>3. ASSUME NEW fresh, NEW rev, Change(fresh, rev),
               \A x \in DOMAIN fresh : fresh[x].byHook \/ fresh[x].reverses # None
        PROVE  PostsAboveZero
    BY <2>3 DEF PostsAboveZero, Change
  <2>n. None \notin DOMAIN batch
    BY <2>0, ConstantsOK DEF TypeOK
  <2>4. ASSUME NEW src \in Source, RetractSource(src) PROVE PostsAboveZero
    <3>1. PICK fresh, rev : /\ Change(fresh, rev)
                            /\ \A x \in DOMAIN fresh : fresh[x].reverses \in DOMAIN rev
      BY <2>0, <2>4, RetractChange
    <3>2. \A x \in DOMAIN fresh : fresh[x].reverses # None
      BY <2>n, <3>1 DEF Change
    <3> QED BY <2>3, <3>1, <3>2
  <2>5. ASSUME NEW q \in Request, ReverseCommit(q) PROVE PostsAboveZero
    <3>1. PICK fresh, rev : /\ Change(fresh, rev)
                            /\ \A x \in DOMAIN fresh : fresh[x] = req[q].row
                            /\ DOMAIN rev = {req[q].target}
      BY <2>0, <2>5, ReverseChange
    <3>2. \A x \in DOMAIN fresh : fresh[x].reverses = req[q].target
      BY <3>1 DEF Change
    <3>3. req[q].target # None
      BY <2>n, <3>1 DEF Change
    <3> QED BY <2>3, <3>1, <3>2, <3>3
  <2>6. ASSUME NEW q \in Request, HookCommit(q) PROVE PostsAboveZero
    <3>1. PICK fresh, rev : HookChanges(q, fresh, rev)
      BY <2>0, <2>6, HookChange
    <3>2. Change(fresh, rev)
      BY <3>1 DEF HookChanges
    <3>3. \A x \in DOMAIN fresh : fresh[x].byHook \/ fresh[x].reverses # None
      BY <2>n, <3>1, <3>2 DEF HookChanges, Change
    <3> QED BY <2>3, <3>2, <3>3
  <2>7. \/ DOMAIN batch' = DOMAIN batch
        \/ \E src \in Source : RetractSource(src)
        \/ \E q \in Request : PostCommit(q) \/ HookCommit(q) \/ ReverseCommit(q)
    BY DEF MCNext, Next, UpsertAccount, SetAccountActive, SetPeriodLock, Tick, DeleteAccountRead,
       DeleteAccountCommit, CreatePeriodRead, CreatePeriodCommit, PostRead, HookRead,
       ReverseRead, Abort
  <2> QED BY <2>1, <2>2, <2>4, <2>5, <2>6, <2>7
<1>2. Inv /\ Inv' /\ Alone /\ [MCNext]_mcvars => [alone' => PostsAboveZero]_mcvars
  BY <1>1
<1> QED BY <1>2, MCSafe, PTL DEF MCSpec, PostsAboveZeroAlone
=============================================================================
