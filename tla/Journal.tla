------------------------------ MODULE Journal ------------------------------
(***************************************************************************)
(* The double-entry journal of one tenant:                                 *)
(* backend/src/modules/accounting/accounting.service.ts.                   *)
(*                                                                         *)
(* PostgreSQL runs every transaction of this code at READ COMMITTED (no    *)
(* isolation level is ever requested), so a handler that reads, decides    *)
(* and then writes is two steps here: the first takes what the handler     *)
(* read, the second is its commit.  Between them any other request may     *)
(* commit.  A request in flight is an element of req.                      *)
(*                                                                         *)
(* Names of accounts, their types and hierarchy, memos and batch numbers   *)
(* are left out.  An entry keeps its line number, so the entries of a      *)
(* batch are a function from line numbers.                                 *)
(***************************************************************************)
EXTENDS Integers, Sequences, FiniteSets, Functions

CONSTANTS
  Account,        \* account codes a tenant may use
  SystemAccount,  \* accounts with isSystem = true: never deleted
  Form,           \* the flags accounts may have when the system starts
  Edit,           \* the flags upsertAccount may be asked to save
  Source,         \* source records (an order, a deal, ...) that post by a hook
  OtherSource,    \* other sources a request by hand may name: MANUAL, or any text
  Draft,          \* the line lists a request may submit, amounts in tenths of cents
  Together,       \* the line lists a hook posts in one transaction: sequences of drafts
  PeriodId,       \* bound: the accounting periods that may be created
  MaxDay,         \* bound: the last day of the clock and of a posting date
  BatchId,        \* bound: the journal batches that may ever be written
  Request,        \* bound: the requests in flight at one time
  None            \* the null of a nullable column

ASSUME ConstantsOK ==
  /\ SystemAccount \subseteq Account
  /\ Form \cup Edit \subseteq [active : BOOLEAN, credit : BOOLEAN, restricted : BOOLEAN]
  /\ MaxDay \in Nat \ {0}
  /\ None \notin BatchId
  /\ IsFiniteSet(BatchId) /\ IsFiniteSet(Request)
  /\ ({"REVERSAL"} \cup OtherSource) \cap Source = {}
  /\ \A d \in Draft : d \in Seq([account : Account, debit : Int, credit : Int])
  /\ Together \subseteq Seq(Draft) \ {<<>>}

VARIABLES
  acct,     \* accounts: the row of each code
  period,   \* accounting_periods
  batch,    \* journal_batches with their journal_entries
  today,    \* the day "new Date()" returns
  req       \* requests between their reads and their commit

vars == <<acct, period, batch, today, req>>

Day == 1..MaxDay
Line == [account : Account, debit : Int, credit : Int]
\* restricted is allowNegative = false, credit is normalBalance = CREDIT.
AccountRow == [state : {"ABSENT", "ACTIVE", "INACTIVE"}, credit : BOOLEAN, restricted : BOOLEAN]
PeriodRow == [status : {"NONE", "OPEN", "LOCKED"}, start : Day, end : Day]

AbsentAccount == [state |-> "ABSENT", credit |-> FALSE, restricted |-> FALSE]
AccountWith(form) ==
  [state |-> IF form.active THEN "ACTIVE" ELSE "INACTIVE",
   credit |-> form.credit, restricted |-> form.restricted]

Exists(a) == acct[a].state # "ABSENT"

-----------------------------------------------------------------------------
(* Entries and totals.                                                     *)

\* Math.round(n * 100) / 100 on an amount given in tenths of a cent.
RoundToCents(n) == (n + 5) \div 10

Rounded(draft) ==
  [i \in DOMAIN draft |-> [account |-> draft[i].account,
                           debit   |-> RoundToCents(draft[i].debit),
                           credit  |-> RoundToCents(draft[i].credit)]]

\* normalizeLines: at least two lines, each either a debit or a credit.
NormalizedLines(lines) ==
  /\ Cardinality(DOMAIN lines) >= 2
  /\ \A i \in DOMAIN lines :
       /\ lines[i].debit >= 0 /\ lines[i].credit >= 0
       /\ (lines[i].debit > 0) # (lines[i].credit > 0)

TotalDebit(lines)  == SumFunctionOnSet([i \in DOMAIN lines |-> lines[i].debit], DOMAIN lines)
TotalCredit(lines) == SumFunctionOnSet([i \in DOMAIN lines |-> lines[i].credit], DOMAIN lines)

AccountsOf(lines) == {lines[i].account : i \in DOMAIN lines}

\* The entries of a reversal: debit and credit of every entry exchanged.
Mirror(lines) ==
  [i \in DOMAIN lines |-> [account |-> lines[i].account,
                           debit   |-> lines[i].credit,
                           credit  |-> lines[i].debit]]

\* What is left of the entries once the account's row is gone (ON DELETE CASCADE).
WithoutAccount(lines, a) == Restrict(lines, {i \in DOMAIN lines : lines[i].account # a})

\* What the entries add to an account, debit minus credit.
Effect(lines, a) ==
  SumFunctionOnSet([i \in DOMAIN lines |-> lines[i].debit - lines[i].credit],
                   {i \in DOMAIN lines : lines[i].account = a})

\* Debit minus credit over every committed entry of an account.
Balance(a) ==
  SumFunctionOnSet([b \in DOMAIN batch |-> Effect(batch[b].lines, a)], DOMAIN batch)

\* A balance on the side the account normally has.
Natural(a, amount) == IF acct[a].credit THEN -amount ELSE amount

\* assertPeriodOpen finds no LOCKED period around the date.
PeriodOpen(d) ==
  \A p \in PeriodId : period[p].status = "LOCKED" => d \notin period[p].start..period[p].end

-----------------------------------------------------------------------------
(* Rows a transaction inserts into journal_batches.                        *)

\* byHook is history: no column says that a hook posted a batch, and no code asks.
PostingOf(byHook, src, lines, d) ==
  [byHook |-> byHook, status |-> "POSTED", source |-> src, date |-> d, lines |-> lines,
   debit |-> TotalDebit(lines), credit |-> TotalCredit(lines),
   reverses |-> None, reversedBy |-> None]

\* Faulty variant: the reversal is dated a day ahead.
FaultyReversalOf(b) ==
  [byHook |-> FALSE, status |-> "POSTED", source |-> "REVERSAL", date |-> today + 1,
   lines |-> Mirror(batch[b].lines), debit |-> batch[b].credit,
   credit |-> batch[b].debit, reverses |-> b, reversedBy |-> None]

\* A reversal is dated today and takes its totals from the original, exchanged.
ReversalOf(b) ==
  [byHook |-> FALSE, status |-> "POSTED", source |-> "REVERSAL", date |-> today,
   lines |-> Mirror(batch[b].lines), debit |-> batch[b].credit,
   credit |-> batch[b].debit, reverses |-> b, reversedBy |-> None]

BatchRow(row) ==
  /\ DOMAIN row = {"byHook", "status", "source", "date", "lines", "debit", "credit",
                   "reverses", "reversedBy"}
  /\ row.byHook \in BOOLEAN
  /\ row.status \in {"POSTED", "REVERSED"}
  /\ row.source \in Source \cup OtherSource \cup {"REVERSAL"}
  /\ row.date \in Day
  /\ IsFiniteSet(DOMAIN row.lines)
  /\ \A i \in DOMAIN row.lines : row.lines[i] \in Line
  /\ row.reverses \in BatchId \cup {None}
  /\ row.reversedBy \in BatchId \cup {None}

\* Faulty variant: a batch that was reversed may be reversed again.
FaultyReversible(b) == batch[b].status \in {"POSTED", "REVERSED"}

Reversible(b) == batch[b].status = "POSTED" /\ batch[b].reversedBy = None

\* What retractPriorForSource finds: every POSTED batch of the source.
Prior(src) == {b \in DOMAIN batch : batch[b].source = src /\ batch[b].status = "POSTED"}

\* Faulty variants: the original does not name its reversal; it is deleted.
FaultyWriteUnlinked(fresh, rev) ==
  batch' = [b \in DOMAIN batch \cup DOMAIN fresh |->
              IF b \in DOMAIN fresh THEN fresh[b]
              ELSE IF b \in DOMAIN rev THEN [batch[b] EXCEPT !.status = "REVERSED"]
                   ELSE batch[b]]
FaultyWriteDeletes(fresh, rev) ==
  batch' = [b \in (DOMAIN batch \ DOMAIN rev) \cup DOMAIN fresh |->
              IF b \in DOMAIN fresh THEN fresh[b] ELSE batch[b]]

\* Insert the rows of fresh, and mark each original of rev as reversed by rev[b].
Write(fresh, rev) ==
  batch' = [b \in DOMAIN batch \cup DOMAIN fresh |->
              IF b \in DOMAIN fresh THEN fresh[b]
              ELSE IF b \in DOMAIN rev
                   THEN [batch[b] EXCEPT !.status = "REVERSED", !.reversedBy = rev[b]]
                   ELSE batch[b]]

Free == BatchId \ DOMAIN batch

\* reverseBatchWithinTx on each batch of a set, which ignores those reversed meanwhile:
\* the new id each reversal gets.
ReversibleOf(originals) == {b \in originals : Reversible(b)}

ReversalIds(originals, ids) == Injection(ReversibleOf(originals), ids)

ReversalRows(rev) ==
  [n \in Range(rev) |-> ReversalOf(CHOOSE b \in DOMAIN rev : rev[b] = n)]

-----------------------------------------------------------------------------
(* Requests in flight.                                                     *)

Idle == [op |-> "idle"]

RequestOK(r) ==
  \/ r = Idle
  \/ r.op = "post" /\ BatchRow(r.row)
  \/ /\ r.op = "hook" /\ r.source \in Source /\ r.prior \subseteq DOMAIN batch
     /\ \A i \in DOMAIN r.rows : BatchRow(r.rows[i])
  \/ r.op = "reverse" /\ r.target \in DOMAIN batch /\ BatchRow(r.row)
  \/ r.op = "period" /\ r.id \in PeriodId /\ r.row \in PeriodRow
  \/ r.op = "delete" /\ r.account \in Account

TypeOK ==
  /\ acct \in [Account -> AccountRow]
  /\ period \in [PeriodId -> PeriodRow]
  /\ DOMAIN batch \subseteq BatchId
  /\ \A b \in DOMAIN batch : BatchRow(batch[b])
  /\ today \in Day
  /\ DOMAIN req = Request
  /\ \A q \in Request : RequestOK(req[q])

Begin(q, r) == req[q] = Idle /\ req' = [req EXCEPT ![q] = r]
\* A handler of one step needs a slot too: with one Request, handlers run one by one.
Slot == (\E q \in Request : req[q] = Idle) /\ UNCHANGED req
Finish(q) == req' = [req EXCEPT ![q] = Idle]

Init ==
  /\ acct \in [Account -> {AbsentAccount} \cup {AccountWith(f) : f \in Form}]
  /\ \A a \in SystemAccount : Exists(a)
  /\ period = [p \in PeriodId |-> [status |-> "NONE", start |-> 1, end |-> 1]]
  /\ batch = [b \in {} |-> None]
  /\ today = 1
  /\ req = [q \in Request |-> Idle]

-----------------------------------------------------------------------------
(* Chart of accounts and periods.                                          *)

\* upsertAccount: update the row of the code, or create it.
UpsertAccount(a, form) ==
  /\ Slot
  /\ acct' = [acct EXCEPT ![a] = AccountWith(form)]
  /\ UNCHANGED <<period, batch, today>>

\* setAccountActive writes the flag of an account that exists.
SetAccountActive(a, active) ==
  /\ Slot /\ Exists(a)
  /\ acct' = [acct EXCEPT ![a].state = IF active THEN "ACTIVE" ELSE "INACTIVE"]
  /\ UNCHANGED <<period, batch, today>>

\* deleteAccount counts the entries of the account ...
DeleteAccountRead(q, a) ==
  /\ Exists(a) /\ a \notin SystemAccount
  /\ \A b \in DOMAIN batch : a \notin AccountsOf(batch[b].lines)
  /\ Begin(q, [op |-> "delete", account |-> a])
  /\ UNCHANGED <<acct, period, batch, today>>

\* ... and then deletes its row, with whatever entries it has by now.
DeleteAccountCommit(q) ==
  /\ req[q].op = "delete"
  /\ Exists(req[q].account)
  /\ acct' = [acct EXCEPT ![req[q].account] = AbsentAccount]
  /\ batch' = [b \in DOMAIN batch |->
                 [batch[b] EXCEPT !.lines = WithoutAccount(@, req[q].account)]]
  /\ Finish(q)
  /\ UNCHANGED <<period, today>>

\* createPeriod looks for an overlapping period, then inserts.
CreatePeriodRead(q, p, first, last) ==
  /\ period[p].status = "NONE"
  /\ \A r \in Request : req[r].op = "period" => req[r].id # p
  /\ first <= last
  /\ \A o \in PeriodId : period[o].status # "NONE" =>
       ~(period[o].start <= last /\ period[o].end >= first)
  /\ Begin(q, [op |-> "period", id |-> p,
               row |-> [status |-> "OPEN", start |-> first, end |-> last]])
  /\ UNCHANGED <<acct, period, batch, today>>

CreatePeriodCommit(q) ==
  /\ req[q].op = "period"
  /\ period' = [period EXCEPT ![req[q].id] = req[q].row]
  /\ Finish(q)
  /\ UNCHANGED <<acct, batch, today>>

\* setPeriodLock, to lock or to unlock.
SetPeriodLock(p, locked) ==
  /\ Slot /\ period[p].status # "NONE"
  /\ period' = [period EXCEPT ![p].status = IF locked THEN "LOCKED" ELSE "OPEN"]
  /\ UNCHANGED <<acct, batch, today>>

-----------------------------------------------------------------------------
(* Posting and reversing.                                                  *)

ActiveAccounts(lines) == \A a \in AccountsOf(lines) : acct[a].state = "ACTIVE"

\* What line lists posted earlier in the same transaction add to an account.
EffectOfAll(lists, a) ==
  SumFunctionOnSet([i \in DOMAIN lists |-> Effect(lists[i], a)], DOMAIN lists)

StaysNonNegative(earlier, lines) ==
  \A a \in AccountsOf(lines) : acct[a].restricted =>
    Natural(a, Balance(a) + EffectOfAll(earlier, a) + Effect(lines, a)) >= 0

\* Faulty variants: the totals are not compared; projected balances are not checked.
FaultyPostableUnbalanced(earlier, lines, d) ==
  /\ PeriodOpen(d) /\ NormalizedLines(lines) /\ ActiveAccounts(lines)
  /\ StaysNonNegative(earlier, lines)
FaultyPostableNegative(earlier, lines, d) ==
  /\ PeriodOpen(d) /\ NormalizedLines(lines)
  /\ TotalDebit(lines) = TotalCredit(lines)
  /\ ActiveAccounts(lines)

\* Everything doPost validates before its first insert.
Postable(earlier, lines, d) ==
  /\ PeriodOpen(d)
  /\ NormalizedLines(lines)
  /\ TotalDebit(lines) = TotalCredit(lines)
  /\ TotalDebit(lines) # 0
  /\ ActiveAccounts(lines)
  /\ StaysNonNegative(earlier, lines)

\* A posting by hand may name any source in its request, a hook's included, and locks
\* no row of it; the cashbook posts in the same way.
HandSource == Source \cup OtherSource

\* postJournalBatch without a hook.
PostRead(q, src, draft, d) ==
  /\ Begin(q, [op |-> "post", row |-> PostingOf(FALSE, src, Rounded(draft), d)])
  /\ Postable(<<>>, Rounded(draft), d)
  /\ UNCHANGED <<acct, period, batch, today>>

PostCommit(q) ==
  /\ req[q].op = "post"
  /\ \A a \in AccountsOf(req[q].row.lines) : Exists(a)
  /\ \E n \in Free : Write([b \in {n} |-> req[q].row], <<>>)
  /\ Finish(q)
  /\ UNCHANGED <<acct, period, today>>

\* Faulty variant: the transaction of a hook does not lock its source.
FaultySourceUnlocked(src) == src \in Source

\* A hook runs in a transaction that has already written the row of its source,
\* and holds its lock until it ends.
SourceUnlocked(src) ==
  \A r \in Request : req[r].op = "hook" => req[r].source # src

\* A hook validates what it posts, one batch after the other (a sale and a deal post a
\* paid and a due part), and lists what its source had posted before.
HookRead(q, src, drafts, d) ==
  LET lists == [i \in DOMAIN drafts |-> Rounded(drafts[i])] IN
  /\ SourceUnlocked(src)
  /\ Begin(q, [op |-> "hook", source |-> src, prior |-> Prior(src),
               rows |-> [i \in DOMAIN lists |-> PostingOf(TRUE, src, lists[i], d)]])
  /\ \A i \in DOMAIN lists : Postable(SubSeq(lists, 1, i - 1), lists[i], d)
  /\ UNCHANGED <<acct, period, batch, today>>

\* The rows of a hook, the i-th under id new[i], and the reversals of what it supersedes.
HookRows(q, new, rev) ==
  [b \in Range(new) \cup Range(rev) |->
     IF b \in Range(new) THEN req[q].rows[CHOOSE i \in DOMAIN new : new[i] = b]
     ELSE ReversalRows(rev)[b]]

\* It inserts its batches, and reverses those on its list (retractPriorForSource with
\* the new ones excepted).
HookCommit(q) ==
  /\ req[q].op = "hook"
  /\ \A i \in DOMAIN req[q].rows : \A a \in AccountsOf(req[q].rows[i].lines) : Exists(a)
  /\ \E new \in Injection(DOMAIN req[q].rows, Free) :
       \E rev \in ReversalIds(req[q].prior, Free \ Range(new)) :
         Write(HookRows(q, new, rev), rev)
  /\ Finish(q)
  /\ UNCHANGED <<acct, period, today>>

\* The hook that removes a source (a deleted order, an unpaid invoice).
RetractSource(src) ==
  /\ Slot /\ SourceUnlocked(src)
  /\ Prior(src) # {}
  /\ \E rev \in ReversalIds(Prior(src), Free) : Write(ReversalRows(rev), rev)
  /\ UNCHANGED <<acct, period, today>>

\* reverseBatch checks the original and copies its entries ...
ReverseRead(q, b) ==
  /\ b \in DOMAIN batch
  /\ Reversible(b)
  /\ Begin(q, [op |-> "reverse", target |-> b, row |-> ReversalOf(b)])
  /\ UNCHANGED <<acct, period, batch, today>>

\* ... then inserts the reversal and updates the original by its id.
ReverseCommit(q) ==
  /\ req[q].op = "reverse"
  /\ \A a \in AccountsOf(req[q].row.lines) : Exists(a)
  /\ \E n \in Free :
       Write([b \in {n} |-> req[q].row], [b \in {req[q].target} |-> n])
  /\ Finish(q)
  /\ UNCHANGED <<acct, period, today>>

\* A transaction may roll back at any time: the account of an entry is gone (foreign
\* key), the row to delete is gone, the database refuses or times out.
Abort(q) ==
  /\ req[q] # Idle
  /\ Finish(q)
  /\ UNCHANGED <<acct, period, batch, today>>

\* Midnight.
Tick ==
  /\ today < MaxDay
  /\ today' = today + 1
  /\ UNCHANGED <<acct, period, batch, req>>

Next ==
  \/ \E a \in Account, form \in Edit : UpsertAccount(a, form)
  \/ \E a \in Account, active \in BOOLEAN : SetAccountActive(a, active)
  \/ \E p \in PeriodId, locked \in BOOLEAN : SetPeriodLock(p, locked)
  \/ \E src \in Source : RetractSource(src)
  \/ Tick
  \/ \E q \in Request :
       \/ \E a \in Account : DeleteAccountRead(q, a)
       \/ DeleteAccountCommit(q)
       \/ \E p \in PeriodId, first, last \in Day : CreatePeriodRead(q, p, first, last)
       \/ CreatePeriodCommit(q)
       \/ \E src \in HandSource, draft \in Draft, d \in Day : PostRead(q, src, draft, d)
       \/ PostCommit(q)
       \/ \E src \in Source, drafts \in Together, d \in Day : HookRead(q, src, drafts, d)
       \/ HookCommit(q)
       \/ \E b \in BatchId : ReverseRead(q, b)
       \/ ReverseCommit(q)
       \/ Abort(q)

Spec == Init /\ [][Next]_vars

-----------------------------------------------------------------------------
(* Properties.                                                             *)

\* Every batch keeps balancing entry by entry: its debits equal its credits and the
\* totals stored on it, reversals included, and a line is one-sided (doPost compares
\* totals of individually rounded lines; the reversal copies entries and totals
\* separately).  A deletion of an account, between other requests, may take entries away.
EntriesBalanced ==
  \A b \in DOMAIN batch :
    /\ TotalDebit(batch[b].lines) = TotalCredit(batch[b].lines)
    /\ TotalDebit(batch[b].lines) = batch[b].debit
    /\ batch[b].debit = batch[b].credit /\ batch[b].debit > 0
    /\ NormalizedLines(batch[b].lines)

\* Both sides of a reversal stay linked under every interleaving: a batch is REVERSED
\* exactly when it names a reversal, that reversal names it back, and whatever a
\* batch claims to reverse is REVERSED ("linking both sides", reverseBatch).
ReversalLinks ==
  \A b \in DOMAIN batch :
    /\ (batch[b].status = "REVERSED") <=> (batch[b].reversedBy # None)
    /\ batch[b].reversedBy # None =>
         /\ batch[b].reversedBy \in DOMAIN batch
         /\ batch[batch[b].reversedBy].reverses = b
    /\ batch[b].reverses # None =>
         /\ batch[b].source = "REVERSAL"
         /\ batch[b].reverses \in DOMAIN batch
         /\ batch[batch[b].reverses].status = "REVERSED"

\* What a request in flight may rely on when it commits.  A hook's list of prior
\* batches misses no counting batch that a hook of its source posted, since no other hook
\* of that source is in flight; a batch posted by hand under the name of the source it may
\* miss.  A reversal still finds its original.
InFlightOK ==
  \A q \in Request :
    /\ req[q].op = "post" =>
         /\ req[q].row.status = "POSTED" /\ ~req[q].row.byHook
         /\ req[q].row.reverses = None /\ req[q].row.reversedBy = None
    /\ req[q].op = "hook" =>
         /\ DOMAIN req[q].rows # {}
         /\ \A i \in DOMAIN req[q].rows :
              /\ req[q].rows[i].status = "POSTED" /\ req[q].rows[i].source = req[q].source
              /\ req[q].rows[i].reverses = None /\ req[q].rows[i].reversedBy = None
              /\ req[q].rows[i].byHook
         /\ \A b \in Prior(req[q].source) : batch[b].byHook => b \in req[q].prior
         /\ \A b \in req[q].prior : batch[b].source = req[q].source
         /\ \A r \in Request \ {q} : req[r].op = "hook" => req[r].source # req[q].source
    /\ req[q].op = "reverse" =>
         /\ req[q].row.status = "POSTED" /\ req[q].row.source = "REVERSAL"
         /\ req[q].row.reverses = req[q].target /\ req[q].row.reversedBy = None
         /\ ~req[q].row.byHook

\* What the journal promises to the components that post to it: what their hook posts
\* for a source takes the place of all that hooks posted for it before, in one step, and
\* nothing that stopped counting counts again; a posting by hand may add to it.
Ledger == INSTANCE SourceLedger WITH
  counting <- [s \in Source |-> Prior(s)],
  hooked   <- {b \in DOMAIN batch : batch[b].byHook},
  used     <- DOMAIN batch

\* The journal implements that ledger (doPost, retractPriorForSource, reverseBatch).
ImplementsLedger == Ledger!Spec

\* The audit trail: no step removes a batch, changes its source, date, totals or what
\* it reverses, takes it back from REVERSED, or changes an entry; an entry goes only
\* with its account.
AuditTrail ==
  [][\A b \in DOMAIN batch :
       /\ b \in DOMAIN batch'
       /\ batch'[b].source = batch[b].source
       /\ batch'[b].date = batch[b].date
       /\ batch'[b].debit = batch[b].debit
       /\ batch'[b].credit = batch[b].credit
       /\ batch'[b].reverses = batch[b].reverses
       /\ batch[b].status = "REVERSED" => batch'[b].status = "REVERSED"
       /\ \A i \in DOMAIN batch[b].lines :
            \/ i \in DOMAIN batch'[b].lines /\ batch'[b].lines[i] = batch[b].lines[i]
            \/ acct'[batch[b].lines[i].account].state = "ABSENT"]_vars

\* A reversal cancels its original, account by account and whatever was reversed
\* again: "the original entries stay, the reversal cancels them".
ReversalCancels ==
  \A b \in DOMAIN batch : batch[b].status = "REVERSED" =>
    LET reversals == {c \in DOMAIN batch : batch[c].reverses = b} IN
    \A a \in Account :
      Effect(batch[b].lines, a)
        + SumFunctionOnSet([c \in reversals |-> Effect(batch[c].lines, a)], reversals) = 0

\* A step that posts by hand leaves no account that forbids it below zero on its normal
\* side ("allow_negative honoured").
PostsAboveZero ==
  \A b \in DOMAIN batch' \ DOMAIN batch :
    ~batch'[b].byHook /\ batch'[b].reverses = None =>
      \A a \in AccountsOf(batch'[b].lines) :
        acct[a].restricted => Natural(a, Balance(a)') >= 0

\* Nothing is posted inside a period while it is locked.
LockedPeriodClosed ==
  [][\A b \in DOMAIN batch' \ DOMAIN batch : PeriodOpen(batch'[b].date)]_vars
=============================================================================
