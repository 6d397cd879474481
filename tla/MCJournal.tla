----------------------------- MODULE MCJournal -----------------------------
(* TLC instances of Journal: the line lists, the account forms, symmetry,   *)
(* and whether requests ever ran at the same time.                          *)
EXTENDS Journal, TLC

CONSTANTS cash, revenue, supplies

VARIABLE alone  \* no request has run while another was in flight

mcvars == <<vars, alone>>

InFlight == {q \in Request : req[q] # Idle}

MCInit == Init /\ alone = TRUE
MCNext ==
  /\ Next
  /\ alone' = (alone /\ (InFlight = {} \/ req' # req) /\ Cardinality(InFlight') <= 1)

MCSpec == MCInit /\ [][MCNext]_mcvars

Entry(a, dr, cr) == [account |-> a, debit |-> dr, credit |-> cr]

\* A sale of 2 cents, one whose amounts round (1.5 + 1.5 against 3), and a purchase.
Sale   == <<Entry(cash, 20, 0), Entry(revenue, 0, 20)>>
Split  == <<Entry(cash, 15, 0), Entry(cash, 15, 0), Entry(revenue, 0, 30)>>
Bought == <<Entry(supplies, 20, 0), Entry(cash, 0, 20)>>

SaleOnly  == {Sale}
AllDrafts == {Sale, Split, Bought}

\* What a hook posts: one batch, or a paid and a due part.
PaidAndDue == {<<Sale>>, <<Sale, Split>>, <<Bought>>}
NoHooks    == {}

\* Account forms: restricted on either normal side, or unrestricted.
Loose  == [active |-> TRUE, credit |-> FALSE, restricted |-> FALSE]
Strict == [active |-> TRUE, credit |-> FALSE, restricted |-> TRUE]
StrictCredit == [Strict EXCEPT !.credit = TRUE]
CreditOnly == {StrictCredit}
NoForm == {}
LooseOnly == {Loose}
LooseStrict == {Loose, Strict}

\* The properties of requests that run one by one.
ReversalCancelsAlone == alone => ReversalCancels
PostsAboveZeroAlone == [][alone' => PostsAboveZero]_mcvars

Touched == UNION {AccountsOf(batch[b].lines) : b \in DOMAIN batch}

\* Bound: the chart of the concurrent part, which nobody deletes from, no periods, and
\* sales dated the first day.
Sales ==
  /\ \A a \in Account : ~acct[a].restricted /\ (Exists(a) <=> a \in SystemAccount)
  /\ \A p \in PeriodId : period[p].status = "NONE"
  /\ \A q \in Request :
       /\ req[q].op \notin {"delete", "period"}
       /\ req[q].op = "post" =>
            /\ req[q].row.lines = Rounded(Sale) /\ req[q].row.date = 1
       /\ req[q].op = "hook" => req[q].rows[1].date = 1

\* Bound: the chart of the part where requests run one by one, and posts by hand under
\* no hook's source.
Purchases ==
  /\ \A a \in Account : Exists(a) => acct[a].restricted
  /\ Cardinality(DOMAIN batch) <= 3 /\ revenue \notin Touched
  /\ \A q \in Request :
       /\ req[q].op = "post" => /\ revenue \notin AccountsOf(req[q].row.lines)
                                /\ req[q].row.source \notin Source
       /\ req[q].op = "hook" => \A i \in DOMAIN req[q].rows :
            revenue \notin AccountsOf(req[q].rows[i].lines)

Scope == Sales \/ (alone /\ Purchases)

Symmetry == Permutations(BatchId) \cup Permutations(Request) \cup Permutations(PeriodId)
=============================================================================
