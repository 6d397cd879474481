----------------------------- MODULE MCPayroll -----------------------------
(* TLC instances of Payroll: item lists, approval limits, and whether       *)
(* requests ever ran at the same time.                                      *)
EXTENDS Payroll, Sequences, TLC

CONSTANTS owner, manager

VARIABLE alone  \* no request has run while another was in flight

mcvars == <<vars, alone>>

InFlight == {q \in Request : req[q] # Idle}

MCInit == Init /\ alone = TRUE
MCNext ==
  /\ Next
  /\ alone' = (alone /\ (InFlight = {} \/ req' # req) /\ Cardinality(InFlight') <= 1)

MCSpec == MCInit /\ [][MCNext]_mcvars

Item(base, deductions, tax) ==
  [base |-> base, bonuses |-> 0, deductions |-> deductions, tax |-> tax]

\* 1 cent; two employees, withholdings that round up; nothing left to pay out; nothing
\* earned.
Small == <<Item(10, 0, 0)>>
Large == <<Item(34, 6, 5), Item(20, 0, 0)>>
Zero  == <<Item(20, 10, 10)>>
Empty == <<Item(4, 0, 0)>>

SmallOnly  == {Small}
SmallLarge == {Small, Large}
AllSheets  == {Small, Large, Zero, Empty}

Limits    == (owner :> None) @@ (manager :> 2)
OwnerOnly == (owner :> None)

\* The properties of requests that run one by one.
ApprovalCoversTotalAlone == alone => ApprovalCoversTotal
PaidStaysAlone == [][alone' => PaidStays]_mcvars

\* Bound: requests run at the same time on runs before their approval, which edits and
\* moves are about.
Drafting ==
  \/ alone
  \/ /\ \A r \in RunId : Exists(r) =>
          /\ run[r].status \in {"DRAFT", "PENDING_APPROVAL", "REJECTED"}
          /\ run[r].gen <= 1 /\ run[r].totals = Totals(Small)
     /\ \A q \in Request :
          /\ req[q].op = "update" => req[q].sheet = Small
          /\ req[q].op = "transition" => req[q].user = owner
          /\ req[q].op \notin {"approve", "pay"}

Symmetry == Permutations(Request) \cup Permutations(RunId)
=============================================================================
