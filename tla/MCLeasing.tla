----------------------------- MODULE MCLeasing -----------------------------
(* TLC instances of Leasing: what deals ask for, and whether requests ever  *)
(* ran at the same time.                                                    *)
EXTENDS Leasing, TLC

VARIABLE alone  \* no request has run while another was in flight

mcvars == <<vars, alone>>

InFlight == {q \in Request : req[q] # Idle}

MCInit == Init /\ alone = TRUE
MCNext ==
  /\ Next
  /\ alone' = (alone /\ (InFlight = {} \/ req' # req) /\ Cardinality(InFlight') <= 1)

MCSpec == MCInit /\ [][MCNext]_mcvars

Sale(total, paid) == [type |-> "SALE", total |-> total, paid |-> paid]
Rental(total, paid) == [type |-> "RENTAL", total |-> total, paid |-> paid]

\* A form may keep the paid amount of the deal, so these two reach every payment status.
Forms == {Sale(2, 2), Rental(2, 0)}

\* The properties of requests that run one by one.
StatusMatchesAlone == alone => StatusMatches

\* Bound: requests run at the same time on leases only, one by one on up to three records.
Scope == (alone /\ Len(lease) + Len(deal) <= 3) \/ deal = <<>>

Symmetry == Permutations(Request) \cup Permutations(Property) \cup Permutations(Client)
=============================================================================
