----------------------------- MODULE MCAccounts -----------------------------
(* TLC instances of Accounts: whether requests ever ran at the same time.   *)
EXTENDS Accounts, Naturals, TLC

VARIABLE alone  \* no request has run while another was in flight

mcvars == <<vars, alone>>

InFlight == {q \in Request : req[q] # Idle}

MCInit == Init /\ alone = TRUE
MCNext ==
  /\ Next
  /\ alone' = (alone /\ (InFlight = {} \/ req' # req) /\ Cardinality(InFlight') <= 1)

MCSpec == MCInit /\ [][MCNext]_mcvars

\* The properties of requests that run one by one.
AccessIsHeldAlone == alone => AccessIsHeld
FailuresUndoneAlone == alone => FailuresUndone

Symmetry ==
  Permutations(Request) \cup Permutations(Staff) \cup Permutations(AccountId) \cup Permutations(Email)
=============================================================================
