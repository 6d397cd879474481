------------------------------- MODULE MCRent -------------------------------
(* TLC instances of Rent: rents and forms, and whether requests ever ran at *)
(* the same time.                                                           *)
EXTENDS Rent, TLC

VARIABLE alone  \* no request has run while another was in flight

mcvars == <<vars, alone>>

Rents == [c \in Contract |-> 1]

\* An edit may raise what is due and may keep what was paid; with changes of status, every
\* status is reached.
Forms == {[due |-> 2, paid |-> 1]}

BothOrNone == {{}, {"invoice", "receipt"}}

InFlight == {q \in Request : req[q] # Idle}

MCInit == Init /\ alone = TRUE
MCNext ==
  /\ Next
  /\ alone' = (alone /\ (InFlight = {} \/ req' # req) /\ Cardinality(InFlight') <= 1)

MCSpec == MCInit /\ [][MCNext]_mcvars

\* A payment's books and status, after requests that ran one by one.
SettledAlone == alone => Settled

Symmetry == Permutations(Request) \cup Permutations(PaymentId) \cup Permutations(Month)
=============================================================================
