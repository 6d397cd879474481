---------------------------- MODULE MCMaterials ----------------------------
(* TLC instance of Materials: opening stock, and whether requests ever ran  *)
(* at the same time.                                                        *)
EXTENDS Materials, TLC

CONSTANTS cement, sand

VARIABLE alone  \* no request has run while another was in flight

mcvars == <<vars, alone>>

OneEach == [m \in Material |-> 1]

InFlight == {q \in Request : req[q] # Idle}

MCInit == Init /\ alone = TRUE
MCNext ==
  /\ Next
  /\ alone' = (alone /\ (InFlight = {} \/ req' # req) /\ Cardinality(InFlight') <= 1)

MCSpec == MCInit /\ [][MCNext]_mcvars

\* The properties of requests that run one by one.
StockMatchesAlone == alone => StockMatchesDocuments
BalancesMatchAlone == alone => BalancesMatchDocuments

\* Bound: requests run at the same time on one order, one sale and one material; ORDERED and
\* CANCELLED are like DRAFT to every handler, so one of them is enough then.
Scope ==
  \/ alone
  \/ /\ Cardinality(DOMAIN order) <= 1
     /\ \A o \in DOMAIN order : order[o].material = cement /\ order[o].status \in {"DRAFT", "RECEIVED"}
     /\ \A s \in DOMAIN sale : sale[s].material = cement
     /\ \A q \in Request :
          /\ req[q].op \in OrderOps => req[q].to \in {"DRAFT", "RECEIVED"} /\ req[q].line.material = cement
          /\ req[q].op \in SaleOps => req[q].new.material = cement
     /\ {stock[m] : m \in Material} \cup {owed, due} \subseteq -1..2

Symmetry == Permutations(Request) \cup Permutations(OrderId)
=============================================================================
