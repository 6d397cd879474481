--------------------------- MODULE MCConstruction ---------------------------
(* TLC instances of Construction.                                           *)
EXTENDS Construction, TLC

Deltas == {-1, 2}

\* Bound: contracts and materials share nothing, so one of them is at work at a time.
Apart ==
  \/ \A m \in Material : material[m].row = "NONE"
  \/ \A c \in Contract : contract[c].row = "NONE"

Symmetry == Permutations(Request)
=============================================================================
