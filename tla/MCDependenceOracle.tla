------------------------- MODULE MCDependenceOracle -------------------------
(***************************************************************************)
(* Enumerates the inputs of compute_dependence_type: each state is one     *)
(* ordered pair of requirement accesses, req1 from the earlier operation.  *)
(***************************************************************************)
EXTENDS DependenceOracle

VARIABLES req1, req2

vars == <<req1, req2>>

Init == req1 \in Accesses /\ req2 \in Accesses

\* Another call of compute_dependence_type, on any pair.
Query == \E a, b \in Accesses : req1' = a /\ req2' = b

Next == Query

Spec == Init /\ [][Next]_vars

(***************************************************************************)
(* compute_dependence_type returns, for every pair of accesses, the type   *)
(* the design document's algebra gives, and never aborts on an assert.     *)
(***************************************************************************)
OracleMatchesSpec ==
  ComputeDependenceType(req1, req2) = SpecDependenceType(req1, req2)

=============================================================================
