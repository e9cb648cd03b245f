-------------------------- MODULE DependenceDiffSpec --------------------------
(***************************************************************************)
(* What the mapping-dependence diff of one context operation promises      *)
(* (design document, section 4.3), in one step: once the trace is loaded,  *)
(* it reports one ERROR for every required dependence between two child    *)
(* operations that no chain of claimed dependences enforces, and one       *)
(* WARNING for every claimed dependence that is not required, except those *)
(* whose consumer is a deletion.                                           *)
(*                                                                         *)
(* required is the set of required dependences; the detailed module       *)
(* computes it from the children's requirements with the dependence        *)
(* oracle.  Here it is any fixed set, so that this module states only the  *)
(* diff, not the oracle.                                                   *)
(***************************************************************************)
EXTENDS Naturals, FiniteSets

CONSTANTS
  Ops,              \* the context's child operations
  Kinds,            \* operation kinds
  Reqs,             \* requirement descriptors (or NoReq)
  ClaimTypes,       \* dependence types the runtime may claim
  DepTypes,         \* dependence types a required dependence may have
  CanClaim(_, _, _) \* CanClaim(kind, prev, next): a claim the trace may hold

VARIABLES kind, req, required, mdeps, phase, errors, warnings

vars == <<kind, req, required, mdeps, phase, errors, warnings>>

LOCAL G == INSTANCE Graphs

\* The claimed logical graph: an edge next -> prev per claimed dependence,
\* as add_mapping_dependence records it in next.logical_outgoing.
ClaimedGraph == [node |-> Ops, edge |-> {<<m.op2, m.op1>> : m \in mdeps}]

\* prev is reachable from next along claimed edges (in zero or more steps).
Enforced(next, prev) == G!ConnectionsIn(ClaimedGraph)[next, prev]

Init ==
  /\ kind \in [Ops -> Kinds]
  /\ req \in [Ops -> Reqs]
  /\ required \subseteq [op1 : Ops, op2 : Ops, dtype : DepTypes]
  /\ mdeps = {}
  /\ phase = "ingest"
  /\ errors = 0
  /\ warnings = 0

Claim(prev, next, dtype) ==
  /\ phase = "ingest"
  /\ CanClaim(kind, prev, next)
  /\ [op1 |-> prev, op2 |-> next, dtype |-> dtype] \notin mdeps
  /\ mdeps' = mdeps \cup {[op1 |-> prev, op2 |-> next, dtype |-> dtype]}
  /\ UNCHANGED <<kind, req, required, phase, errors, warnings>>

Diff ==
  /\ phase = "ingest"
  /\ phase' = "done"
  /\ errors' = Cardinality({d \in required : ~Enforced(d.op2, d.op1)})
  /\ warnings' = Cardinality({m \in mdeps : m \notin required
                                             /\ kind[m.op2] # "deletion"})
  /\ UNCHANGED <<kind, req, required, mdeps>>

Next ==
  \/ \E prev, next \in Ops, t \in ClaimTypes : Claim(prev, next, t)
  \/ Diff

Spec == Init /\ [][Next]_vars

=============================================================================
