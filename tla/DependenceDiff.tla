---------------------------- MODULE DependenceDiff ----------------------------
(***************************************************************************)
(* One context operation of Legion Spy (a SingleTask with child            *)
(* operations) and its mapping-dependence diff, tools/spy_analysis.py:     *)
(*                                                                         *)
(*  - ingestion of the runtime's claimed dependences                       *)
(*    (State.add_mapping_dependence, add_mdep, add_logical_outgoing);      *)
(*  - SingleTask.compute_dependence_diff: the all-pairs scan over the      *)
(*    child list in execution order (find_dependences,                     *)
(*    find_individual_dependences, State.compute_dependence), the          *)
(*    soundness loop that asks has_logical_path for every required         *)
(*    dependence and unmarks all children after each query, and the       *)
(*    tightness loop that warns about claimed dependences not required.    *)
(*                                                                         *)
(* has_logical_path is a recursive DFS over logical_outgoing that sets     *)
(* logical_marked on a node only once none of its successors reaches the   *)
(* target.  It is modelled one call at a time with an explicit stack of    *)
(* frames [node, successors not yet tried]; Python iterates a set in an    *)
(* order the model does not fix, so the next successor is any untried one. *)
(*                                                                         *)
(* The children are 1..N in execution order.  Each child has at most one   *)
(* requirement (index 0, so requirement indices are left out); fences and  *)
(* deletions have none, as in the code.  Task, index task, mapping, close, *)
(* copy, acquire and release behave alike here and are the kind "task".    *)
(***************************************************************************)
EXTENDS Naturals, Sequences, FiniteSets, Bags

CONSTANTS
  N,            \* number of child operations of the context
  Kinds,        \* subset of {"task", "fence", "deletion"}
  ReqChoices,   \* requirements [acc, node, fields] a task child may have
  NoReq,        \* the requirement of a fence or deletion
  ClaimTypes,   \* dependence types the runtime may claim
  Redops, NoRedop,
  TreeSpaces, TreeParts, TreeParent, TreeDepth, TreeDisjoint, NoNode,
  ClaimPairs,     \* <<prev, next>> pairs of children the trace may claim
  MaxClaimCopies, \* bound: how often one claim record may occur
  RecursionLimit  \* bound: frames has_logical_path may stack (Python's limit)

Ops == 1..N

Oracle == INSTANCE DependenceOracle

\* The fixed index tree the requirements name, with is_aliased over it.
Tree == INSTANCE RegionTree WITH
          SpaceIds <- TreeSpaces, PartIds <- TreeParts, TreeIds <- {},
          Points <- {}, FieldSpaceIds <- {}, FieldIds <- {}, None <- NoNode,
          ispaces <- TreeSpaces, iparts <- TreeParts, parent <- TreeParent,
          depth <- TreeDepth, disjoint <- TreeDisjoint,
          instances <- [n \in TreeSpaces \cup TreeParts |-> {}],
          regionTrees <- [t \in {} |-> NoNode],
          extent <- [n \in TreeSpaces \cup TreeParts |-> {}],
          fspaces <- {}, fields <- [f \in {} |-> {}],
          treeField <- [t \in {} |-> NoNode], named <- {}

ASSUME \A r1, r2 \in ReqChoices :
         Oracle!ComputeDependenceType(r1.acc, r2.acc) # Oracle!AssertFailed

VARIABLES
  kind,       \* kind of each child (get_op_kind)
  req,        \* its requirement (reqs[0]), NoReq for fence / deletion
  mdeps,      \* context.mdeps: the list of claimed dependences, as a bag
  outgoing,   \* op.logical_outgoing
  phase,      \* "ingest", then compute_dependence_diff: "sound", "done";
              \* "crashed" once an assert or the recursion limit aborts
  adeps,      \* context.adeps: required dependences, in scan order
  k,          \* the adep the soundness loop is at
  stack,      \* has_logical_path frames [node, untried successors]
  result,     \* answer of the current query: "none", "found", "notfound"
  marked,     \* ops with logical_marked set
  errors,     \* ERRORs reported
  warnings    \* WARNINGs reported

vars == <<kind, req, mdeps, outgoing, phase, adeps, k, stack, result,
          marked, errors, warnings>>

Dep(a, b, t) == [op1 |-> a, op2 |-> b, dtype |-> t]

\* State.compute_dependence: fields overlap, (one region tree), aliased
\* index nodes, then the privilege / coherence algebra.
ComputeDependence(r1, r2) ==
  IF r1.fields \cap r2.fields = {} THEN Oracle!NoDependence
  ELSE IF ~Tree!IsAliased(r1.node, r2.node) THEN Oracle!NoDependence
  ELSE Oracle!ComputeDependenceType(r1.acc, r2.acc)

\* Mutant: find_individual_dependences records every pair, even when
\* compute_dependence found no dependence.
PairDepsNoFilter(prev, idx) ==
  IF kind[prev] = "task" /\ kind[idx] = "task"
  THEN <<Dep(prev, idx, ComputeDependence(req[prev], req[idx]))>>
  ELSE <<>>

\* ops[prev].find_dependences(ops[idx]): only two children that both have
\* a requirement contribute; fences and deletions contribute nothing.
PairDeps(prev, idx) ==
  IF kind[prev] = "task" /\ kind[idx] = "task"
     /\ Oracle!IsMappingDependence(ComputeDependence(req[prev], req[idx]))
  THEN <<Dep(prev, idx, ComputeDependence(req[prev], req[idx]))>>
  ELSE <<>>

\* for idx in range(1, len(ops)): for prev in range(idx): ...
RECURSIVE ScanFrom(_, _)
ScanFrom(prev, idx) ==
  IF idx > N THEN <<>>
  ELSE IF prev >= idx THEN ScanFrom(1, idx + 1)
  ELSE PairDeps(prev, idx) \o ScanFrom(prev + 1, idx)

AllPairsScan == ScanFrom(1, 2)

\* The query of the current soundness iteration: adep.op2 -> adep.op1.
Target == adeps[k].op1

-----------------------------------------------------------------------------
Init ==
  /\ kind \in [Ops -> Kinds]
  /\ req \in {r \in [Ops -> ReqChoices \cup {NoReq}] :
                \A o \in Ops : (r[o] = NoReq) <=> (kind[o] # "task")}
  /\ mdeps = EmptyBag
  /\ outgoing = [o \in Ops |-> {}]
  /\ phase = "ingest"
  /\ adeps = <<>>
  /\ k = 1
  /\ stack = <<>>
  /\ result = "none"
  /\ marked = {}
  /\ errors = 0
  /\ warnings = 0

\* A claim the trace may hold that ingestion survives: a deletion is never
\* a producer (Deletion.add_logical_incoming asserts False).
CanClaim(kd, prev, next) == <<prev, next>> \in ClaimPairs /\ kd[prev] # "deletion"

\* SingleTask.add_logical_outgoing ignores a claim of an op on itself.
LogicalEdge(prev, next) == IF prev = next THEN {} ELSE {prev}

\* State.add_mapping_dependence: add_mdep appends the claim to the list
\* without looking for an equal one; then prev.add_logical_incoming(next)
\* aborts if prev is a deletion, else next gets the edge back to prev.
AddMappingDependence(prev, next, dtype) ==
  /\ phase = "ingest"
  /\ <<prev, next>> \in ClaimPairs
  /\ CopiesIn(Dep(prev, next, dtype), mdeps) < MaxClaimCopies
  /\ mdeps' = mdeps (+) SetToBag({Dep(prev, next, dtype)})
  /\ \/ /\ CanClaim(kind, prev, next)
        /\ outgoing' = [outgoing EXCEPT ![next] = @ \cup LogicalEdge(prev, next)]
        /\ UNCHANGED phase
     \/ /\ ~CanClaim(kind, prev, next)
        /\ phase' = "crashed"
        /\ UNCHANGED outgoing
  /\ UNCHANGED <<kind, req, adeps, k, stack, result, marked,
                 errors, warnings>>

\* compute_dependence_diff, first part: the all-pairs scan.
AllPairs ==
  /\ phase = "ingest"
  /\ phase' = "sound"
  /\ adeps' = AllPairsScan
  /\ UNCHANGED <<kind, req, mdeps, outgoing, k, stack, result, marked,
                 errors, warnings>>

\* The loop calls adeps[k].op2.has_logical_path(adeps[k].op1).  The two
\* early returns of that call (self is the target, self is marked) cannot
\* fire here: the scan only pairs prev < idx, and every mark was cleared
\* after the previous query; so the call pushes its frame.
StartQuery ==
  /\ phase = "sound"
  /\ k <= Len(adeps)
  /\ stack = <<>>
  /\ result = "none"
  /\ stack' = <<[node |-> adeps[k].op2, todo |-> outgoing[adeps[k].op2]]>>
  /\ UNCHANGED <<kind, req, mdeps, outgoing, phase, adeps, k, marked,
                 result, errors, warnings>>

\* The frame on top calls has_logical_path on its next successor c.  The
\* call itself fails once RecursionLimit frames are stacked; otherwise c
\* returns True at once if it is the target, False at once if it is
\* marked, and else pushes its own frame.
Explore ==
  /\ phase = "sound"
  /\ stack # <<>>
  /\ stack[Len(stack)].todo # {}
  /\ \E c \in stack[Len(stack)].todo :
       LET popped == [stack EXCEPT ![Len(stack)].todo = @ \ {c}]
       IN  IF Len(stack) >= RecursionLimit
           THEN phase' = "crashed" /\ UNCHANGED <<stack, result>>
           ELSE IF c = Target
           THEN result' = "found" /\ stack' = <<>> /\ UNCHANGED phase
           ELSE IF c \in marked
           THEN stack' = popped /\ UNCHANGED <<result, phase>>
           ELSE /\ stack' = Append(popped, [node |-> c, todo |-> outgoing[c]])
                /\ UNCHANGED <<result, phase>>
  /\ UNCHANGED <<kind, req, mdeps, outgoing, adeps, k, marked,
                 errors, warnings>>

\* No successor reached the target: logical_marked = True, return False.
ReturnNotFound ==
  /\ phase = "sound"
  /\ stack # <<>>
  /\ stack[Len(stack)].todo = {}
  /\ marked' = marked \cup {stack[Len(stack)].node}
  /\ stack' = SubSeq(stack, 1, Len(stack) - 1)
  /\ result' = IF Len(stack) = 1 THEN "notfound" ELSE result
  /\ UNCHANGED <<kind, req, mdeps, outgoing, phase, adeps, k, errors, warnings>>

\* Mutant: the marks are not cleared between queries.
EndQueryNoUnmark ==
  /\ phase = "sound"
  /\ result # "none"
  /\ errors' = IF result = "notfound" THEN errors + 1 ELSE errors
  /\ marked' = marked
  /\ k' = k + 1
  /\ result' = "none"
  /\ UNCHANGED <<kind, req, mdeps, outgoing, phase, adeps, stack, warnings>>

\* Loop body after the query: count the error, unmark every child.
EndQuery ==
  /\ phase = "sound"
  /\ result # "none"
  /\ errors' = IF result = "notfound" THEN errors + 1 ELSE errors
  /\ marked' = marked \ Ops
  /\ k' = k + 1
  /\ result' = "none"
  /\ UNCHANGED <<kind, req, mdeps, outgoing, phase, adeps, stack, warnings>>

\* Mutant: claims whose consumer is a deletion are warned about too.
TightnessNoDeletionExemption ==
  /\ phase = "sound"
  /\ k > Len(adeps)
  /\ result = "none"
  /\ phase' = "done"
  /\ warnings' = BagCardinality(
                   [m \in {x \in BagToSet(mdeps) : \A i \in 1..Len(adeps) : adeps[i] # x}
                      |-> mdeps[m]])
  /\ UNCHANGED <<kind, req, mdeps, outgoing, adeps, k, stack, result,
                 marked, errors>>

\* compute_dependence_diff, last part: a warning per entry of the claim
\* list not among the required ones (equality includes the type),
\* deletions exempt.
Tightness ==
  /\ phase = "sound"
  /\ k > Len(adeps)
  /\ result = "none"
  /\ phase' = "done"
  /\ warnings' = BagCardinality(
                   [m \in {x \in BagToSet(mdeps) :
                             (\A i \in 1..Len(adeps) : adeps[i] # x)
                             /\ kind[x.op2] # "deletion"}
                      |-> mdeps[m]])
  /\ UNCHANGED <<kind, req, mdeps, outgoing, adeps, k, stack, result,
                 marked, errors>>

Next ==
  \/ \E prev, next \in Ops, t \in ClaimTypes : AddMappingDependence(prev, next, t)
  \/ AllPairs
  \/ StartQuery
  \/ Explore
  \/ ReturnNotFound
  \/ EndQuery
  \/ Tightness

Spec == Init /\ [][Next]_vars

-----------------------------------------------------------------------------
TypeOK ==
  /\ kind \in [Ops -> Kinds]
  /\ IsABag(mdeps)
  /\ BagToSet(mdeps) \subseteq [op1 : Ops, op2 : Ops, dtype : ClaimTypes]
  /\ \A m \in BagToSet(mdeps) : mdeps[m] <= MaxClaimCopies
  /\ outgoing \in [Ops -> SUBSET Ops]
  /\ phase \in {"ingest", "sound", "done", "crashed"}
  /\ adeps \in Seq([op1 : Ops, op2 : Ops,
                    dtype : Oracle!DependenceTypes \ {Oracle!NoDependence}])
  /\ k \in 1..(Len(adeps) + 1)
  /\ stack \in Seq([node : Ops, todo : SUBSET Ops])
  /\ result \in {"none", "found", "notfound"}
  /\ marked \subseteq Ops
  /\ errors \in Nat /\ warnings \in Nat

\* The required dependences, the set the abstract diff is given.
Required(kd, rq) ==
  LET pairs == {p \in Ops \X Ops :
                  /\ p[1] < p[2] /\ kd[p[1]] = "task" /\ kd[p[2]] = "task"
                  /\ Oracle!IsMappingDependence(ComputeDependence(rq[p[1]], rq[p[2]]))}
  IN  {Dep(p[1], p[2], ComputeDependence(rq[p[1]], rq[p[2]])) : p \in pairs}

Abstract == INSTANCE DependenceDiffSpec WITH
  Ops <- Ops, Kinds <- Kinds, Reqs <- ReqChoices \cup {NoReq},
  DepTypes <- Oracle!DependenceTypes, required <- Required(kind, req),
  mdeps <- {m \in BagToSet(mdeps) : kind[m.op1] # "deletion"},
  phase <- IF phase = "done" THEN "done" ELSE "ingest",
  errors <- IF phase = "done" THEN errors ELSE 0,
  warnings <- IF phase = "done" THEN warnings ELSE 0

(***************************************************************************)
(* The diff implements its promise: whatever claims the runtime made, the  *)
(* all-pairs scan, the marking DFS with its unmark after every query, and  *)
(* the tightness loop together report exactly one ERROR per required      *)
(* dependence the claimed graph does not enforce and one WARNING per       *)
(* unneeded claim.                                                         *)
(***************************************************************************)
ImplementsDiffSpec == Abstract!Spec

(***************************************************************************)
(* A logical_marked flag is a memo "no path from here to the target".      *)
(* During a query every marked child really has no claimed path to the     *)
(* current target; a mark left over from an earlier query for another      *)
(* target would make has_logical_path answer False wrongly.                *)
(***************************************************************************)
MarksAreNoPathFacts ==
  (phase = "sound" /\ k <= Len(adeps)) =>
    \A n \in marked : ~Abstract!Enforced(n, Target)

=============================================================================
