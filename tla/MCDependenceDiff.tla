--------------------------- MODULE MCDependenceDiff ---------------------------
(***************************************************************************)
(* Model-checking instance of DependenceDiff.  Four children are the       *)
(* fewest for which a mark left by one query can sit on a path of another  *)
(* (3 -> 2 marked while looking for 1, then needed from 4 to reach 2).     *)
(* The index tree is a root R with a disjoint partition P into A and B:    *)
(* requirements on A and B never alias, on R they alias both.              *)
(*                                                                         *)
(* The runtime claims each dependence once, from an earlier to a later     *)
(* child; a trace may also hold a backward claim.  One backward claim,     *)
(* 4 -> 2, is enough to close a cycle with the forward claim 2 -> 4.       *)
(* RecursionLimit = N: an acyclic chain of N children never stacks more    *)
(* than N frames, so the limit stands for the endless recursion a claim    *)
(* cycle causes; Python's limit on a long acyclic chain is out of reach.   *)
(***************************************************************************)
EXTENDS DependenceDiff

CONSTANTS R, P, A, B, f1

MCTreeSpaces == {R, A, B}
MCTreeParts == {P}
MCTreeParent == [n \in {R, P, A, B} |-> CASE n = R -> NoNode [] n = P -> R [] OTHER -> P]
MCTreeDepth == [n \in {R, P, A, B} |-> CASE n = R -> 0 [] n = P -> 1 [] OTHER -> 2]
MCTreeDisjoint == [n \in {P} |-> TRUE]

\* Exclusive writers of A and of B, and an exclusive reader of all of R:
\* A and B never interfere, a reader before a writer is an anti dependence,
\* a writer before a reader a true one, and two readers none.
MCReqChoices ==
  {[acc |-> [priv |-> "READ_WRITE", coher |-> "EXCLUSIVE", redop |-> NoRedop],
    node |-> n, fields |-> {f1}] : n \in {A, B}}
  \cup
  {[acc |-> [priv |-> "READ_ONLY", coher |-> "EXCLUSIVE", redop |-> NoRedop],
    node |-> R, fields |-> {f1}]}
\* Every claim from an earlier to a later child.
MCForwardClaimPairs == {p \in Ops \X Ops : p[1] < p[2]}

\* The forward claims and one backward claim.
MCClaimPairs == MCForwardClaimPairs \cup {<<N, N - 2>>}
=============================================================================
