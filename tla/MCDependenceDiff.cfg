CONSTANTS
  N = 4
  Kinds = {"task", "deletion"}
  ClaimTypes = {"TRUE_DEPENDENCE"}
  Redops = {5}
  NoRedop = 0
  NoReq = NoReq
  NoNode = NoNode
  R = R
  P = P
  A = A
  B = B
  f1 = f1
  ReqChoices <- MCReqChoices
  TreeSpaces <- MCTreeSpaces
  TreeParts <- MCTreeParts
  TreeParent <- MCTreeParent
  TreeDepth <- MCTreeDepth
  TreeDisjoint <- MCTreeDisjoint
  ClaimPairs <- MCClaimPairs
  MaxClaimCopies = 1
  RecursionLimit = 4
SPECIFICATION Spec
\* compute_dependence_diff returns once every context has been checked,
\* and the process stops when an assert or the recursion limit aborts it.
CHECK_DEADLOCK FALSE
INVARIANTS
  TypeOK
  MarksAreNoPathFacts
PROPERTIES
  ImplementsDiffSpec
