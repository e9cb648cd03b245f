CONSTANTS
  o1 = o1  o2 = o2  o3 = o3
  s1 = s1  t1 = t1  s2 = s2  t2 = t2  s3 = s3  t3 = t3
  i1 = i1  f1 = f1
  R = R  P = P  A = A  B = B
  NoEvent = NoEvent
  NoInst = NoInst
  NoNode = NoNode
  Iids = {i1}
  Fields = {f1}
  VersionBound = 2
  \* deeper than any acyclic or stamped traversal of nine nodes
  RecursionLimit = 12
  Redops = {5}
  NoRedop = 0
  Ops <- MCOps
  Events <- MCEvents
  OpEvents <- MCOpEvents
  PhysCandidates <- MCPhysCandidates
  ImplCandidates <- MCImplCandidates
  OpReq <- MCOpReq
  TreeSpaces <- MCTreeSpaces
  TreeParts <- MCTreeParts
  TreeParent <- MCTreeParent
  TreeDepth <- MCTreeDepth
  TreeDisjoint <- MCTreeDisjoint
SPECIFICATION Spec
\* the check ends, or the process dies; either way the program stops
CHECK_DEADLOCK FALSE
INVARIANTS
  TypeOK
  ReportsAreRaces
PROPERTIES
  ImplementsRaceSpec
  RaceCheckTerminates
