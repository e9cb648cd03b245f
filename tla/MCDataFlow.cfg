CONSTANTS
  op1 = op1  op2 = op2  k1 = k1  k2 = k2  k3 = k3  c0 = c0
  s1 = s1  t1 = t1  s2 = s2  t2 = t2  s3 = s3  x = x  tk1 = tk1  tk2 = tk2  tc = tc
  I0 = I0  I = I  J = J  f = f  g = g
  R = R  P = P  A = A  B = B
  NoNode = NoNode
  Insts = {I0, I, J}
  FieldIds = {f, g}
  Redops = {5}
  NoRedop = 0
  Tasks <- MCTasks
  CopyOps <- MCCopyOps
  Events <- MCEvents
  OpEvents <- MCOpEvents
  EdgeCandidates <- MCEdgeCandidates
  Req <- MCReq
  OpInst <- MCOpInst
  DepCandidates <- MCDepCandidates
  Copies <- MCCopies
  CopyEvents <- MCCopyEvents
  CopySrc <- MCCopySrc
  CopyDst <- MCCopyDst
  CopyFieldRecords <- MCCopyFieldRecords
  TreeSpaces <- MCTreeSpaces
  TreeParts <- MCTreeParts
  TreeParent <- MCTreeParent
  TreeDepth <- MCTreeDepth
  TreeDisjoint <- MCTreeDisjoint
SPECIFICATION Spec
\* the check ends; the program stops there
CHECK_DEADLOCK FALSE
INVARIANTS
  TypeOK
  NoMissedDataFlowError
