CONSTANTS
  s1 = s1
  s2 = s2
  s3 = s3
  p1 = p1
  p2 = p2
  t1 = t1
  t2 = t2
  None = None
  f1 = f1
  f2 = f2
  x1 = x1
  FieldSpaceIds <- MCFieldSpaceIds
  FieldIds <- MCFieldIds
  SpaceIds <- MCSpaceIds
  PartIds <- MCPartIds
  TreeIds <- MCTreeIds
  Points <- MCPoints
SYMMETRY MCSymmetry
SPECIFICATION Spec
\* The trace is finite: once every uid is used nothing more can be declared.
CHECK_DEADLOCK FALSE
INVARIANTS
  TypeOK
  AliasingSound
  RequirementNodesFound
