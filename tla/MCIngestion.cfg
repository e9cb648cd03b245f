CONSTANTS
  Uids = {u1, u2, u3}
  SliceIds = {s1, s2}
  Objs = {o1, o2, o3}
  OtherKinds <- MCOtherKinds
  Idxs = {0}
  Spaces = {a, b}
  Fields = {x1}
  None = None
SPECIFICATION Spec
SYMMETRY Symmetry
\* Ingestion ends in a crash or after check_logical: both are final.
CHECK_DEADLOCK FALSE
INVARIANTS
  TypeOK
  SliceChainsResolve
  PointRequirementsFromIndex
