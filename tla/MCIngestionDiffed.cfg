CONSTANTS
  Uids = {u1, u2, u3, u4}
  SliceIds = {s1}
  Objs = {o1, o2, o3, o4}
  OtherKinds <- MCOtherKinds
  Idxs = {}
  Spaces = {a}
  Fields = {}
  None = None
SPECIFICATION Spec
SYMMETRY Symmetry
\* Ingestion ends in a crash or after check_logical: both are final.
CHECK_DEADLOCK FALSE
INVARIANT
  EveryContextDiffedOnce
