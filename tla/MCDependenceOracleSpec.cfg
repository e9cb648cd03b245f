\* The oracle against the algebra of the design document (expected to fail).
CONSTANTS
  Redops = {5, 7}
  NoRedop = 0
SPECIFICATION Spec
INVARIANTS
  OracleMatchesSpec
