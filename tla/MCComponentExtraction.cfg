CONSTANTS
  Events = {"e0", "e1", "e2", "e3", "e4", "e5"}
  NoEvent = "e0"
  Units <- MCUnits
  Container <- MCContainer
  Key <- KeyFirstCopy
  UnitEvents <- MCUnitEvents
  EdgeCandidates <- MCEdgeCandidates
SPECIFICATION Spec
\* print_pictures returns after drawing the last component.
CHECK_DEADLOCK FALSE
INVARIANTS
  ComponentsMaximal
  MarksClearedAfterDrawing
