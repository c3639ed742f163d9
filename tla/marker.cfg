SPECIFICATION Spec
CONSTANTS
  Symbols = {"x", "y"}
  Marker <- MCMarker
  Bodies <- MCBodies
  MaxBody = 7
  MaxRead = 4
CHECK_DEADLOCK FALSE
INVARIANTS
  TypeOK
  MarkerHeldBack
  VerdictRight
  RetryableUnseen
