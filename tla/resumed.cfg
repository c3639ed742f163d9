SPECIFICATION Spec
CONSTANTS
  Names <- MCNames
  Kind <- MCKind
  IDs = {1, 2, 3}
  Upstreams <- IndexedOnly
  MaxFollowUps = 0
CHECK_DEADLOCK FALSE
INVARIANTS
  DoneAfterAllArgumentDeltas
