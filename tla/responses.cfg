SPECIFICATION Spec
CONSTANTS
  Names <- MCNames
  Kind <- MCKind
  IDs = {1, 2, 3}
  Upstreams <- AllUpstreams
  MaxFollowUps = 2
CHECK_DEADLOCK FALSE
INVARIANTS
  TypeOK
  ItemsWellFormed
  NothingLeftOpen
  DeltasAddUp
  CallsStaySeparate
  EndsOnce
  FollowUpPaired
  SearchesRemembered
PROPERTY
  ResponseEnds
