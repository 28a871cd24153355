SPECIFICATION FairSpec
CONSTANTS
  Names = {alice, alan}
  Ids <- MCIds
  MaxConns = 4
  Lifted = {}
INVARIANT TypeOK OwnMemory HangsOnStaleMemoryOnly NothingLeftBehind
PROPERTY OneTenant EveryCloseEnds
CHECK_DEADLOCK FALSE
