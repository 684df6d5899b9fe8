SPECIFICATION ArenaSpec
CONSTANTS
  Header = 8
  ScopeSize = 3
  ScopeAlign = 1
  FirstCap = 16
  Powers <- Caps
  Requests <- AllRequests
  Kinds <- AllKinds
  MaxBlocks = 3
  MaxMarks = 2
  MaxLive = 4
INVARIANTS LiveIsKept ArenaAssertsHold
CHECK_DEADLOCK FALSE
