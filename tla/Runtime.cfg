SPECIFICATION FairSpec
CONSTANTS
  WordMax = 31
  One = 4
  NativeBase = 20
  InitialCapacity = 16
  FrameSize = 2
  LocalSize = 4
  Moves = {TRUE, FALSE}
  Programs <- AnyPrograms
  Fills <- Boundaries
INVARIANTS TypeOK FrameChain PushesFit FrameAssertsHold UnmovedIsFresh
PROPERTIES CallerLocalsKept ImplementsMachine Terminates
CHECK_DEADLOCK FALSE
