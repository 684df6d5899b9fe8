SPECIFICATION FairSystemSpec
CONSTANTS
  WordMax = 4095
  One = 16
  NativeBase = 200
  InitialCapacity = 16
  BodyMoves = {FALSE}
  Widths <- Sizes
  Trees <- TestsAndPairs
  Exprs <- AllExprsUsed
  Statements <- AllStmtsUsed
  Funcs <- AllFuncsUsed
  StackCapacity = 64
  FrameSize = 2
  LocalSize = 4
  MaxLocals = 4
  Moves = {FALSE}
  Fills <- ZeroFive
INVARIANTS OutputIsMeaning NoTrap OperandsKept
PROPERTIES ReturnsOneWord Completes
CHECK_DEADLOCK FALSE
