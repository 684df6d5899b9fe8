SPECIFICATION SystemSpec
CONSTANTS
  WordMax = 4095
  One = 16
  NativeBase = 200
  InitialCapacity = 16
  BodyMoves = {FALSE}
  Widths <- Sizes
  Trees <- WhileTrees
  Exprs <- ExprsOfTrees
  Statements <- StmtsOfTrees
  Funcs <- FuncsOfTrees
  StackCapacity = 64
  FrameSize = 2
  LocalSize = 4
  MaxLocals = 4
  Moves = {FALSE}
  Fills <- Five
INVARIANT WhileTestPasses
CHECK_DEADLOCK FALSE
