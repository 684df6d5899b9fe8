SPECIFICATION EmitSpec
CONSTANTS
  WordMax = 4095
  One = 16
  NativeBase = 200
  InitialCapacity = 16
  BodyMoves = {TRUE, FALSE}
  Widths <- Sizes
  Trees <- EmitTrees
  Exprs <- ExprsOfTrees
  Statements <- StmtsOfTrees
  Funcs <- FuncsOfTrees
INVARIANTS EmitTypeOK Contiguous BranchesPatched BranchesStayInside
CHECK_DEADLOCK FALSE
