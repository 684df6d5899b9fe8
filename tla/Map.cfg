SPECIFICATION MapSpec
CONSTANTS
  Keys <- FiveKeys
  Vals <- TwoVals
  Hash <- Colliding
  Caps <- SmallCaps
  Word = 16
PROPERTY ImplementsDict
CHECK_DEADLOCK FALSE
