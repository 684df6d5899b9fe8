SPECIFICATION FairParseSpec
CONSTANTS
  Texts <- AllTexts
  Programs <- AllPrograms
INVARIANTS NothingLost ProgramsParse
PROPERTIES ParseEnds
CHECK_DEADLOCK FALSE
