SPECIFICATION FairFixupSpec
CONSTANTS
  Texts <- OneDetTexts
INVARIANTS Acyclic EveryClauseOnce LastEndsChain DetIsPrevious
PROPERTIES FixupEnds
CHECK_DEADLOCK FALSE
