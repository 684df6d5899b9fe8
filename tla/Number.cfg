SPECIFICATION NumberSpec
CONSTANT Texts <- NumberTexts
INVARIANTS SpelledNumbersAreRead OthersAreWords
CHECK_DEADLOCK FALSE
