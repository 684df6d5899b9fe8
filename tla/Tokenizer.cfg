SPECIFICATION FairTokensSpec
CONSTANTS
  Sources <- Texts
  Blank <- Blanks
  Letter <- Letters
  Digit <- Digits
  NonAscii <- High
  Sign <- Signs
  Stray <- Controls
  BoolSpellings <- Bools
  NumberSpellings <- Numbers
  CommentSpellings <- Comments
  FloatRoom = 6
  EndSlack = 2
INVARIANTS TokensTypeOK TokensTile TokensAreMaximal LocationsCounted StopsAreExplained
PROPERTIES Ends
CHECK_DEADLOCK FALSE
