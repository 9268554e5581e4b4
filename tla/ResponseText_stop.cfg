CONSTANTS
  Chars <- MCChars
  OpenTag <- MCOpenTag
  CloseTag <- MCCloseTag
  StopSequences <- MCStopSequences
  maxTokens = 2
  RunesPerToken = 2
  MaxDelta = 3
  Thoughts <- MCThoughts
  MaxContent = 5
SPECIFICATION TextSpec
PROPERTY StopIsFinal
CHECK_DEADLOCK FALSE
