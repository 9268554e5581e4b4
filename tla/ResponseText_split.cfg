CONSTANTS
  Chars <- MCChars
  OpenTag <- MCOpenTag
  CloseTag <- MCCloseTag
  StopSequences <- MCStopSequences
  maxTokens = 2
  RunesPerToken = 2
  MaxDelta = 3
  Thoughts <- MCThoughts
  MaxContent = 8
SPECIFICATION TextSpec
INVARIANTS
  NothingLost
  StopSequenceWithheld
  WithinMaxTokens
CHECK_DEADLOCK FALSE
