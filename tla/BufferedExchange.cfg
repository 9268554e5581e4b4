CONSTANTS
  ToolFrames <- MCToolFrames
  MaxFrames = 3
  maxToolSearchRounds = 1
  maxWebSearchRounds = 1
  Intercepted = {"ToolSearch", "web_search"}
  normalizeJSON <- MCnormalizeJSON
SPECIFICATION BufferedFairSpec
INVARIANTS
  CallsFaithful
  NoCallLost
  AnsweredOnce
  StopReasonTrue
PROPERTIES
  BufferedEnds
