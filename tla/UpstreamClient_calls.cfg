CONSTANTS
  Callers = {a, b}
  MCPCallers = {b}
  Buffer = 1
  Deadline = 0
  Lifetimes = {1, 2}
  MaxTime = 0
  MaxTokens = 2
  maxAttempts = 2
SPECIFICATION ClientFairSpec
PROPERTIES
  EveryCallEnds
  AttemptsCounted
CHECK_DEADLOCK FALSE
