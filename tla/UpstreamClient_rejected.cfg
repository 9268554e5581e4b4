CONSTANTS
  Callers = {a}
  MCPCallers = {}
  Buffer = 1
  Deadline = 0
  Lifetimes = {1, 2}
  MaxTime = 0
  MaxTokens = 2
  maxAttempts = 2
SPECIFICATION ClientSpec
PROPERTIES
  RejectedTokenReplaced
CHECK_DEADLOCK FALSE
