CONSTANTS
  Callers = {a, b}
  Buffer = 2
  Deadline = 1
  Lifetimes = {2, 4}
  MaxTime = 4
  MaxTokens = 3
SPECIFICATION AuthSpec
INVARIANTS
  OneRefreshPerExpiry
PROPERTIES
  UsableTokenServed
  InvalidationHeeded
