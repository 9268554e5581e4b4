CONSTANTS
  Events <- SSEEvents
  Interval = 1
  MaxWrites = 16
  MaxAttempts = 3
  MaxFrames = 2
SPECIFICATION ExchangeFairSpec
INVARIANTS
  WellFormedStream
  EveryRequestAnswered
  NoEmptyTurn
  RetryIsTransparent
PROPERTIES
  RequestEnds
CONSTRAINTS
  KeepAlivesFirst
  ShortRetry
  EarlyTicks
