CONSTANTS
  maxToolSearchRounds = 1
  maxWebSearchRounds = 2
  maxQueries = 2
  Queries = {q1, q2}
  MaxFrames = 2
SPECIFICATION OrchFairSpec
INVARIANTS
  VisibleMessageWellFormed
  AnsweredInFull
  VisibleQueriesWithinBudget
  ResultsReachModelInTime
PROPERTIES
  RetryDropsNothingShown
  OrchEnds
CONSTRAINT
  ShortLater
