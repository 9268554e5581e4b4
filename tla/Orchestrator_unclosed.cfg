CONSTANTS
  maxToolSearchRounds = 1
  maxWebSearchRounds = 1
  maxQueries = 1
  Queries = {q1}
  MaxFrames = 2
SPECIFICATION OrchSpec
INVARIANT MessageWellFormed
