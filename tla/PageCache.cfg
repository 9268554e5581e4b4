CONSTANTS
  Calls = {c1, c2}
  URLs = {"u", "v"}
  MaxURLs = 2
  concurrency = 1
  MaxEntries = 1
  TTL = 1
  Timeout = 1
  MaxTime = 3
SPECIFICATION PageSpec
INVARIANTS
  CacheConsistent
PROPERTIES
  PageServed
  FetchesEnd
