\* One request; another healthy service stands by.
SPECIFICATION MCSpec
CONSTANTS
  Announcements <- Pair
  Authorized <- Rights
  CacheFiles <- PairFile
  FailureWindow = 1
  BackoffUnit = 1
  BackoffCap = 2
  MaxTime = 4
  Requests = {r1}
  Few = {r1}
  Wanted <- Lookups
INVARIANT RetryElsewhere
CHECK_DEADLOCK FALSE
