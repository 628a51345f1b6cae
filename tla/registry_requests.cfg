\* Three services on a bus that repeats and reorders, a cache file, two requests;
\* or one service, and four requests that report its failures.
SPECIFICATION MCSpec
CONSTANTS
  Announcements <- Bus
  Authorized <- Rights
  CacheFiles <- Files
  FailureWindow = 1
  BackoffUnit = 1
  BackoffCap = 3
  MaxTime = 5
  Requests = {r1, r2, r3, r4}
  Few = {r1, r2}
  Wanted <- Lookups
INVARIANTS TypeOK EntriesCurrent RetryFindsAction BackoffBounded
PROPERTIES ImplementsLatest FailedReactivates
CHECK_DEADLOCK FALSE
