\* A client that may send anything: replies stay whole, in turn, one to a request.
SPECIFICATION FairSpec
CONSTANTS
  Chunk = 2
  PipeCap = 2
  Replies = {1, 3}
  ClientPackets <- UnrulyClient
  MaxRequest = 1
  MaxServed = 2
INVARIANTS TypeOK RepliesInTurn RepliesReleased DispatchedOnce
PROPERTIES RequestsFinish
CHECK_DEADLOCK FALSE
