\* Checks of two connections that share a cache and a pool.
SPECIFICATION MCSpec
CONSTANTS
  Callers = {c1, c2}
  Uris = {u1}
  MaxConnects = 2
  MaxU64 = 9
  VerifyKey = "key"
  Tickets <- HolderTickets
  Actions = {"get"}
  Answers <- AuthTables
  Ttl = 1
  RpcTimeout = 1
  MaxTime = 2
INVARIANTS OneLivePerUri TicketsHonoured
PROPERTIES GrantsJustified ChecksEnd
CHECK_DEADLOCK FALSE
