\* A goodbye that arrives.
SPECIFICATION MCSpec
CONSTANTS
  Clients = {c1}
  BindTries = 1
  DrainTime = 2
  Interval = 1
  Rounds = 2
  RoundGap = 1
  MaxTime = 2
  MaxU32 = 65535
  LineWidth = 2
  TheService <- TheOne
  AuthFile <- File
  Lowercase <- UpperCase
  Delimiter <- Delim
INVARIANT GoodbyeHeard
CHECK_DEADLOCK FALSE
