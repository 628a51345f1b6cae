\* A process with two connections, its announcements, and a registry.
SPECIFICATION MCSpec
CONSTANTS
  Clients = {c1, c2}
  BindTries = 1
  DrainTime = 2
  Interval = 1
  Rounds = 2
  RoundGap = 1
  MaxTime = 2
  MaxU32 = 65535
  LineWidth = 2
  TheService <- TheOne
  AuthFile <- File
  Lowercase <- UpperCase
  Delimiter <- Delim
INVARIANTS
  TypeOK ActiveCounted OffersServed
  TablesReadBack AnnouncementsUnderstood AuthorizedBySegments RecordsWhole
PROPERTIES ExitsDrained ShutdownEnds
CHECK_DEADLOCK FALSE
