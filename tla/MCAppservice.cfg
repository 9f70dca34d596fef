SPECIFICATION FairSpec
CONSTANTS
  Size <- MCSize
  Requests = {r1, r2, r3}
  NoRequest = NoRequest
  Limit = 3
  Lag = 1
  MaxRestarts = 2
  MaxTroubles = 2
INVARIANTS
  TypeOK
  OncePerLifetime
  AcknowledgedIsHandled
PROPERTIES
  QueueDrains
CHECK_DEADLOCK FALSE
