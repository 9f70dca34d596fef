SPECIFICATION FairSpec
CONSTANTS
  Names = {n1}
  Machines = {m1, m2}
  MaxCommands = 2
  MaxClaims = 2
  MaxConns = 2
  MaxCalls = 3
  OutCap = 1
INVARIANTS
  TypeOK
  ClaimIsKept
  NoStealing
PROPERTIES
  Converges
CHECK_DEADLOCK FALSE
