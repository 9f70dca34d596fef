SPECIFICATION FairSpec
CONSTANTS
  a1 = a1
  a2 = a2
  j1 = j1
  j2 = j2
  j3 = j3
  Agents = {a1, a2}
  Jobs = {j1, j2, j3}
  AgentOf <- TwoLanes
  Other = Other
  QueueDepth = 1
  OutCap = 1
  MaxSessions = 2
INVARIANTS
  TypeOK
  OneAtATime
  InTurn
  Accounted
PROPERTIES
  PostsWhatItCan
  Stops
CHECK_DEADLOCK FALSE
