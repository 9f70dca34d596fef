SPECIFICATION FairSpec
CONSTANTS
  Agents = {a1}
  Conns = {c1}
  Jobs = {j1, j2}
  NoConn = NoConn
  NoJob = NoJob
  SendCap = 1
PROPERTIES
  PushReturns
  LostJobSettles
CHECK_DEADLOCK FALSE
