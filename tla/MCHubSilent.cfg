SPECIFICATION Spec
CONSTANTS
  Agents = {a1}
  Conns = {c1}
  Jobs = {j1}
  NoConn = NoConn
  NoJob = NoJob
  SendCap = 1
INVARIANT NoSilentJob
CHECK_DEADLOCK FALSE
