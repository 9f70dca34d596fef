SPECIFICATION Spec
CONSTANTS
  Agents = {a1, a2}
  Conns = {c1, c2}
  Jobs = {j1, j2}
  NoConn = NoConn
  NoJob = NoJob
  SendCap = 1
SYMMETRY Symmetry
INVARIANTS
  TypeOK
  RouteIsLive
  OneAnswerOrAbandonment
  AnswerFromOwner

  
CHECK_DEADLOCK FALSE
