SPECIFICATION FairSpec
CONSTANTS
  s1 = s1
  s2 = s2
  channel = channel
  chat = chat
  Names = {n1}
  Spaces <- MCSpaces
  Others <- MCOthers
  Children <- MCChildren
  Timer = Timer
  Requests = {q1}
  PageSize = 2
  MaxChanges = 2
  MaxFaults = 2
INVARIANTS
  TypeOK
  NoDirectMessages
  OneFailureSparesTheRest
PROPERTIES
  AllJoined
CHECK_DEADLOCK FALSE
