SPECIFICATION Spec
CONSTANTS
  Events = 3
  Blank <- Redacted
  Limit = 2
  Calls = {q1, q2, q3, q4}
  AtOnce = 2
  None = None
SYMMETRY Symmetry
INVARIANTS
  TypeOK
  NothingSkipped
  WalkInOrder
  EndIsHonest
CHECK_DEADLOCK FALSE
