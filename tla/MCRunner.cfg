SPECIFICATION FairSpec
CONSTANTS
  Jobs = {j1, j2}
  None = None
  Failed = Failed
  Lost = Lost
  Width = 3
INVARIANTS
  TypeOK
  OwnAnswer
  KilledGroupIsGone
PROPERTIES
  RunEnds
