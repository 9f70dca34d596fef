SPECIFICATION Spec
CONSTANTS
  Machines = {m1, m2}
  Names = {n1, n2}
  Claims = {k1, k2}
  Calls = {p1, p2}
  None = None
  Torn = Torn
SYMMETRY Symmetry
INVARIANTS
  TypeOK
  GrantIsDurable
  ReleasedStaysReleased
  HolderKeepsNameInSequence
