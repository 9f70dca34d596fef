SPECIFICATION Spec
CONSTANTS
  Machines = {m1, m2}
  Names = {n1}
  Claims = {k1, k2}
  Calls = {p1, p2}
  None = None
  Torn = Torn
INVARIANT HolderKeepsName
