SPECIFICATION PSpec
CONSTANTS
  a = a
  d = d
  w = w
  nl = nl
  r1 = r1
  r2 = r2
  Results = {r1, r2}
  MaxLen = 4
  Char = {a, d, w, nl}
  Newline = nl
  Bodies <- MCBodies
  Notice <- MCNotice
  Size <- MCSize
  Budget = 6
INVARIANTS
  EventsFit
PROPERTIES
  StreamSpec
  LoopsEnd
CHECK_DEADLOCK FALSE
