SPECIFICATION SpecR
CONSTANTS
  Setters = {k1, k2}
  Snapshots = {v1, v2}
  MsgIds = {m1, m2}
  Tools = {t1, t2}
  MaxTools = 1
  Slots = 2
  MaxLines = 3
  MaxTurns = 1
  None = None
INVARIANTS CurrentIsExact GenerationsEndOnce
PROPERTIES RunningKeptLongest
SYMMETRY Alike
CHECK_DEADLOCK FALSE
