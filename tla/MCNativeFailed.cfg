SPECIFICATION Spec
CONSTANTS
  s1 = s1
  s2 = s2
  p1 = p1
  p2 = p2
  Sessions = {s1, s2}
  Prompts = {p1, p2}
  Of <- MCOf
  Key <- MCKey
  Engines = {"codex"}
  Eventful = {p1}
  MaxFails = 1
  None = None
INVARIANTS SuccessMeansCompleted
CHECK_DEADLOCK FALSE
