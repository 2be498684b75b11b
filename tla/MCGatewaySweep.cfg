SPECIFICATION Spec
CONSTANTS
  q1 = q1
  q2 = q2
  Reqs = {q1, q2}
  Sids = {s1, s2}
  Profiles <- MCProfiles
  Asks <- MCAsks
  MaxSessions = 1
  OwnsRuntime = TRUE
  Silent = {s2}
  Janitor = Janitor
  Main = Main
  None = None
PROPERTY SweepSparesBusy
CHECK_DEADLOCK FALSE
