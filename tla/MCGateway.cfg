SPECIFICATION FairSpec
CONSTANTS
  q1 = q1
  q2 = q2
  Reqs = {q1, q2}
  Sids = {s1, s2}
  Profiles <- MCProfiles
  Asks <- MCAsks
  MaxSessions = 1
  OwnsRuntime = TRUE
  Silent = {s2}
  Janitor = Janitor
  Main = Main
  None = None
INVARIANTS OneTurnPerSession LimitHolds SessionsAccounted Isolation
PROPERTIES EverySessionCloses ShutdownCloses
CHECK_DEADLOCK FALSE
