SPECIFICATION FairSpecL
CONSTANTS
  c1 = c1
  c2 = c2
  i1 = i1
  Conns = {c1, c2}
  Piped = TRUE
  Parents = {c1}
  Unkillable = {c2}
  Mixes <- MCMixes
  Id <- SameId
  Silent <- MCSilent
  None = None
INVARIANTS FailureDisposes RegistryExact CleanEndLeavesNoTree StatusIsTrue
PROPERTIES RuntimeCloseReturns
CHECK_DEADLOCK FALSE
