SPECIFICATION FairSpec
CONSTANTS
  Calls = {c1, c2}
  CtxCalls = {c1}
  None = None
  Notes <- MCNotes
  MaxLines = 2
INVARIANTS OwnAnswer DeliverSafe CancelOnlyUnanswered
PROPERTIES ImplementsContract CallsReturn QueuedFnRunsOrLoopDead
CHECK_DEADLOCK FALSE
