SPECIFICATION SpecT
CONSTANTS
  Calls = {t1, t2}
  CtxCalls = {}
  None = None
  Notes <- MCNotes
  MaxLines = 2
  TimedTurns = {t1}
  Closers = {"session"}
  MaxChunks = 1
  MaxThread = 3
  DropIntermediate = FALSE
INVARIANTS CurrentIsUnfinished TimerOfCurrentTurn OutputInPlace
PROPERTIES ImplementsTurns
CHECK_DEADLOCK FALSE
