SPECIFICATION SpecT
CONSTANTS
  Calls = {t1}
  CtxCalls = {}
  None = None
  Notes <- MCNotes
  MaxLines = 2
  TimedTurns = {}
  Closers = {"session"}
  MaxChunks = 1
  MaxThread = 3
  DropIntermediate = FALSE
INVARIANT EmitDeliversOrDrops
CHECK_DEADLOCK FALSE
