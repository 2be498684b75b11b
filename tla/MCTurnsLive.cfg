SPECIFICATION FairSpecT
CONSTANTS
  Calls = {t1}
  CtxCalls = {t1}
  None = None
  Notes <- MCNotes
  MaxLines = 1
  TimedTurns = {t1}
  Closers = {"session", "runtime"}
  MaxChunks = 1
  MaxThread = 3
  DropIntermediate = FALSE
PROPERTIES CancelledTurnSettles EndingEndsTurn
CHECK_DEADLOCK FALSE
