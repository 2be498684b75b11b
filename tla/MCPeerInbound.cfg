SPECIFICATION FairSpecI
CONSTANTS
  Calls = {}
  CtxCalls = {}
  None = None
  Requests = {r1, r2}
  Own = {r2}
  Keys = {k1, k2}
  Notes <- MCNotes
  MaxLines = 3
INVARIANTS CancelCodeJustified CancelMapExact
PROPERTIES CancelEndsRequest
CHECK_DEADLOCK FALSE
