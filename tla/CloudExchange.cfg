SPECIFICATION Spec
CONSTANTS
  Conns = {c1, c2}
  NoConn = NoConn
  Frames = {"LEFT", "RIGHT"}
  None = None
  NoCall = NoCall
  MaxConcurrent = 1
INVARIANTS ExchangeTypeOK LoadCountsHandlers
PROPERTIES KeepsServicePromise HandlersEndUncut
