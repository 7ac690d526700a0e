SPECIFICATION Spec
CONSTANTS
  Conns = {c1, c2}
  NoConn = NoConn
  Frames = {"LEFT"}
  None = None
  NoCall = NoCall
  MaxConcurrent = 1
PROPERTY HandlersEnd
