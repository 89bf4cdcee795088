SPECIFICATION RunningSpec
CONSTANTS
  Handlers = {h1, h2}
  Callers = {c1}
  MsgCap = 1
  TxCap = 1
  MayStop = FALSE
PROPERTIES
  CallsReturn
