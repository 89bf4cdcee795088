SPECIFICATION StoppingSpec
CONSTANTS
  Handlers = {h1, h2}
  Callers = {}
  MsgCap = 1
  TxCap = 1
  MayStop = TRUE
INVARIANTS
  AnswersBalance
PROPERTIES
  ManagerStops
CHECK_DEADLOCK FALSE
