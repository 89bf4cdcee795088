SPECIFICATION Spec
CONSTANTS
  None = None
  Error = Error
  OriginArbiters = Origin
  ArbitersCount = 2
  DefaultConfirmations = 2
  CoinbaseConfirmations = 2
  Block <- IdBlock
  Genesis = 0
  Prev <- IdPrev
  BlockTxs <- IdBlockTxs
  Tx <- IdTx
  Listener = {}
  Handler = {h1}
  MaxBlocks = 5
  MaxFaults = 1
CHECK_DEADLOCK FALSE
INVARIANTS
  PositionsSorted
  PositionsCommitted
  ArbitersAnswer
  
