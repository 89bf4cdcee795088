SPECIFICATION Spec
CONSTANTS
  None = None
  Error = Error
  OriginArbiters = Origin
  ArbitersCount = 2
  DefaultConfirmations = 1
  CoinbaseConfirmations = 2
  Block <- PayBlock
  Genesis = "g"
  Prev <- PayPrev
  BlockTxs <- PayBlockTxs
  Tx <- PayTx
  Listener <- PayListener
  Handler = {h1, h2}
  MaxBlocks = 7
  MaxFaults = 1
SYMMETRY Handlers
CHECK_DEADLOCK FALSE
INVARIANTS
  QueueIndexed
  NotifiedConfirmed
  SpendsFollowed
  ProofVerifies
