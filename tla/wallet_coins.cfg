SPECIFICATION Spec
CONSTANTS
  None = None
  Block <- CoinBlock
  Genesis = "g"
  Prev <- CoinPrev
  BlockTxs <- CoinBlockTxs
  Tx <- CoinTx
  Addr = {"A", "B"}
  MainAddr = "A"
  Payment <- Payments
  CoinbaseLock = 1
  MaxBlocks = 5
  MaxNotices = 1
  MaxPayments = 1
  MaxFaults = 1
CHECK_DEADLOCK FALSE
INVARIANTS
  TypeOK
  
  
  TransactionsValid
