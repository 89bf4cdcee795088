SPECIFICATION FairSpec
CONSTANTS
  Tx = {t1, t2}
  ExpireTicks = 2
  MaxSends = 2
INVARIANTS
  TypeOK
  OneState
  OneOutcomePerSend
PROPERTIES
  EventuallySettled
CHECK_DEADLOCK FALSE
