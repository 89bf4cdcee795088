SPECIFICATION FairSpec
CONSTANTS
  None = None
  Inv = Inv
  Offer <- Offers
  Wanted <- WantedOffers
  Tx <- SentTx
  MaxMessages = 3
  MaxRequests = 1
INVARIANTS
  TypeOK
  DeliveredWhole
  ProofsHold
PROPERTIES
  StalledDisconnected
CHECK_DEADLOCK FALSE
