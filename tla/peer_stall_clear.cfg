SPECIFICATION FairSpec
CONSTANTS
  None = None
  Inv = Inv
  Offer <- FewOffers
  Wanted = {}
  Tx = {}
  MaxMessages = 2
  MaxRequests = 0
PROPERTIES
  NothingLeftWaiting
CHECK_DEADLOCK FALSE
