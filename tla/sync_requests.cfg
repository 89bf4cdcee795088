SPECIFICATION Spec
CONSTANTS
  t1 = t1
  p1 = p1
  p2 = p2
  g = g
  a1 = a1
  a2 = a2
  b1 = b1
  b2 = b2
  None = None
  NoPeer = NoPeer
  Peer = {p1, p2}
  Candidates = {p1, p2}
  StartHeight <- TallHeights
  Hash = {g, a1, a2, b1}
  Genesis = g
  Prev <- MCPrev
  Work <- UniformWork
  ValidPoW = {g, a1, a2, b1}
  Tx = {t1}
  MaxRequested = 2
  MaxInvPerMsg = 2
  MinInFlight = 2
  InvBound = 2
INVARIANTS
  PendingAtSyncPeer
  RequestsBounded
  TypeOK
  NoOwnerlessRequest
  SyncPeerConnected
