SPECIFICATION FairSpec
CONSTANTS
  g = g
  a1 = a1
  a2 = a2
  a3 = a3
  b1 = b1
  b2 = b2
  b3 = b3
  c2 = c2
  x = x
  None = None
  Genesis = g
  Hash <- MCHash
  Prev <- MCPrev
  Work <- UniformWork
  ValidPoW <- MCValidPoW
  MaxFaults = 0
INVARIANTS
  MainIsBestChain
  ForkIsKept
PROPERTIES
  CommitReturns
