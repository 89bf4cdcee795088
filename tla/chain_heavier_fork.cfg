SPECIFICATION Spec
CONSTANTS
  g = g
  a1 = a1
  a2 = a2
  a3 = a3
  b1 = b1
  b2 = b2
  b3 = b3
  c2 = c2
  x = x
  None = None
  Genesis = g
  Hash <- MCHash
  Prev <- MCPrev
  Work <- VaryingWork
  ValidPoW <- MCValidPoW
  MaxFaults = 0
INVARIANTS
  MainIsBestChain
