---------------------------- MODULE MCSyncManager ---------------------------
(* Small instances of SyncManager for TLC: two peers of different height,  *)
(* a main branch and a fork.                                               *)
EXTENDS SyncManager

CONSTANTS t1, p1, p2, g, a1, a2, b1, b2

MCPrev == [h \in Hash |->
  CASE h = a1 -> g [] h = a2 -> a1 [] h = b1 -> g [] h = b2 -> b1
    [] OTHER -> None]

UniformWork == [h \in Hash |-> 1]

(* The heights the peers claim when they connect.                          *)
TallHeights == [r \in Peer |-> IF r = p1 THEN 1 ELSE 3]
=============================================================================
