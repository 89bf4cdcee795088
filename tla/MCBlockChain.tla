---------------------------- MODULE MCBlockChain ----------------------------
(* Block trees for TLC.  Two branches leave the genesis block, a third one *)
(* leaves a1; x fails its proof of work.                                   *)
EXTENDS BlockChain

CONSTANTS g, a1, a2, a3, b1, b2, b3, c2, x

MCHash == {g, a1, a2, a3, b1, b2, b3, c2, x}

MCPrev == [h \in MCHash |->
  CASE h = a1 -> g  [] h = a2 -> a1 [] h = a3 -> a2
    [] h = b1 -> g  [] h = b2 -> b1 [] h = b3 -> b2
    [] h = c2 -> a1 [] h = x  -> a1 [] OTHER -> None]

MCValidPoW == MCHash \ {x}

(* Every block has the same difficulty: the heaviest branch is the         *)
(* longest.                                                                *)
UniformWork == [h \in MCHash |-> 1]

(* Difficulty varies: one c2 outweighs two blocks of the a branch, b2      *)
(* outweighs everything below it.                                          *)
VaryingWork == [h \in MCHash |-> IF h \in {c2, b2} THEN 3 ELSE 1]

(* A smaller tree for the runs with faults.                                *)
SmallHash == {g, a1, a2, a3, b1, b2, c2}
SmallPrev == [h \in SmallHash |-> MCPrev[h]]
SmallWork == [h \in SmallHash |-> VaryingWork[h]]
=============================================================================
