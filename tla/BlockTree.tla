------------------------------- MODULE BlockTree -------------------------------
(* The tree of blocks that may reach a store, for the modules that work on   *)
(* the data of whole blocks.                                                 *)
EXTENDS Integers

CONSTANTS Block,    \* blocks that may arrive
          Genesis,  \* the block every store starts from
          Prev      \* the parent of every other block

(* Heights and branches.                                                     *)
Height[b \in Block] == IF b = Genesis THEN 0 ELSE 1 + Height[Prev[b]]
Branch[b \in Block] == IF b = Genesis THEN {b} ELSE {b} \cup Branch[Prev[b]]
MaxHeight == CHOOSE n \in {Height[b] : b \in Block} : \A b \in Block : Height[b] <= n

(* Every block has a parent, and is one higher; its branch is that of the    *)
(* parent with itself: what the recursive definitions say.                   *)
ASSUME TreeAssumption ==
  /\ Genesis \in Block /\ Height[Genesis] = 0 /\ Branch[Genesis] = {Genesis}
  /\ \A b \in Block \ {Genesis} :
        /\ Prev[b] \in Block /\ Height[b] = 1 + Height[Prev[b]]
        /\ Branch[b] = {b} \cup Branch[Prev[b]]
  /\ \A b \in Block : Height[b] \in 0 .. MaxHeight

(* Where two branches part, and the block above it on one of them.           *)
Ancestor(a, b) == CHOOSE x \in Branch[a] \cap Branch[b] :
                    \A y \in Branch[a] \cap Branch[b] : Height[y] <= Height[x]
ChildToward(a, tip) == CHOOSE x \in Branch[tip] \ {Genesis} : Prev[x] = a
=============================================================================
