----------------------------- MODULE ChainSpec -----------------------------
(***************************************************************************)
(* What the header chain of an SPV node promises to everything above it,   *)
(* with no mention of files, caches or partial writes: the set of known    *)
(* blocks only grows, every known block extends another known one and      *)
(* carries the work of its whole branch, and the tip only ever moves to a  *)
(* known block with strictly more work.  BlockChain implements it.         *)
(***************************************************************************)
EXTENDS Naturals

CONSTANTS
  Hash,      \* block hashes the node may ever be offered
  Genesis,   \* the hash of the genesis header
  Prev,      \* the previous-block hash a header carries
  Work       \* the work CalcWork derives from a header's Bits

VARIABLES
  work,      \* known block |-> cumulative work of its branch
  tip        \* the best known block

vars == <<work, tip>>

Init ==
  /\ work = [h \in {Genesis} |-> 0]
  /\ tip = Genesis

(* A block joins the known ones; its parent is known.  Offering a known    *)
(* block again changes nothing.                                            *)
Learn(b) ==
  /\ Prev[b] \in DOMAIN work
  /\ work' = [h \in DOMAIN work \cup {b} |->
                IF h = b THEN work[Prev[b]] + Work[b] ELSE work[h]]
  /\ tip' = tip

(* The best chain switches to a known block that is strictly heavier.      *)
Advance(b) ==
  /\ b \in DOMAIN work
  /\ work[b] > work[tip]
  /\ tip' = b
  /\ work' = work

Next == \E b \in Hash : Learn(b) \/ Advance(b)

Spec == Init /\ [][Next]_vars
=============================================================================
