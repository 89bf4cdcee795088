-------------------------------- MODULE Lists --------------------------------
(* The loops of the code that copy part of a list into a new one.  A fold,   *)
(* as the proof system has no definition of SelectSeq.                       *)
EXTENDS SequencesExt

(* The elements of s that are in S, in their order.                          *)
Keep(s, S) ==
  FoldLeft(LAMBDA kept, x : IF x \in S THEN Append(kept, x) ELSE kept, <<>>, s)
=============================================================================
