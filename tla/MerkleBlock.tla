------------------------------ MODULE MerkleBlock ------------------------------
(* Merkle blocks (bloom/merkleblock.go, bloom/merklebranch.go): the part of  *)
(* a block's merkle tree that proves some of its transactions, how it is     *)
(* built, checked, and turned into the branch of one transaction.            *)
(*                                                                           *)
(* A hash is the term it was computed from: <<t>> for transaction t,         *)
(* <<l, r>> for an inner node, so different contents have different hashes.  *)
(* The nodes of a tree with n leaves are numbered in rows, leaves first:     *)
(* with msb the power of two that holds n, leaves are below msb, the row     *)
(* above starts at msb, the root is 2 * msb - 2.                             *)
(*                                                                           *)
(* A definition without a comment that stands just before another one is a   *)
(* plausible mistake in it; the specification does not use it.               *)
EXTENDS Integers, SequencesExt

Bool(b) == IF b THEN 1 ELSE 0

(* Depth of the tree over n leaves, the next power of two.                   *)
treeDepth(n) == CHOOSE e \in 0 .. n : 2 ^ e >= n /\ \A f \in 0 .. e - 1 : 2 ^ f < n
nextPowerOfTwo(n) == 2 ^ treeDepth(n)
calcTreeWidth(n, height) == (n + 2 ^ height - 1) \div 2 ^ height

HashMerkleBranches(left, right) == <<left, right>>

(* calcHash, row by row: the last node of an odd row is paired with itself.  *)
calcHash(txs) ==
  LET n == Len(txs)
      row[h \in 0 .. treeDepth(n)] ==
        [pos \in 0 .. calcTreeWidth(n, h) - 1 |->
           IF h = 0 THEN <<txs[pos + 1]>>
           ELSE HashMerkleBranches(row[h - 1][2 * pos],
                  row[h - 1][IF 2 * pos + 1 < calcTreeWidth(n, h - 1)
                             THEN 2 * pos + 1 ELSE 2 * pos])]
  IN row

Root(txs) == calcHash(txs)[treeDepth(Len(txs))][0]

(* traverseAndBuild: depth first; a node above a match has the bit 1 and its *)
(* children follow, any other node and every leaf gives its hash.            *)
traverseAndBuild(txs, matched) ==
  LET n == Len(txs)
      hash == calcHash(txs)
      isParent(h, pos) == \E i \in matched : pos * 2 ^ h < i /\ i <= (pos + 1) * 2 ^ h
      part[h \in 0 .. treeDepth(n)] ==
        [pos \in 0 .. calcTreeWidth(n, h) - 1 |->
           LET bit == <<Bool(isParent(h, pos))>> IN
           IF h = 0 \/ ~isParent(h, pos)
           THEN [bits |-> bit, hashes |-> <<hash[h][pos]>>]
           ELSE LET left == part[h - 1][2 * pos]
                    right == IF 2 * pos + 1 < calcTreeWidth(n, h - 1)
                             THEN part[h - 1][2 * pos + 1]
                             ELSE [bits |-> <<>>, hashes |-> <<>>]
                IN [bits |-> bit \o left.bits \o right.bits,
                    hashes |-> left.hashes \o right.hashes]]
  IN part[treeDepth(n)][0]

(* NewMerkleBlock: the bits fill up whole bytes.                             *)
NewMerkleBlock(txs, matched) ==
  LET tree == traverseAndBuild(txs, matched)
      rest == (8 - (Len(tree.bits) % 8)) % 8
  IN [root |-> Root(txs), transactions |-> Len(txs), hashes |-> tree.hashes,
      flags |-> tree.bits \o [i \in 1 .. rest |-> 0]]

-----------------------------------------------------------------------------
(* Positions.  Bits are set and shifted on numbers below 2 * msb.            *)

Sibling(pos) == pos + 1 - (pos % 2)               \* pos | 1
Above(pos, msb) == pos \div 2 + msb               \* pos >> 1 | msb
FirstChild(pos, msb) == 2 * (pos - msb)           \* (pos ^ msb) << 1

(* Beyond the last node of its row.                                          *)
inDeadZone(pos, size) ==
  LET msb == nextPowerOfTwo(size)
      start[k \in 0 .. treeDepth(size)] ==
        IF k = 0 THEN msb ELSE Above(start[k - 1], msb)
      last[k \in 0 .. treeDepth(size)] ==
        IF k = 0 THEN size - 1 ELSE Above(last[k - 1], msb)
      row == CHOOSE k \in DOMAIN start :
               pos < start[k] /\ \A j \in 0 .. k - 1 : pos >= start[j]
  IN pos > 2 * msb - 2 \/ pos > last[row]

(* MakeMerkleParent refuses equal children; a missing right one is the left. *)
MakeMerkleParent(left, right) ==
  IF left = <<>> \/ left = right THEN <<>>
  ELSE <<left, IF right = <<>> THEN left ELSE right>>

(* One turn of the loop of CheckMerkleBlock, which getNodes repeats to       *)
(* collect every node it learns.  A node of the stack is [p, h], <<>> for a  *)
(* hash not known yet; v.out says how the loop ended.                        *)
Stop(v, out) == [v EXCEPT !.out = out]
Known(v, node) == [v EXCEPT !.nodes = (node.p :> node.h) @@ @]

(* The top of the stack becomes its parent's only child, or the two of it    *)
(* its children.                                                             *)
Combine(v, children) ==
  LET tip == Len(v.s)
      parent == [v.s[tip - children] EXCEPT !.h =
                   MakeMerkleParent(v.s[tip - children + 1].h,
                                    IF children = 1 THEN <<>> ELSE v.s[tip].h)]
  IN IF parent.h = <<>> THEN Stop(v, "error")
     ELSE Known([v EXCEPT !.s = Append(SubSeq(@, 1, tip - children - 1), parent),
                          !.pos = Sibling(parent.p)], parent)

Push(v, msb) ==
  LET bit == Head(v.flags)
      take == v.pos < msb \/ bit = 0
      node == [p |-> v.pos, h |-> IF take THEN Head(v.hashes) ELSE <<>>]
      next == [v EXCEPT
                !.s = Append(@, node), !.flags = Tail(@),
                !.hashes = IF take THEN Tail(@) ELSE @,
                !.r = IF v.pos < msb /\ bit = 1 THEN Append(@, node.h) ELSE @,
                !.pos = IF v.pos % 2 = 1 /\ take
                        THEN IF v.pos < msb THEN @ ELSE Above(@, msb)
                        ELSE IF take THEN Sibling(@) ELSE FirstChild(@, msb)]
  IN IF take THEN Known(next, node) ELSE next

Turn(m, v) ==
  LET tip == Len(v.s)
      msb == nextPowerOfTwo(m.transactions)
  IN CASE v.out # "running" -> v
       [] v.out = "running" /\ tip = 1 /\ v.s[1].h # <<>> ->
            Stop(v, IF v.s[1].h = m.root THEN "ok" ELSE "error")
       [] OTHER ->
            IF inDeadZone(v.pos, m.transactions)
            THEN IF tip = 0 THEN Stop(v, "panic")
                 ELSE IF v.s[tip].h = <<>> THEN Stop(v, "error") ELSE Combine(v, 1)
            ELSE IF tip > 2 /\ v.s[tip - 1].h # <<>> /\ v.s[tip].h # <<>>
            THEN Combine(v, 2)
            ELSE IF \/ v.hashes = <<>> \/ v.flags = <<>>
                    \/ v.pos < msb /\ v.pos >= m.transactions
            THEN Stop(v, "error")
            ELSE Push(v, msb)

(* Turns no run of the loop needs: two for every node of the full tree.      *)
Turns(m) == [i \in 1 .. 4 * nextPowerOfTwo(m.transactions) + 1 |-> i]

CheckMerkleBlock(m) ==
  LET start == [s |-> <<>>, pos |-> 2 * nextPowerOfTwo(m.transactions) - 2,
                flags |-> m.flags, hashes |-> m.hashes, r |-> <<>>,
                nodes |-> <<>>, out |-> "running"]
  IN IF m.transactions = 0 \/ m.flags = <<>> THEN Stop(start, "error")
     ELSE FoldLeft(LAMBDA v, i : Turn(m, v), start, Turns(m))
-----------------------------------------------------------------------------
(* The branch of one transaction: the hashes beside the way from its leaf to *)
(* the root, and the side they stand on.                                     *)

(* A transaction that is not there is taken for the first one: the error is  *)
(* dropped.                                                                  *)
calcTxIndex(nodes, n, tx) ==
  LET at == {p \in DOMAIN nodes : p <= calcTreeWidth(n, 0) /\ nodes[p] = <<tx>>}
  IN IF at = {} THEN 0 ELSE CHOOSE p \in at : TRUE

calcNodeIndex(n, height, pos) ==
  2 * nextPowerOfTwo(n) - 2 ^ (treeDepth(n) - height + 1) + pos

RouteNoPair(n, txIndex, height) ==
  LET index == txIndex \div 2 ^ height
  IN calcNodeIndex(n, height, IF index % 2 = 0 THEN index + 1 ELSE index - 1)
calcBranchRoute(n, txIndex, height) ==
  LET index == txIndex \div 2 ^ height
      single == index = calcTreeWidth(n, height) - 1 /\ index % 2 = 0
  IN calcNodeIndex(n, height, IF single THEN index
                              ELSE IF index % 2 = 0 THEN index + 1 ELSE index - 1)

GetTxMerkleBranch(m, tx) ==
  LET nodes == CheckMerkleBlock(m).nodes
      n == m.transactions
      route == [h \in 1 .. treeDepth(n) |->
                  calcBranchRoute(n, calcTxIndex(nodes, n, tx), h - 1)]
  IN [h \in DOMAIN route |->
        [hash |-> IF route[h] \in DOMAIN nodes THEN nodes[route[h]] ELSE <<>>,
         left |-> route[h] % 2 = 0]]

(* auxpow.GetMerkleRoot of the main chain (external): up along a branch.     *)
GetMerkleRoot(tx, branch) ==
  FoldLeft(LAMBDA acc, b : IF b.left THEN <<b.hash, acc>> ELSE <<acc, b.hash>>,
           <<tx>>, branch)
=============================================================================
