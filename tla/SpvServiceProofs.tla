--------------------------- MODULE SpvServiceProofs ---------------------------
(* The interface service for every tree of blocks, every set of listeners,   *)
(* transactions and handlers.                                                *)
(*                                                                           *)
(* First, with any number of crashes and failed writes, the notification     *)
(* queue and its index, and where the chain database can be (Sound).  Then,  *)
(* for runs in which no block was given up half way (Orderly), that the      *)
(* queue and what was read of it are of the main chain (OnMain), and that    *)
(* what the blocks spend is found (Followed).  Facts about heights and       *)
(* branches follow from TreeAssumption by the least number principle.        *)
(*                                                                           *)
(* The second half is about the side chain data, with any faults: the lists  *)
(* of positions are sorted (SortedInv) and on disk those of committed        *)
(* batches (TurnsInv); what the caches say is what the database will say     *)
(* once the batch is written (ArbInv for the arbiters, CidInv for the custom *)
(* IDs, fees and deposits), so that queries answer what committed blocks     *)
(* said.  The loops over lists are runs of FoldProofs.                       *)
EXTENDS SpvService, SequenceTheorems, WellFoundedInduction, TLAPS

(* A queue item has a height and the time it was notified.  The height of an *)
(* item survives a change of the time only because of this.                  *)
QueItems == \A k \in DOMAIN que : que[k] = QueItem(que[k].height, que[k].last)

IInv == QueueIndexed /\ QueItems

LEMMA InitIInv == Init => IInv
BY DEF Init, IInv, QueueIndexed, QueItems

(* Putting items keeps the index whole, whether they are new (queBatch.Put)  *)
(* or were there before (que.Put).                                           *)
LEMMA PutItemsIInv ==
  ASSUME NEW items, IInv, PutItems(items),
         \A k \in DOMAIN items : items[k] = QueItem(items[k].height, items[k].last)
  PROVE  IInv'
<1>1. QueueIndexed'
  BY DEF IInv, QueueIndexed, PutItems, Over
<1>2. QueItems'
  BY DEF IInv, QueItems, PutItems, Over
<1> QED BY <1>1, <1>2 DEF IInv

(* que.Del takes away an item and at most its own entry, so those of other   *)
(* items stay.                                                               *)
LEMMA DelIInv ==
  ASSUME NEW k, IInv, Del(k)
  PROVE  IInv'
<1>1. que' = [x \in DOMAIN que \ {k} |-> que[x]]
  BY DEF Del, Without
<1>2. QueueIndexed'
  <2> SUFFICES ASSUME NEW x \in DOMAIN que, x # k
               PROVE  <<que[x].height, x>> \in queIdx'
    BY <1>1 DEF QueueIndexed
  <2>1. <<que[x].height, x>> \in queIdx
    BY DEF IInv, QueueIndexed
  <2>2. <<que[x].height, x>> # <<que[k].height, k>>
    OBVIOUS
  <2> QED BY <2>1, <2>2 DEF Del
<1>3. QueItems'
  BY <1>1 DEF IInv, QueItems
<1> QED BY <1>2, <1>3 DEF IInv

(* queBatch.DelAll goes by the index: what it leaves has another height.     *)
LEMMA DelAllQueIInv ==
  ASSUME NEW n, IInv, DelAllQue(n)
  PROVE  IInv'
<1> DEFINE gone == {e[2] : e \in {x \in queIdx : x[1] = n}}
<1>1. que' = [x \in DOMAIN que \ gone |-> que[x]]
  BY DEF DelAllQue, Without
<1>2. QueueIndexed'
  <2> SUFFICES ASSUME NEW x \in DOMAIN que, x \notin gone
               PROVE  <<que[x].height, x>> \in queIdx'
    BY <1>1 DEF QueueIndexed
  <2>1. <<que[x].height, x>> \in queIdx
    BY DEF IInv, QueueIndexed
  <2>2. que[x].height # n
    BY <2>1
  <2> QED BY <2>1, <2>2 DEF DelAllQue
<1>3. QueItems'
  BY <1>1 DEF IInv, QueItems
<1> QED BY <1>2, <1>3 DEF IInv

(* Every step of the service, its store and the application keeps it: one    *)
(* case per action that touches the queue, one for all the others.           *)
LEMMA NextIInv == IInv /\ [Next]_vars => IInv'
<1> SUFFICES ASSUME IInv, [Next]_vars PROVE IInv'
  OBVIOUS
<1>1. ASSUME UNCHANGED <<que, queIdx>> PROVE IInv'
  BY <1>1 DEF IInv, QueueIndexed, QueItems
<1>2. CASE CommitTxs
  <2> DEFINE items == [k \in DOMAIN batch.que |-> QueItem(batch.que[k], "never")]
  <2>1. PutItems(items)
    BY <1>2 DEF CommitTxs
  <2>2. \A k \in DOMAIN items : items[k] = QueItem(items[k].height, items[k].last)
    BY DEF QueItem
  <2> HIDE DEF items
  <2> QED BY <2>1, <2>2, PutItemsIInv
<1>3. CASE Detach
  <2>1. DelAllQue(Height[job.at])
    BY <1>3 DEF Detach, DelAll
  <2> QED BY <2>1, DelAllQueIInv
<1>4. ASSUME NEW h \in Handler, PutBack(h) PROVE IInv'
  <2> DEFINE items == [k \in {hand[h].item.key} |->
                         QueItem(hand[h].item.height, "recent")]
  <2>1. PutItems(items)
    BY <1>4 DEF PutBack
  <2>2. \A k \in DOMAIN items : items[k] = QueItem(items[k].height, items[k].last)
    BY DEF QueItem
  <2> HIDE DEF items
  <2> QED BY <2>1, <2>2, PutItemsIInv
<1>5. ASSUME NEW h \in Handler, NEW current \in BOOLEAN, NEW item \in Todo(h),
             NotifyTx(h, item, current)
      PROVE  IInv'
  <2>1. UNCHANGED <<que, queIdx>> \/ Del(item.key)
    BY <1>5 DEF NotifyTx
  <2> QED BY <2>1, <1>1, DelIInv
<1>6. ASSUME NEW k \in Key, SubmitTransactionReceipt(k) PROVE IInv'
  BY <1>6, DelIInv DEF SubmitTransactionReceipt
<1>7. ASSUME NEW k \in Key, NotifyTimeout(k) PROVE IInv'
  <2>1. /\ k \in DOMAIN que /\ queIdx' = queIdx
        /\ que' = [que EXCEPT ![k] = [que[k] EXCEPT !.last = "old"]]
    BY <1>7 DEF NotifyTimeout
  <2>2. que[k] = QueItem(que[k].height, que[k].last)
    BY <2>1 DEF IInv, QueItems
  <2>3. que'[k] = QueItem(que[k].height, "old")
    BY <2>1, <2>2 DEF QueItem
  <2>4. \A x \in DOMAIN que' : x \in DOMAIN que /\ que'[x].height = que[x].height
    BY <2>1, <2>3 DEF QueItem
  <2>5. QueueIndexed'
    BY <2>1, <2>4 DEF IInv, QueueIndexed
  <2>6. QueItems'
    BY <2>1, <2>3 DEF IInv, QueItems, QueItem
  <2> QED BY <2>5, <2>6 DEF IInv
<1>8. ASSUME NEW l \in Listener, Register(l) PROVE IInv'
  BY <1>8, <1>1 DEF Register
<1>9. ASSUME NEW b \in Block, NEW h \in Handler, CommitBlock(b, h) PROVE IInv'
  BY <1>9, <1>1 DEF CommitBlock
<1>10. CASE PutTx \/ CommitFails \/ BlockProcessed \/ Query \/ Restart
  BY <1>10, <1>1 DEF PutTx, CommitFails, BlockProcessed, Query, Restart, data
<1>11. ASSUME NEW h \in Handler, GetAll(h) \/ EndNotify(h) PROVE IInv'
  BY <1>11, <1>1 DEF GetAll, EndNotify, data
<1>12. CASE UNCHANGED vars
  BY <1>12, <1>1 DEF vars, data
<1> QED BY <1>2, <1>3, <1>4, <1>5, <1>6, <1>7, <1>8, <1>9, <1>10, <1>11, <1>12
        DEF Next

(* Every item of the notification queue is in the index under its own        *)
(* height, so that the rollback of that height (queBatch.DelAll) finds it:   *)
(* across commits, rollbacks, receipts and items a handler writes back after *)
(* they were deleted (que.Put in BlockCommitted).                            *)
THEOREM QueueAlwaysIndexed == Spec => []QueueIndexed
<1>1. IInv => QueueIndexed
  BY DEF IInv
<1> QED BY InitIInv, NextIInv, <1>1, PTL DEF Spec

-----------------------------------------------------------------------------
(* The tree of blocks.  Induction on the height, by the least block that     *)
(* has not the property.                                                     *)

LEMMA LeastNat ==
  ASSUME NEW S \in SUBSET Nat, S # {}
  PROVE  \E n \in S : \A m \in S : n <= m
<1>1. PICK n \in S : \A m \in S : ~(<<m, n>> \in OpToRel(<, Nat))
  BY NatLessThanWellFounded, WFMin
<1>2. \A m \in S : ~(m < n)
  BY <1>1 DEF OpToRel
<1> QED BY <1>2

LEMMA TreeFacts ==
  /\ Genesis \in Block /\ Height[Genesis] = 0 /\ Branch[Genesis] = {Genesis}
  /\ \A b \in Block : Height[b] \in Nat
  /\ \A b \in Block \ {Genesis} :
       /\ Prev[b] \in Block /\ Height[b] = 1 + Height[Prev[b]]
       /\ Branch[b] = {b} \cup Branch[Prev[b]]
BY TreeAssumption

(* A branch has one block of each height up to its own, each the parent of   *)
(* the next; the part of it up to one of its blocks is that block's branch.  *)
Regular(b) ==
  /\ b \in Branch[b] /\ Genesis \in Branch[b]
  /\ \A x \in Branch[b] : x \in Block /\ Height[x] <= Height[b]
  /\ \A x \in Branch[b] : Branch[x] \subseteq Branch[b]
  /\ \A x, y \in Branch[b] : Height[y] <= Height[x] => y \in Branch[x]
  /\ \A x \in Branch[b] \ {b} : \E y \in Branch[b] \ {Genesis} : Prev[y] = x

LEMMA RegularStep ==
  ASSUME NEW b \in Block, b # Genesis, Regular(Prev[b])
  PROVE  Regular(b)
<1>1. /\ Prev[b] \in Block /\ Height[b] = 1 + Height[Prev[b]]
      /\ Branch[b] = {b} \cup Branch[Prev[b]]
      /\ Height[b] \in Nat /\ Height[Prev[b]] \in Nat
  BY TreeFacts
<1>2. \A x \in Branch[Prev[b]] : Height[x] \in Nat /\ Height[x] < Height[b]
  BY <1>1, TreeFacts DEF Regular
<1>3. b \in Branch[b] /\ Genesis \in Branch[b]
  BY <1>1 DEF Regular
<1>4. \A x \in Branch[b] : x \in Block /\ Height[x] <= Height[b]
  BY <1>1, <1>2 DEF Regular
<1>5. \A x \in Branch[b] : Branch[x] \subseteq Branch[b]
  BY <1>1 DEF Regular
<1>6. \A x, y \in Branch[b] : Height[y] <= Height[x] => y \in Branch[x]
  <2> SUFFICES ASSUME NEW x \in Branch[b], NEW y \in Branch[b], Height[y] <= Height[x]
               PROVE  y \in Branch[x]
    OBVIOUS
  <2>1. CASE x = b
    BY <2>1
  <2>2. CASE x # b
    <3>1. x \in Branch[Prev[b]] /\ y # b
      BY <1>1, <1>2, <2>2
    <3> QED BY <1>1, <3>1 DEF Regular
  <2> QED BY <2>1, <2>2
<1>7. \A x \in Branch[b] \ {b} : \E y \in Branch[b] \ {Genesis} : Prev[y] = x
  <2> SUFFICES ASSUME NEW x \in Branch[b] \ {b}
               PROVE  \E y \in Branch[b] \ {Genesis} : Prev[y] = x
    OBVIOUS
  <2>1. CASE x = Prev[b]
    BY <1>3, <2>1
  <2>2. CASE x # Prev[b]
    BY <1>1, <2>2 DEF Regular
  <2> QED BY <2>1, <2>2
<1> QED BY <1>3, <1>4, <1>5, <1>6, <1>7 DEF Regular

LEMMA AllRegular == \A b \in Block : Regular(b)
<1> DEFINE Bad == {n \in Nat : \E b \in Block : Height[b] = n /\ ~Regular(b)}
<1>1. Regular(Genesis)
  BY TreeFacts DEF Regular
<1>2. Bad = {}
  <2> SUFFICES ASSUME Bad # {} PROVE FALSE
    OBVIOUS
  <2>1. PICK n \in Bad : \A m \in Bad : n <= m
    BY LeastNat
  <2>2. PICK b \in Block : Height[b] = n /\ ~Regular(b)
    BY <2>1
  <2>3. b # Genesis
    BY <1>1, <2>2
  <2>4. Prev[b] \in Block /\ Height[Prev[b]] \in Nat /\ Height[b] = 1 + Height[Prev[b]]
    BY <2>3, TreeFacts
  <2>5. Regular(Prev[b])
    BY <2>1, <2>2, <2>4
  <2> QED BY <2>2, <2>3, <2>5, RegularStep
<1> QED BY <1>2, TreeFacts

LEMMA BranchFacts ==
  ASSUME NEW b \in Block
  PROVE  /\ b \in Branch[b] /\ Branch[b] \subseteq Block
         /\ \A x \in Branch[b] : /\ Height[x] \in Nat /\ Height[x] <= Height[b]
                                 /\ Branch[x] \subseteq Branch[b]
                                 /\ x # Genesis => Prev[x] \in Branch[b]
         /\ \A x, y \in Branch[b] : Height[x] = Height[y] => x = y
         /\ \A x, y \in Branch[b] : Height[y] <= Height[x] => y \in Branch[x]
<1>1. Regular(b) /\ \A x \in Branch[b] : Regular(x)
  BY AllRegular DEF Regular
<1>2. \A x \in Branch[b] : Height[x] \in Nat
  BY <1>1, TreeFacts DEF Regular
<1>3. ASSUME NEW x \in Branch[b], x # Genesis PROVE Prev[x] \in Branch[b]
  <2>1. x \in Block
    BY <1>1 DEF Regular
  <2>2. Prev[x] \in Block /\ Branch[x] = {x} \cup Branch[Prev[x]]
    BY <1>3, <2>1, TreeFacts
  <2>3. Prev[x] \in Branch[Prev[x]]
    BY <2>2, AllRegular DEF Regular
  <2> QED BY <1>1, <2>2, <2>3 DEF Regular
<1>4. ASSUME NEW x \in Branch[b], NEW y \in Branch[b], Height[x] = Height[y]
      PROVE  x = y
  <2>1. x \in Block /\ y \in Branch[x]
    BY <1>1, <1>2, <1>4 DEF Regular
  <2>2. CASE x = Genesis
    BY <2>1, <2>2, TreeFacts
  <2>3. CASE x # Genesis
    <3>1. /\ Prev[x] \in Block /\ Branch[x] = {x} \cup Branch[Prev[x]]
          /\ Height[x] = 1 + Height[Prev[x]] /\ Height[Prev[x]] \in Nat
      BY <2>1, <2>3, TreeFacts
    <3>2. y \in Branch[Prev[x]] => Height[y] <= Height[Prev[x]]
      BY <3>1, AllRegular DEF Regular
    <3> QED BY <1>2, <1>4, <2>1, <3>1, <3>2
  <2> QED BY <2>2, <2>3
<1> QED BY <1>1, <1>2, <1>3, <1>4 DEF Regular

(* Where a reorganisation begins to connect: the block two branches part at. *)
LEMMA AncestorFacts ==
  ASSUME NEW a \in Block, NEW b \in Block
  PROVE  /\ Ancestor(a, b) \in Branch[a] /\ Ancestor(a, b) \in Branch[b]
         /\ \A y \in Branch[a] : y \in Branch[b] <=> Height[y] <= Height[Ancestor(a, b)]
<1> DEFINE Both == Branch[a] \cap Branch[b]
           Room == {n \in Nat : \E x \in Both : n = Height[a] - Height[x]}
           c == Ancestor(a, b)
<1>1. Genesis \in Both
  BY AllRegular DEF Regular
<1>2. \A x \in Both : Height[x] \in Nat /\ Height[x] <= Height[a]
  BY BranchFacts
<1>3. Height[a] \in Nat
  BY TreeFacts
<1>4. Height[a] - Height[Genesis] \in Room
  BY <1>1, <1>2, <1>3
<1>5. PICK n \in Room : \A m \in Room : n <= m
  BY <1>4, LeastNat
<1>6. PICK x \in Both : n = Height[a] - Height[x]
  BY <1>5
<1>7. \A y \in Both : Height[y] <= Height[x]
  <2> SUFFICES ASSUME NEW y \in Both PROVE Height[y] <= Height[x]
    OBVIOUS
  <2>1. Height[a] - Height[y] \in Room
    BY <1>2, <1>3
  <2> QED BY <1>2, <1>3, <1>5, <1>6, <2>1
<1>8. c \in Both /\ \A y \in Both : Height[y] <= Height[c]
  BY <1>7 DEF Ancestor
<1>9. \A y \in Branch[a] : Height[y] <= Height[c] => y \in Branch[b]
  <2> SUFFICES ASSUME NEW y \in Branch[a], Height[y] <= Height[c] PROVE y \in Branch[b]
    OBVIOUS
  <2> HIDE DEF c
  <2>1. y \in Branch[c]
    BY <1>8, BranchFacts
  <2> QED BY <1>8, <2>1, BranchFacts
<1> QED BY <1>8, <1>9

(* The next block up a branch.                                               *)
LEMMA ChildFacts ==
  ASSUME NEW b \in Block, NEW a \in Branch[b], a # b
  PROVE  /\ ChildToward(a, b) \in Branch[b] /\ ChildToward(a, b) # Genesis
         /\ Prev[ChildToward(a, b)] = a
         /\ Height[ChildToward(a, b)] = 1 + Height[a]
<1> DEFINE c == ChildToward(a, b)
<1>1. \E x \in Branch[b] \ {Genesis} : Prev[x] = a
  BY AllRegular DEF Regular
<1>2. c \in Branch[b] \ {Genesis} /\ Prev[c] = a
  BY <1>1 DEF ChildToward
<1> HIDE DEF c
<1>3. c \in Block
  BY <1>2, BranchFacts
<1>4. Height[c] = 1 + Height[a]
  BY <1>2, <1>3, TreeFacts
<1> QED BY <1>2, <1>4 DEF c

-----------------------------------------------------------------------------
(* What holds between the steps of a block.                                  *)

Job ==
  {Idle} \cup [op : {"done"}, for : Handler]
    \cup [op : {"put"}, at : Block, list : Seq(Hash), left : Seq(Hash),
          for : Handler, old : Block]
    \cup [op : {"detach"}, at : Block, for : Handler, old : Block]

(* The header store: the tip is the highest header, every header has those   *)
(* below it, the index names a header of the height.  There never is a list  *)
(* of hashes by height, and a fork block is filed with its transactions or,  *)
(* when it was on the main chain, with none.                                 *)
Stores ==
  /\ stored \subseteq Block /\ tip \in stored /\ Genesis \in stored
  /\ \A b \in stored : Height[b] <= Height[tip] /\ Branch[b] \subseteq stored
  /\ \A n \in DOMAIN index : index[n] \in stored /\ Height[index[n]] = n
  /\ \A n \in 0 .. MaxHeight : n \in DOMAIN heightTxs /\ heightTxs[n] = <<>>
  /\ \A b \in DOMAIN fork : fork[b] \in {BlockTxs[b], <<>>}

(* Where the chain database is, and what it has collected.                   *)
Moves ==
  /\ job \in Job
  /\ job.op # "put" => batch = NoBatch
  /\ {"txs", "ops", "que", "ids"} \subseteq DOMAIN batch
  /\ job.op \in {"put", "detach"} =>
       /\ tip # Genesis /\ job.old \in stored /\ Height[tip] = 1 + Height[job.old]
  /\ job.op = "put" =>
       /\ job.at \in Branch[tip] /\ job.at # Genesis
       /\ \A i \in DOMAIN job.left : InBlock(job.left[i], job.at)
       /\ \A k \in DOMAIN batch.que :
            InBlock(k[2], job.at) /\ batch.que[k] = Height[job.at]
  /\ job.op = "detach" =>
       /\ job.at \in Branch[job.old] /\ job.old # Prev[tip]
       /\ Height[Ancestor(job.old, tip)] < Height[job.at]

(* The handlers, and the one that waits for the block being processed.       *)
HandOK(v, top) ==
  /\ "pc" \in DOMAIN v /\ v.pc \in {"idle", "wait", "committed", "scan", "put"}
  /\ v.pc # "idle" =>
       "height" \in DOMAIN v /\ v.height \in Nat /\ v.height <= top
  /\ v.pc \in {"scan", "put"} =>
       /\ "todo" \in DOMAIN v /\ "stale" \in DOMAIN v
       /\ \A item \in v.todo : item.height \in Nat
  /\ v.pc = "put" =>
       "item" \in DOMAIN v /\ "proof" \in DOMAIN v /\ v.item.height \in Nat
Hands ==
  /\ \A h \in Handler : h \in DOMAIN hand /\ HandOK(hand[h], Height[tip])
  /\ job.op # "idle" => hand[job.for].pc = "wait"
  /\ \A k \in DOMAIN que : que[k].height \in Nat

Sound == Stores /\ Moves /\ Hands

(* The transaction is in a block of that height of the branch of a block.    *)
OnBranch(t, n, a) == \E b \in Branch[a] : Height[b] = n /\ InBlock(t, b)

(* Heights whose queue items may still be those of the old branch: all of    *)
(* them until the new tip has been put, then those not yet detached.         *)
Leaving(n, j, top) ==
  \/ j.op = "put" /\ j.at = top /\ j.old # Prev[top]
  \/ j.op = "detach" /\ n <= Height[j.at]

(* Items are of transactions of the main chain, except those a               *)
(* reorganisation has not come to yet; so are those a handler has read       *)
(* outside of one.                                                           *)
ItemsOnMain ==
  \A k \in DOMAIN que :
    \/ OnBranch(k[2], que[k].height, tip)
    \/ Leaving(que[k].height, job, tip) /\ OnBranch(k[2], que[k].height, job.old)
ReadOK(v, top, headers) ==
  /\ v.pc \in {"scan", "put"} /\ ~v.stale =>
       \A item \in v.todo : OnBranch(item.key[2], item.height, top)
  /\ v.pc = "put" =>
       /\ ~v.stale => OnBranch(v.item.key[2], v.item.height, top)
       /\ Ripe(v.item.key[1], v.item.key[2], v.height, v.item.height)
       /\ v.proof \in headers /\ Height[v.proof] = v.item.height
ReadOnMain == \A h \in Handler : ReadOK(hand[h], tip, stored)
OnMain == ItemsOnMain /\ ReadOnMain

(* The watched outputs of a transaction are among the outpoints S.  A block  *)
(* has been put in full: its outputs are known, and what it spends of the    *)
(* blocks below it was noticed, unless it came before them.                  *)
Has(list, t) == \E i \in DOMAIN list : list[i] = t
OutsIn(s, S, W) ==
  \A o \in DOMAIN Tx[s].outs : Tx[s].outs[o] \in W => <<s, o>> \in S
Noticed(b) ==
  \A c \in Branch[b] \ {b, Genesis} : \A t, s \in Hash :
    InBlock(t, b) /\ InBlock(s, c) /\ SpendsWatched(t, s) => t \in DOMAIN txs
PutInFull(b) ==
  b # Genesis =>
    /\ \A s \in Hash : InBlock(s, b) => OutsIn(s, DOMAIN ops, watchDB)
    /\ b \notin late => Noticed(b)

(* Blocks that wait to be connected: those off the main chain, and those a   *)
(* reorganisation has not come to; and blocks that one has detached.         *)
Pending(c, j, top) ==
  IF j.op = "detach" \/ (j.op = "put" /\ j.at = top)
  THEN c # top /\ c \notin Branch[j.old]
  ELSE \/ c \notin Branch[top]
       \/ j.op = "put" /\ c # top /\ Height[c] >= Height[j.at]
Detached(c, j) == j.op = "detach" /\ c \in Branch[j.old] /\ Height[c] > Height[j.at]

(* The filters on disk are those in memory, and are complete before the      *)
(* first block.                                                              *)
Watched ==
  /\ watch = watchDB
  /\ listeners # Listener => stored = {Genesis} /\ job = Idle

(* Every block has been put in full, waits with all its transactions, or is  *)
(* the one being put; the transactions of a block that waits are found.      *)
Filed ==
  \A c \in stored :
    \/ PutInFull(c)
    \/ c \in DOMAIN fork /\ fork[c] = BlockTxs[c] /\ Pending(c, job, tip)
    \/ job.op = "put" /\ job.at = tip /\ c = tip
Found ==
  \A c \in stored : Pending(c, job, tip) \/ Detached(c, job) => c \in DOMAIN fork

(* What the batch has of the block being put.                                *)
Collected ==
  job.op = "put" =>
    /\ \A b \in Block : job.at = b => job.list = BlockTxs[b] \/ PutInFull(b)
    /\ \A t \in Hash : Has(job.list, t) =>
         \/ Has(job.left, t)
         \/ /\ OutsIn(t, DOMAIN batch.ops, watchDB)
            /\ Tx[t].ins \cap DOMAIN ops # {} => t \in DOMAIN batch.txs
Early == job.op \in {"put", "detach"} /\ job.old # Prev[tip] => tip \in late

Followed == Watched /\ Filed /\ Found /\ Collected /\ Early

-----------------------------------------------------------------------------
(* Types and positions.                                                      *)

LEMMA JobFields ==
  ASSUME job \in Job
  PROVE  /\ job.op \in {"idle", "done", "put", "detach"}
         /\ job.op = "idle" <=> job = Idle
         /\ job.op # "idle" => job.for \in Handler
         /\ job.op \in {"put", "detach"} => job.at \in Block /\ job.old \in Block
         /\ job.op = "put" =>
              job \in [op : {"put"}, at : Block, list : Seq(Hash), left : Seq(Hash),
                       for : Handler, old : Block]
         /\ job.op = "detach" =>
              job \in [op : {"detach"}, at : Block, for : Handler, old : Block]
BY DEF Job, Idle

(* A step is a fault or not, and what went wrong stays.                      *)
LEMMA FaultsStep ==
  ASSUME [Next]_vars
  PROVE  /\ faults' \in {faults, faults + 1} /\ wrong \subseteq wrong'
         /\ CommitFails \/ Restart => faults' = faults + 1
<1> DEFINE Stays == faults' \in {faults, faults + 1} /\ wrong \subseteq wrong'
<1>1. CommitFails \/ Restart => faults' = faults + 1
  BY DEF CommitFails, Restart
<1>2. ASSUME NEW b \in Block, NEW h \in Handler, CommitBlock(b, h) PROVE Stays
  BY <1>2 DEF CommitBlock
<1>3. ASSUME PutTx PROVE Stays
  BY <1>3 DEF PutTx, past
<1>4. ASSUME CommitTxs \/ CommitFails PROVE Stays
  BY <1>4 DEF CommitTxs, CommitFails, past
<1>5. ASSUME Detach \/ BlockProcessed PROVE Stays
  BY <1>5 DEF Detach, BlockProcessed, past
<1>6. ASSUME NEW h \in Handler, GetAll(h) \/ PutBack(h) \/ EndNotify(h) PROVE Stays
  BY <1>6 DEF GetAll, PutBack, EndNotify, past
<1>7. ASSUME NEW h \in Handler, NEW current, NEW item, NotifyTx(h, item, current)
      PROVE  Stays
  BY <1>7 DEF NotifyTx, past
<1>8. ASSUME NEW k \in Key, SubmitTransactionReceipt(k) \/ NotifyTimeout(k) PROVE Stays
  BY <1>8 DEF SubmitTransactionReceipt, NotifyTimeout, past
<1>9. ASSUME Query \/ Restart PROVE Stays
  BY <1>9 DEF Query, Restart, past
<1>10. ASSUME NEW l \in Listener, Register(l) PROVE Stays
  BY <1>10 DEF Register, past
<1>11. ASSUME UNCHANGED vars PROVE Stays
  BY <1>11 DEF vars, past
<1> QED
  BY <1>1, <1>2, <1>3, <1>4, <1>5, <1>6, <1>7, <1>8, <1>9, <1>10, <1>11 DEF Next

(* In an orderly run a step was orderly before, too.                         *)
LEMMA WasOrderly ==
  ASSUME faults \in Nat, [Next]_vars, Orderly'
  PROVE  /\ Orderly /\ faults' \in Nat /\ wrong \subseteq wrong'
         /\ ~CommitFails /\ ~Restart
BY FaultsStep DEF Orderly

LEMMA InitSound == Init => Sound
<1> SUFFICES ASSUME Init PROVE Sound
  OBVIOUS
<1>1. DOMAIN index = {0} /\ index[0] = Genesis
  BY DEF Init, Row
<1>2. Stores
  BY <1>1, TreeFacts DEF Init, Stores
<1>3. Moves
  BY DEF Init, Moves, Job, Idle, NoBatch
<1>4. Hands
  BY <1>2 DEF Init, Hands, HandOK, Idle, Resting
<1> QED BY <1>2, <1>3, <1>4 DEF Sound

(* Steps that leave the chain and the chain database's operation alone.      *)
LEMMA SoundFrame ==
  ASSUME Sound, UNCHANGED <<chain, heightTxs, fork, job, batch>>, Hands'
  PROVE  Sound'
BY DEF Sound, Stores, Moves, chain

(* A block arrives.                                                          *)
LEMMA TipRises ==
  ASSUME Sound, NEW b \in Block \ {Genesis}, b \notin stored, Prev[b] \in stored,
         Height[b] > Height[tip]
  PROVE  /\ Height[b] = 1 + Height[tip] /\ tip \in Block
         /\ Height[tip] \in Nat /\ Branch[b] = {b} \cup Branch[Prev[b]]
         /\ b \in Branch[b]
BY TreeFacts DEF Sound, Stores

LEMMA CommitBlockStores ==
  ASSUME Sound, NEW b \in Block \ {Genesis}, NEW h \in Handler, CommitBlock(b, h)
  PROVE  Stores'
<1>1. /\ stored' = stored \cup {b} /\ b \notin stored /\ Prev[b] \in stored
      /\ index' = Over(Row(Height[b], b), index)
      /\ UNCHANGED heightTxs
      /\ \/ Height[b] > Height[tip] /\ tip' = b /\ UNCHANGED fork
         \/ Height[b] <= Height[tip] /\ tip' = tip /\ PutForkTxs(b, BlockTxs[b])
  BY DEF CommitBlock, PutHeader
<1>2. Stores /\ \A x \in stored : x \in Block /\ Height[x] \in Nat
  BY TreeFacts DEF Sound, Stores
<1>3. Height[b] \in Nat /\ Branch[b] = {b} \cup Branch[Prev[b]]
  BY TreeFacts
<1>4. /\ stored' \subseteq Block /\ tip' \in stored' /\ Genesis \in stored'
      /\ \A x \in stored' : Height[x] <= Height[tip'] /\ Branch[x] \subseteq stored'
  BY <1>1, <1>2, <1>3 DEF Stores
<1>5. \A n \in DOMAIN index' : index'[n] \in stored' /\ Height[index'[n]] = n
  BY <1>1, <1>2 DEF Stores, Over, Row
<1>6. \A x \in DOMAIN fork' : fork'[x] \in {BlockTxs[x], <<>>}
  BY <1>1, <1>2 DEF Stores, PutForkTxs, Over, Row
<1> QED BY <1>1, <1>2, <1>4, <1>5, <1>6 DEF Stores

(* Handlers that have read the queue only lose their claim to be up to date. *)
LEMMA OutdateKeeps ==
  ASSUME NEW hs, NEW g \in Handler,
         hs[g].pc \in {"scan", "put"} => "stale" \in DOMAIN hs[g]
  PROVE  /\ g \in DOMAIN Outdate(hs)
         /\ DOMAIN Outdate(hs)[g] = DOMAIN hs[g]
         /\ \A f \in DOMAIN hs[g] : f # "stale" => Outdate(hs)[g][f] = hs[g][f]
         /\ hs[g].pc \in {"scan", "put"} => Outdate(hs)[g].stale = TRUE
         /\ hs[g].pc \notin {"scan", "put"} => Outdate(hs)[g] = hs[g]
BY DEF Outdate

LEMMA CommitBlockSound ==
  ASSUME Sound, NEW b \in Block \ {Genesis}, NEW h \in Handler, CommitBlock(b, h)
  PROVE  Sound'
<1> DEFINE hs == [hand EXCEPT ![h] = [pc |-> "wait", height |-> Height[b]]]
<1>1. /\ job = Idle /\ hand[h] = Resting /\ batch' = batch /\ que' = que
      /\ b \notin stored /\ Prev[b] \in stored
      /\ \/ /\ Height[b] > Height[tip] /\ tip' = b
            /\ job' = PutJob(b, BlockTxs[b], [for |-> h, old |-> tip])
            /\ hand' = IF Reorg(b) THEN Outdate(hs) ELSE hs
         \/ /\ Height[b] <= Height[tip] /\ tip' = tip
            /\ job' = Done([for |-> h]) /\ hand' = hs
  BY DEF CommitBlock
<1>2. Stores'
  BY CommitBlockStores
<1>3. Moves /\ Hands /\ batch = NoBatch
  BY <1>1 DEF Sound, Moves, Idle
<1>4. Height[b] \in Nat /\ tip \in Block /\ Height[tip] \in Nat /\ Height[b] <= Height[tip']
      /\ Height[tip] <= Height[tip'] /\ tip \in stored'
  BY <1>1, <1>2, TreeFacts DEF Sound, Stores, CommitBlock, PutHeader
<1>5. Moves'
  <2>1. CASE Height[b] > Height[tip]
    <3>1. /\ Height[b] = 1 + Height[tip] /\ b \in Branch[b]
      BY <1>1, <2>1, TipRises
    <3>2. job' = [op |-> "put", at |-> b, list |-> BlockTxs[b], left |-> BlockTxs[b],
                  for |-> h, old |-> tip] /\ tip' = b
      BY <1>1, <1>4, <2>1 DEF PutJob
    <3>3. BlockTxs[b] \in Seq(Hash)
      BY SpvAssumption DEF Hash
    <3>4. job' \in Job /\ job'.op = "put" /\ job'.at = b /\ job'.old = tip
          /\ job'.left = BlockTxs[b]
      BY <1>4, <3>2, <3>3 DEF Job
    <3>5. \A i \in DOMAIN job'.left : InBlock(job'.left[i], job'.at)
      BY <3>4 DEF InBlock
    <3> QED BY <1>1, <1>3, <1>4, <3>1, <3>2, <3>4, <3>5 DEF Moves, NoBatch
  <2>2. CASE Height[b] <= Height[tip]
    <3>1. job' = [op |-> "done", for |-> h]
      BY <1>1, <1>4, <2>2 DEF Done
    <3>2. job' \in Job /\ job'.op = "done"
      BY <3>1 DEF Job
    <3> QED BY <1>1, <1>3, <3>2 DEF Moves, NoBatch
  <2> QED BY <1>1, <2>1, <2>2
<1>6. ASSUME NEW g \in Handler
      PROVE  g \in DOMAIN hs /\ HandOK(hs[g], Height[tip'])
  <2>1. CASE g = h
    BY <1>3, <1>4, <2>1 DEF Hands, HandOK
  <2>2. CASE g # h
    <3>1. g \in DOMAIN hand
      BY <1>3 DEF Hands
    <3>2. g \in DOMAIN hs /\ hs[g] = hand[g]
      BY <2>2, <3>1
    <3> HIDE DEF hs
    <3>3. HandOK(hand[g], Height[tip])
      BY <1>3 DEF Hands
    <3>4. Height[tip'] \in Nat
      BY <1>1, <1>4
    <3> QED BY <1>4, <3>2, <3>3, <3>4 DEF HandOK
  <2> QED BY <2>1, <2>2
<1>7. h \in DOMAIN hand
  BY <1>3 DEF Hands
<1>8. hs[h].pc = "wait"
  BY <1>7
<1> HIDE DEF hs
<1>9. hand' = hs \/ hand' = Outdate(hs)
  BY <1>1
<1>10. \A g \in Handler :
         /\ g \in DOMAIN hand'
         /\ DOMAIN hand'[g] = DOMAIN hs[g]
         /\ \A f \in DOMAIN hs[g] : f # "stale" => hand'[g][f] = hs[g][f]
  <2>1. CASE hand' = hs
    BY <1>6, <2>1
  <2>2. CASE hand' = Outdate(hs)
    <3>1. ASSUME NEW g \in Handler
          PROVE  /\ g \in DOMAIN Outdate(hs)
                 /\ DOMAIN Outdate(hs)[g] = DOMAIN hs[g]
                 /\ \A f \in DOMAIN hs[g] : f # "stale" => Outdate(hs)[g][f] = hs[g][f]
      <4>1. hs[g].pc \in {"scan", "put"} => "stale" \in DOMAIN hs[g]
        BY <1>6 DEF HandOK
      <4> QED BY <4>1, OutdateKeeps
    <3> QED BY <2>2, <3>1
  <2> QED BY <1>9, <2>1, <2>2
<1>11. job'.for = h
  BY <1>1 DEF PutJob, Done
<1>12. Hands'
  <2>1. ASSUME NEW g \in Handler PROVE HandOK(hand'[g], Height[tip'])
    BY <1>6, <1>10 DEF HandOK
  <2>2. hand'[h].pc = "wait"
    BY <1>6, <1>8, <1>10 DEF HandOK
  <2> QED BY <1>1, <1>3, <1>10, <1>11, <2>1, <2>2 DEF Hands
<1> QED BY <1>2, <1>5, <1>12 DEF Sound

(* A handler takes a step of BlockCommitted.                                 *)
LEMMA HandSound ==
  ASSUME Sound, NEW h \in Handler, hand[h].pc # "wait", NEW v,
         HandOK(v, Height[tip]), hand' = [hand EXCEPT ![h] = v],
         UNCHANGED <<chain, heightTxs, fork, job, batch>>,
         \A k \in DOMAIN que' : que'[k].height \in Nat
  PROVE  Sound'
<1>1. Hands
  BY DEF Sound
<1>2. \A g \in Handler : g \in DOMAIN hand' /\ hand'[g] = IF g = h THEN v ELSE hand[g]
  BY <1>1 DEF Hands
<1>3. tip' = tip /\ job' = job
  BY DEF chain
<1>4. \A g \in Handler : HandOK(hand'[g], Height[tip'])
  BY <1>1, <1>2, <1>3 DEF Hands
<1>5. job.op # "idle" => job.for \in Handler
  BY JobFields DEF Sound, Moves
<1>6. job.op # "idle" => hand'[job.for].pc = "wait"
  BY <1>1, <1>2, <1>5 DEF Hands
<1>7. Hands'
  BY <1>2, <1>3, <1>4, <1>6 DEF Hands
<1> QED BY <1>7, SoundFrame

(* que.Del and que.Put keep the heights.                                     *)
LEMMA DelHeights ==
  ASSUME NEW k, Del(k), \A x \in DOMAIN que : que[x].height \in Nat
  PROVE  \A x \in DOMAIN que' : que'[x].height \in Nat
BY DEF Del, Without

LEMMA PutHeights ==
  ASSUME NEW items, PutItems(items), \A x \in DOMAIN que : que[x].height \in Nat,
         \A x \in DOMAIN items : items[x].height \in Nat
  PROVE  \A x \in DOMAIN que' : que'[x].height \in Nat
BY DEF PutItems, Over

LEMMA HandlerStepSound ==
  ASSUME Sound, NEW h \in Handler,
         \/ GetAll(h) \/ PutBack(h) \/ EndNotify(h)
         \/ \E current \in BOOLEAN, item \in Todo(h) : NotifyTx(h, item, current)
  PROVE  Sound'
<1>1. /\ HandOK(hand[h], Height[tip])
      /\ \A k \in DOMAIN que : que[k].height \in Nat
  BY DEF Sound, Hands
<1>2. CASE GetAll(h)
  <2> DEFINE v == [pc |-> "scan", height |-> hand[h].height, todo |-> Snapshot,
                   stale |-> Reorganising]
  <2>1. hand' = [hand EXCEPT ![h] = v] /\ hand[h].pc = "committed"
    BY <1>2 DEF GetAll
  <2>2. \A item \in Snapshot : item.height \in Nat
    BY <1>1 DEF Snapshot
  <2>3. HandOK(v, Height[tip])
    BY <1>1, <2>1, <2>2 DEF HandOK
  <2> HIDE DEF v
  <2> QED BY <1>1, <1>2, <2>1, <2>3, HandSound DEF GetAll, data
<1>3. CASE PutBack(h)
  <2> DEFINE v == [pc |-> "scan", height |-> hand[h].height, todo |-> hand[h].todo,
                   stale |-> hand[h].stale]
             items == [k \in {hand[h].item.key} |->
                         QueItem(hand[h].item.height, "recent")]
  <2>1. hand' = [hand EXCEPT ![h] = v] /\ hand[h].pc = "put" /\ PutItems(items)
    BY <1>3 DEF PutBack
  <2>2. HandOK(v, Height[tip])
    BY <1>1, <2>1 DEF HandOK
  <2>3. \A k \in DOMAIN items : items[k].height \in Nat
    BY <1>1, <2>1 DEF HandOK, QueItem
  <2> HIDE DEF v, items
  <2>4. \A k \in DOMAIN que' : que'[k].height \in Nat
    BY <1>1, <2>1, <2>3, PutHeights
  <2> QED BY <1>3, <2>1, <2>2, <2>4, HandSound DEF PutBack
<1>4. CASE EndNotify(h)
  <2>1. HandOK(Resting, Height[tip])
    BY DEF HandOK, Resting
  <2> QED BY <1>1, <1>4, <2>1, HandSound DEF EndNotify, data
<1>5. ASSUME NEW current \in BOOLEAN, NEW item \in Todo(h), NotifyTx(h, item, current)
      PROVE  Sound'
  <2> DEFINE rest == [hand[h] EXCEPT !.todo = @ \ {item}]
             v == [pc |-> "put", height |-> hand[h].height, todo |-> rest.todo,
                   stale |-> hand[h].stale, item |-> item,
                   proof |-> HeaderAt(item.height)]
  <2>1. hand[h].pc = "scan" /\ item \in hand[h].todo
    BY <1>5 DEF Todo
  <2>2. item.height \in Nat
    BY <1>1, <2>1 DEF HandOK
  <2>3. rest.todo \subseteq hand[h].todo
    BY <1>1, <2>1 DEF HandOK
  <2>4. HandOK(rest, Height[tip])
    BY <1>1, <2>1 DEF HandOK
  <2>5. HandOK(v, Height[tip])
    BY <1>1, <2>1, <2>2, <2>3 DEF HandOK
  <2>6. hand' = [hand EXCEPT ![h] = rest] \/ hand' = [hand EXCEPT ![h] = v]
    BY <1>5 DEF NotifyTx
  <2> HIDE DEF rest, v
  <2>7. que' = que \/ Del(item.key)
    BY <1>5 DEF NotifyTx
  <2>8. \A k \in DOMAIN que' : que'[k].height \in Nat
    BY <1>1, <2>7, DelHeights
  <2>9. UNCHANGED <<chain, heightTxs, fork, job, batch>>
    BY <1>5 DEF NotifyTx
  <2> QED BY <2>1, <2>4, <2>5, <2>6, <2>8, <2>9, HandSound
<1> QED BY <1>2, <1>3, <1>4, <1>5

(* The application and the clock.                                            *)
LEMMA OutsideSound ==
  ASSUME Sound, QueItems,
         \/ \E l \in Listener : Register(l)
         \/ \E k \in Key : SubmitTransactionReceipt(k) \/ NotifyTimeout(k)
         \/ Query \/ UNCHANGED vars
  PROVE  Sound'
<1>1. Hands
  BY DEF Sound
<1>2. ASSUME UNCHANGED <<chain, heightTxs, fork, job, batch, hand>>,
             \A k \in DOMAIN que' : que'[k].height \in Nat
      PROVE  Sound'
  <2>1. Hands'
    BY <1>1, <1>2 DEF Hands, chain
  <2> QED BY <1>2, <2>1, SoundFrame
<1>3. \A k \in DOMAIN que : que[k].height \in Nat
  BY <1>1 DEF Hands
<1>4. ASSUME NEW l \in Listener, Register(l) PROVE Sound'
  BY <1>2, <1>3, <1>4 DEF Register
<1>5. ASSUME NEW k \in Key, SubmitTransactionReceipt(k) PROVE Sound'
  BY <1>2, <1>3, <1>5, DelHeights DEF SubmitTransactionReceipt
<1>6. ASSUME NEW k \in Key, NotifyTimeout(k) PROVE Sound'
  <2>1. que' = [que EXCEPT ![k] = [que[k] EXCEPT !.last = "old"]]
    BY <1>6 DEF NotifyTimeout
  <2>2. \A x \in DOMAIN que' : x \in DOMAIN que
    BY <2>1
  <2>3. \A x \in DOMAIN que' : que'[x].height = que[x].height
    <3> SUFFICES ASSUME NEW x \in DOMAIN que' PROVE que'[x].height = que[x].height
      OBVIOUS
    <3>1. x # k => que'[x] = que[x]
      BY <2>1
    <3>2. que[k] = QueItem(que[k].height, que[k].last)
      BY <1>6 DEF NotifyTimeout, QueItems
    <3>3. que'[k].height = que[k].height
      BY <1>6, <2>1, <3>2 DEF NotifyTimeout, QueItem
    <3> QED BY <3>1, <3>3
  <2> QED BY <1>2, <1>3, <1>6, <2>2, <2>3 DEF NotifyTimeout
<1>7. CASE Query \/ UNCHANGED vars
  BY <1>2, <1>3, <1>7 DEF Query, vars, data, chain
<1> QED BY <1>4, <1>5, <1>6, <1>7

(* The chain database.                                                       *)

(* It goes on with the next block up the new branch, which has been filed,   *)
(* or stops: at the tip, or at a block that was not filed.                   *)
LEMMA ConnectFacts ==
  ASSUME Sound, job.op \in {"put", "detach"}, NEW a \in Branch[tip], a # tip
  PROVE  LET b == ChildToward(a, tip)
             j == Connect(b, job)
         IN /\ b \in Branch[tip] /\ b \in Block /\ b # Genesis
            /\ Height[b] = 1 + Height[a] /\ Height[a] \in Nat
            /\ \/ /\ j = [op |-> "done", for |-> job.for]
                  /\ b = tip \/ b \notin DOMAIN fork
               \/ /\ b # tip /\ b \in DOMAIN fork
                  /\ j = [op |-> "put", at |-> b, list |-> fork[b], left |-> fork[b],
                          for |-> job.for, old |-> job.old]
<1> DEFINE b == ChildToward(a, tip)
<1>1. tip \in Block /\ \A x \in DOMAIN fork : fork[x] \in {BlockTxs[x], <<>>}
  BY DEF Sound, Stores
<1>2. b \in Branch[tip] /\ b # Genesis /\ Height[b] = 1 + Height[a]
  BY <1>1, ChildFacts
<1>3. b \in Block /\ Height[a] \in Nat
  BY <1>1, <1>2, BranchFacts
<1> HIDE DEF b
<1>4. b \in DOMAIN fork => fork[b] # Error
  BY <1>1, <1>3, SpvAssumption
<1>5. CASE b = tip \/ b \notin DOMAIN fork
  BY <1>2, <1>3, <1>5 DEF b, Connect, GetForkTxs, Done
<1>6. CASE b # tip /\ b \in DOMAIN fork
  BY <1>2, <1>3, <1>4, <1>6 DEF b, Connect, GetForkTxs, PutJob
<1> QED BY <1>5, <1>6

(* The position it goes on to is sound.                                      *)
LEMMA GoOnSound ==
  ASSUME Sound, job.op \in {"put", "detach"}, NEW a \in Branch[tip], a # tip,
         job' = Connect(ChildToward(a, tip), job), batch' = NoBatch,
         UNCHANGED chain
  PROVE  Moves' /\ job'.for = job.for
<1> DEFINE b == ChildToward(a, tip)
<1>1. /\ b \in Branch[tip] /\ b \in Block /\ b # Genesis
      /\ \/ job' = [op |-> "done", for |-> job.for]
         \/ /\ b \in DOMAIN fork
            /\ job' = [op |-> "put", at |-> b, list |-> fork[b], left |-> fork[b],
                       for |-> job.for, old |-> job.old]
  BY ConnectFacts
<1> HIDE DEF b
<1>2. job.for \in Handler /\ job.old \in Block
  BY JobFields DEF Sound, Moves
<1>3. /\ tip' = tip /\ stored' = stored /\ tip # Genesis /\ job.old \in stored
      /\ Height[tip] = 1 + Height[job.old]
  BY DEF chain, Sound, Moves
<1>4. /\ {"txs", "ops", "que", "ids"} \subseteq DOMAIN batch' /\ DOMAIN batch'.que = {}
  BY DEF NoBatch
<1>5. CASE job' = [op |-> "done", for |-> job.for]
  <2>1. job' \in Job /\ job'.op = "done"
    BY <1>2, <1>5 DEF Job
  <2> QED BY <1>4, <1>5, <2>1 DEF Moves
<1>6. CASE /\ b \in DOMAIN fork
           /\ job' = [op |-> "put", at |-> b, list |-> fork[b], left |-> fork[b],
                      for |-> job.for, old |-> job.old]
  <2>1. fork[b] \in {BlockTxs[b], <<>>}
    BY <1>6 DEF Sound, Stores
  <2>2. fork[b] \in Seq(Hash)
    <3>1. BlockTxs[b] \in Seq(Hash) /\ <<>> \in Seq(Hash)
      BY <1>1, SpvAssumption DEF Hash
    <3> QED BY <2>1, <3>1
  <2>3. job' \in Job /\ job'.op = "put"
    BY <1>1, <1>2, <1>6, <2>2 DEF Job
  <2>4. \A i \in DOMAIN fork[b] : InBlock(fork[b][i], b)
    BY <2>1 DEF InBlock
  <2> QED BY <1>1, <1>3, <1>4, <1>6, <2>3, <2>4 DEF Moves
<1> QED BY <1>1, <1>5, <1>6

(* The handlers see nothing of it but that their claim may go.               *)
LEMMA WaitSound ==
  ASSUME Sound, Stores', Moves', tip' = tip, job'.for = job.for,
         job.op # "idle", hand' = hand \/ hand' = Outdate(hand),
         \A k \in DOMAIN que' : que'[k].height \in Nat
  PROVE  Sound'
<1>1. \A g \in Handler : g \in DOMAIN hand /\ HandOK(hand[g], Height[tip])
  BY DEF Sound, Hands
<1>2. ASSUME NEW g \in Handler
      PROVE  /\ g \in DOMAIN hand' /\ DOMAIN hand'[g] = DOMAIN hand[g]
             /\ \A f \in DOMAIN hand[g] : f # "stale" => hand'[g][f] = hand[g][f]
  <2>1. hand[g].pc \in {"scan", "put"} => "stale" \in DOMAIN hand[g]
    BY <1>1 DEF HandOK
  <2>2. CASE hand' = hand
    BY <1>1, <2>2
  <2>3. CASE hand' = Outdate(hand)
    BY <2>1, <2>3, OutdateKeeps
  <2> QED BY <2>2, <2>3
<1>3. \A g \in Handler : HandOK(hand'[g], Height[tip']) /\ hand'[g].pc = hand[g].pc
  BY <1>1, <1>2 DEF HandOK
<1>4. job.for \in Handler /\ hand[job.for].pc = "wait"
  BY JobFields DEF Sound, Moves, Hands
<1>5. Hands'
  BY <1>2, <1>3, <1>4 DEF Hands
<1> QED BY <1>5 DEF Sound

(* A block is given up: for an error in its data, for a write that failed.   *)
LEMMA GivenUpSound ==
  ASSUME Sound, job.op = "put", job' = Done(job), batch' = NoBatch,
         UNCHANGED <<chain, data, hand>>
  PROVE  Sound'
<1>1. job.for \in Handler
  BY JobFields DEF Sound, Moves
<1>2. job' \in Job /\ job'.op = "done" /\ job'.for = job.for
  BY <1>1 DEF Job, Done
<1>3. Moves'
  BY <1>2 DEF Moves, NoBatch
<1>4. Stores' /\ tip' = tip /\ \A k \in DOMAIN que' : que'[k].height \in Nat
  BY DEF Sound, Stores, Hands, chain, data
<1> QED BY <1>2, <1>3, <1>4, WaitSound

LEMMA RestartSound ==
  ASSUME Sound, Restart
  PROVE  Sound'
<1>1. /\ job' = Idle /\ batch' = NoBatch /\ hand' = [h \in Handler |-> Resting]
      /\ UNCHANGED <<chain, data>>
  BY DEF Restart
<1>2. Stores' /\ \A k \in DOMAIN que' : que'[k].height \in Nat
  BY <1>1 DEF Sound, Stores, Hands, chain, data
<1>3. Moves'
  BY <1>1 DEF Moves, Job, Idle, NoBatch
<1>4. Hands'
  BY <1>1, <1>2 DEF Hands, HandOK, Idle, Resting
<1> QED BY <1>2, <1>3, <1>4 DEF Sound

LEMMA PutTxGoesOn ==
  ASSUME Sound, PutTx, job' # Done(job)
  PROVE  Sound'
<1> DEFINE t == Head(job.left)
           n == Height[job.at]
           w == PutIds([b |-> batch.ids, mem |-> mem, err |-> FALSE], t, n)
           new == [k \in Matching(t) \X {t} |-> n]
<1>1. /\ job.op = "put" /\ job.left # <<>>
      /\ job' = [job EXCEPT !.left = Tail(@)]
      /\ \/ batch' = [txs |-> Over(Row(t, n), batch.txs),
                      ops |-> Over([op \in {<<t, i>> : i \in OutsHit(t)} |->
                                      Tx[t].outs[op[2]]], batch.ops),
                      que |-> Over(new, batch.que),
                      ids |-> w.b]
         \/ batch' = [batch EXCEPT !.ids = w.b]
      /\ UNCHANGED <<chain, data, hand>>
  BY DEF PutTx, Working
<1>2. job \in [op : {"put"}, at : Block, list : Seq(Hash), left : Seq(Hash),
               for : Handler, old : Block]
  BY <1>1, JobFields DEF Sound, Moves
<1>3. /\ job' = [op |-> "put", at |-> job.at, list |-> job.list,
                 left |-> Tail(job.left), for |-> job.for, old |-> job.old]
      /\ job.left \in Seq(Hash) /\ Tail(job.left) \in Seq(Hash)
  <2>1. job.left \in Seq(Hash)
    BY <1>2
  <2>2. Tail(job.left) \in Seq(Hash)
    BY <1>1, <2>1
  <2>3. job' = [op |-> "put", at |-> job.at, list |-> job.list,
                left |-> Tail(job.left), for |-> job.for, old |-> job.old]
    BY <1>1, <1>2
  <2> QED BY <2>1, <2>2, <2>3
<1>4. job' \in Job /\ job'.op = "put" /\ job'.at = job.at
  BY <1>2, <1>3 DEF Job
<1>5. \A i \in DOMAIN job.left : InBlock(job.left[i], job.at)
  BY <1>1 DEF Sound, Moves
<1>6. InBlock(t, job.at) /\ \A i \in DOMAIN Tail(job.left) : InBlock(Tail(job.left)[i], job.at)
  <2>1. 1 \in DOMAIN job.left /\ t = job.left[1]
    BY <1>1, <1>3
  <2>2. \A i \in DOMAIN Tail(job.left) :
          i + 1 \in DOMAIN job.left /\ Tail(job.left)[i] = job.left[i + 1]
    BY <1>1, <1>3
  <2> QED BY <1>5, <2>1, <2>2
<1> HIDE DEF t, w, n
<1>7. \A k \in DOMAIN new : k[2] = t /\ new[k] = n
  OBVIOUS
<1>8. {"txs", "ops", "que", "ids"} \subseteq DOMAIN batch
      /\ \A k \in DOMAIN batch.que : InBlock(k[2], job.at) /\ batch.que[k] = n
  BY <1>1 DEF Sound, Moves, n
<1> HIDE DEF new
<1>9. {"txs", "ops", "que", "ids"} \subseteq DOMAIN batch'
      /\ (batch'.que = batch.que \/ batch'.que = Over(new, batch.que))
  BY <1>1, <1>8
<1>10. \A k \in DOMAIN batch'.que : InBlock(k[2], job.at) /\ batch'.que[k] = n
  <2>1. CASE batch'.que = batch.que
    BY <1>8, <2>1
  <2>2. CASE batch'.que = Over(new, batch.que)
    BY <1>6, <1>7, <1>8, <2>2 DEF Over
  <2> QED BY <1>9, <2>1, <2>2
<1>11. Moves'
  BY <1>1, <1>3, <1>4, <1>6, <1>9, <1>10 DEF Moves, Sound, chain, n
<1>12. Stores' /\ tip' = tip /\ \A k \in DOMAIN que' : que'[k].height \in Nat
  BY <1>1 DEF Sound, Stores, Hands, chain, data
<1> QED BY <1>1, <1>3, <1>11, <1>12, WaitSound

LEMMA PutTxSound ==
  ASSUME Sound, PutTx
  PROVE  Sound'
<1>1. CASE job' = Done(job)
  <2>1. job.op = "put" /\ UNCHANGED <<chain, data, hand>>
    BY DEF PutTx, Working
  <2>2. job' # [job EXCEPT !.left = Tail(@)]
    <3>1. job \in [op : {"put"}, at : Block, list : Seq(Hash), left : Seq(Hash),
                    for : Handler, old : Block]
      BY <2>1, JobFields DEF Sound, Moves
    <3>2. [job EXCEPT !.left = Tail(@)].op = "put"
      BY <3>1
    <3> QED BY <1>1, <3>2 DEF Done
  <2>3. batch' = NoBatch
    BY <2>2 DEF PutTx
  <2> QED BY <1>1, <2>1, <2>3, GivenUpSound
<1>2. CASE job' # Done(job)
  BY <1>2, PutTxGoesOn
<1> QED BY <1>1, <1>2

LEMMA CommitFailsSound ==
  ASSUME Sound, CommitFails
  PROVE  Sound'
BY GivenUpSound DEF CommitFails, Working

(* A tip whose parent is not the old tip is on another branch: the old tip   *)
(* lies above the block where they part.                                     *)
LEMMA OldOffMain ==
  ASSUME Sound, job.op \in {"put", "detach"}, job.old # Prev[tip]
  PROVE  /\ Height[Ancestor(job.old, tip)] < Height[job.old]
         /\ job.old \notin Branch[tip]
<1> DEFINE a == Ancestor(job.old, tip)
<1>1. /\ tip \in Block /\ job.old \in Block /\ tip # Genesis
      /\ Height[tip] = 1 + Height[job.old]
  BY JobFields DEF Sound, Stores, Moves
<1>2. /\ Prev[tip] \in Branch[tip] /\ tip \in Branch[tip]
      /\ Height[tip] = 1 + Height[Prev[tip]]
      /\ Prev[tip] \in Block /\ Height[Prev[tip]] \in Nat /\ Height[job.old] \in Nat
  BY <1>1, BranchFacts, TreeFacts
<1>3. Height[Prev[tip]] = Height[job.old]
  BY <1>1, <1>2
<1>4. job.old \notin Branch[tip]
  BY <1>1, <1>2, <1>3, BranchFacts
<1>5. /\ a \in Branch[job.old] /\ job.old \in Branch[job.old]
      /\ job.old \in Branch[tip] <=> Height[job.old] <= Height[a]
  BY <1>1, AncestorFacts, BranchFacts
<1>6. Height[a] \in Nat
  BY <1>1, <1>5, BranchFacts
<1> QED BY <1>2, <1>4, <1>5, <1>6

LEMMA CommitTxsSound ==
  ASSUME Sound, CommitTxs
  PROVE  Sound'
<1> DEFINE items == [k \in DOMAIN batch.que |-> QueItem(batch.que[k], "never")]
<1>1. /\ job.op = "put" /\ job' = AfterPut(job) /\ batch' = NoBatch
      /\ PutItems(items) /\ UNCHANGED <<chain, heightTxs, fork, hand>>
  BY DEF CommitTxs, Working
<1>2. Stores' /\ tip' = tip
  BY <1>1 DEF Sound, Stores, chain
<1>3. /\ job.at \in Branch[tip] /\ tip \in Block /\ job.at \in Block
      /\ \A k \in DOMAIN batch.que : batch.que[k] = Height[job.at]
  BY <1>1, JobFields DEF Sound, Moves, Stores
<1>4. \A k \in DOMAIN que' : que'[k].height \in Nat
  <2>1. \A k \in DOMAIN items : items[k].height \in Nat
    BY <1>3, TreeFacts DEF QueItem
  <2>2. \A k \in DOMAIN que : que[k].height \in Nat
    BY DEF Sound, Hands
  <2> HIDE DEF items
  <2> QED BY <1>1, <2>1, <2>2, PutHeights
<1>5. job.for \in Handler /\ job.old \in Block /\ job.old \in stored /\ tip # Genesis
      /\ Height[tip] = 1 + Height[job.old]
  BY <1>1, JobFields DEF Sound, Moves
<1>6. Moves' /\ job'.for = job.for
  <2>1. CASE job.at # tip
    <3>1. job' = Connect(ChildToward(job.at, tip), job)
      BY <1>1, <2>1 DEF AfterPut
    <3> QED BY <1>1, <1>3, <2>1, <3>1, GoOnSound
  <2>2. CASE job.at = tip /\ job.old = Prev[tip]
    <3>1. job' = [op |-> "done", for |-> job.for]
      BY <1>1, <2>2 DEF AfterPut, Done
    <3>2. job' \in Job /\ job'.op = "done"
      BY <1>5, <3>1 DEF Job
    <3> QED BY <1>1, <3>1, <3>2 DEF Moves, NoBatch
  <2>3. CASE job.at = tip /\ job.old # Prev[tip]
    <3>1. job' = [op |-> "detach", at |-> job.old, for |-> job.for, old |-> job.old]
      BY <1>1, <2>3 DEF AfterPut
    <3>2. job' \in Job /\ job'.op = "detach" /\ job'.at = job.old /\ job'.old = job.old
      BY <1>5, <3>1 DEF Job
    <3>3. job.old \in Branch[job.old] /\ Height[Ancestor(job.old, tip)] < Height[job.old]
      BY <1>1, <1>5, <2>3, OldOffMain, BranchFacts
    <3>4. stored' = stored
      BY <1>1 DEF chain
    <3> QED BY <1>1, <1>2, <1>5, <2>3, <3>1, <3>2, <3>3, <3>4 DEF Moves, NoBatch
  <2> QED BY <2>1, <2>2, <2>3
<1> QED BY <1>1, <1>2, <1>4, <1>6, WaitSound

(* One block of the old branch.                                              *)
LEMMA DetachFacts ==
  ASSUME Sound, Detach
  PROVE  LET a == Ancestor(job.old, tip)
             below == Prev[job.at]
         IN /\ job.op = "detach" /\ job.at \in Branch[job.old] /\ job.at # Genesis
            /\ below \in Branch[job.old] /\ below \in Block
            /\ a \in Branch[job.old] /\ a \in Branch[tip] /\ a # tip
            /\ Height[a] \in Nat /\ Height[below] \in Nat
            /\ Height[job.at] = 1 + Height[below]
            /\ below # a => Height[a] < Height[below]
            /\ GetTxs(Height[job.at]) = <<>>
            /\ PutForkTxs(job.at, <<>>)
<1> DEFINE a == Ancestor(job.old, tip)
           below == Prev[job.at]
<1>1. /\ job.op = "detach" /\ job.old \in Block /\ job.at \in Block /\ tip \in Block
      /\ job.at \in Branch[job.old] /\ Height[a] < Height[job.at]
      /\ Height[tip] = 1 + Height[job.old]
  BY JobFields DEF Detach, Sound, Moves, Stores
<1>2. a \in Branch[job.old] /\ a \in Branch[tip]
  BY <1>1, AncestorFacts
<1>3. Height[a] \in Nat /\ Height[job.at] \in Nat /\ Height[job.old] \in Nat
      /\ Height[a] <= Height[job.old]
  BY <1>1, <1>2, BranchFacts, TreeFacts
<1>4. job.at # Genesis
  BY <1>1, <1>3, TreeFacts
<1>5. below \in Branch[job.old] /\ below \in Block
  BY <1>1, <1>4, BranchFacts, TreeFacts
<1>6. Height[job.at] = 1 + Height[below] /\ Height[below] \in Nat
  BY <1>1, <1>4, <1>5, TreeFacts
<1> HIDE DEF a, below
<1>7. below # a => Height[below] # Height[a]
  BY <1>1, <1>2, <1>5, BranchFacts
<1>8. below # a => Height[a] < Height[below]
  BY <1>1, <1>3, <1>6, <1>7
<1>9. a # tip
  BY <1>1, <1>3
<1>10. Height[job.at] \in 0 .. MaxHeight
  BY <1>1, TreeAssumption
<1>11. GetTxs(Height[job.at]) = <<>>
  BY <1>10 DEF GetTxs, Sound, Stores
<1>12. PutForkTxs(job.at, <<>>)
  BY <1>11 DEF Detach
<1> QED BY <1>1, <1>2, <1>3, <1>4, <1>5, <1>6, <1>8, <1>9, <1>11, <1>12 DEF a, below

LEMMA DetachSound ==
  ASSUME Sound, Detach
  PROVE  Sound'
<1> DEFINE a == Ancestor(job.old, tip)
           below == Prev[job.at]
           n == Height[job.at]
<1>1. /\ job.op = "detach" /\ job.at \in Branch[job.old] /\ job.at # Genesis
      /\ below \in Branch[job.old] /\ below \in Block
      /\ a \in Branch[job.old] /\ a \in Branch[tip] /\ a # tip
      /\ below # a => Height[a] < Height[below]
      /\ PutForkTxs(job.at, <<>>)
  BY DetachFacts
<1>2. /\ hand' = Outdate(hand) /\ UNCHANGED <<chain, batch>>
      /\ job' = IF below = a THEN Connect(ChildToward(below, tip), job)
                ELSE [job EXCEPT !.at = below]
      /\ heightTxs' = [heightTxs EXCEPT ![n] = <<>>] /\ DelAllQue(n)
  BY DEF Detach, DelAll
<1>3. Stores' /\ tip' = tip
  <2>1. \A x \in DOMAIN fork' : fork'[x] \in {BlockTxs[x], <<>>}
    BY <1>1 DEF PutForkTxs, Over, Row, Sound, Stores
  <2>2. \A m \in 0 .. MaxHeight : m \in DOMAIN heightTxs' /\ heightTxs'[m] = <<>>
    BY <1>2 DEF Sound, Stores
  <2> QED BY <1>2, <2>1, <2>2 DEF Sound, Stores, chain
<1>4. \A k \in DOMAIN que' : que'[k].height \in Nat
  <2>1. \A k \in DOMAIN que : que[k].height \in Nat
    BY DEF Sound, Hands
  <2> QED BY <1>2, <2>1 DEF DelAllQue, Without
<1>5. job \in [op : {"detach"}, at : Block, for : Handler, old : Block]
  BY <1>1, JobFields DEF Sound, Moves
<1>6. batch = NoBatch /\ batch' = NoBatch
  BY <1>1, <1>2 DEF Sound, Moves
<1> HIDE DEF a, below
<1>7. Moves' /\ job'.for = job.for
  <2>1. CASE below = a
    <3>1. job' = Connect(ChildToward(a, tip), job)
      BY <1>2, <2>1
    <3> QED BY <1>1, <1>2, <1>6, <3>1, GoOnSound
  <2>2. CASE below # a
    <3>1. job' = [op |-> "detach", at |-> below, for |-> job.for, old |-> job.old]
      BY <1>2, <1>5, <2>2
    <3>2. job' \in Job /\ job'.op = "detach" /\ job'.at = below /\ job'.old = job.old
      BY <1>1, <1>5, <3>1 DEF Job
    <3>3. Height[Ancestor(job.old, tip)] < Height[below]
      BY <1>1, <2>2 DEF a
    <3>4. /\ tip # Genesis /\ job.old \in stored /\ Height[tip] = 1 + Height[job.old]
          /\ job.old # Prev[tip]
      BY <1>1 DEF Sound, Moves
    <3> QED BY <1>1, <1>2, <1>6, <3>1, <3>2, <3>3, <3>4 DEF Moves, NoBatch, chain
  <2> QED BY <2>1, <2>2
<1> QED BY <1>1, <1>2, <1>3, <1>4, <1>7, WaitSound

LEMMA BlockProcessedSound ==
  ASSUME Sound, BlockProcessed
  PROVE  Sound'
<1>1. /\ job.op = "done" /\ job' = Idle
      /\ hand' = [hand EXCEPT ![job.for] = [hand[job.for] EXCEPT !.pc = "committed"]]
      /\ UNCHANGED <<chain, data, batch>>
  BY DEF BlockProcessed
<1>2. /\ job.for \in Handler /\ hand[job.for].pc = "wait" /\ batch = NoBatch
      /\ \A g \in Handler : g \in DOMAIN hand /\ HandOK(hand[g], Height[tip])
  BY <1>1, JobFields DEF Sound, Moves, Hands
<1>3. Stores'
  BY <1>1 DEF Sound, Stores, chain, data
<1>4. Moves'
  BY <1>1, <1>2 DEF Moves, Job, Idle, NoBatch
<1>5. HandOK([hand[job.for] EXCEPT !.pc = "committed"], Height[tip])
  BY <1>2 DEF HandOK
<1>6. \A g \in Handler : g \in DOMAIN hand' /\ HandOK(hand'[g], Height[tip])
  BY <1>1, <1>2, <1>5
<1>7. Hands'
  BY <1>1, <1>6 DEF Hands, Sound, Idle, chain, data
<1> QED BY <1>3, <1>4, <1>7 DEF Sound

LEMMA NextSound ==
  ASSUME Sound, QueItems, [Next]_vars
  PROVE  Sound'
<1>1. CASE CommitFails \/ Restart
  BY <1>1, CommitFailsSound, RestartSound
<1>2. ASSUME NEW b \in Block \ {Genesis}, NEW h \in Handler, CommitBlock(b, h)
      PROVE  Sound'
  BY <1>2, CommitBlockSound
<1>3. CASE PutTx \/ CommitTxs \/ Detach \/ BlockProcessed
  BY <1>3, PutTxSound, CommitTxsSound, DetachSound, BlockProcessedSound
<1>4. ASSUME NEW h \in Handler, GetAll(h) \/ PutBack(h) \/ EndNotify(h)
      PROVE  Sound'
  BY <1>4, HandlerStepSound
<1>5. ASSUME NEW h \in Handler, NEW current \in BOOLEAN, NEW item \in Todo(h),
             NotifyTx(h, item, current)
      PROVE  Sound'
  BY <1>5, HandlerStepSound
<1>6. CASE \/ \E l \in Listener : Register(l)
           \/ \E k \in Key : SubmitTransactionReceipt(k) \/ NotifyTimeout(k)
           \/ Query \/ UNCHANGED vars
  BY <1>6, OutsideSound
<1> QED BY <1>1, <1>2, <1>3, <1>4, <1>5, <1>6 DEF Next

-----------------------------------------------------------------------------
(* The queue follows the main chain.                                         *)

(* Steps that leave the main chain and the position alone.                   *)
LEMMA ItemsShrink ==
  ASSUME ItemsOnMain, tip' = tip, job'.op = job.op, job'.at = job.at,
         job'.old = job.old,
         \A k \in DOMAIN que' : k \in DOMAIN que /\ que'[k].height = que[k].height
  PROVE  ItemsOnMain'
BY DEF ItemsOnMain, Leaving

(* Outside of a reorganisation no item is of another branch.                 *)
LEMMA LeavingReorganises ==
  ASSUME Sound, NEW n, Leaving(n, job, tip)
  PROVE  Reorganising
BY DEF Leaving, Reorganising, Sound, Moves

LEMMA CommitBlockOnMain ==
  ASSUME Sound, OnMain, NEW b \in Block \ {Genesis}, NEW h \in Handler,
         CommitBlock(b, h)
  PROVE  OnMain'
<1> DEFINE hs == [hand EXCEPT ![h] = [pc |-> "wait", height |-> Height[b]]]
<1>1. /\ job = Idle /\ hand[h] = Resting /\ que' = que
      /\ b \notin stored /\ Prev[b] \in stored /\ stored' = stored \cup {b}
      /\ \/ /\ Height[b] > Height[tip] /\ tip' = b
            /\ job' = PutJob(b, BlockTxs[b], [for |-> h, old |-> tip])
            /\ hand' = IF Reorg(b) THEN Outdate(hs) ELSE hs
         \/ /\ Height[b] <= Height[tip] /\ tip' = tip
            /\ job' = Done([for |-> h]) /\ hand' = hs
  BY DEF CommitBlock, PutHeader
<1>2. \A k \in DOMAIN que : OnBranch(k[2], que[k].height, tip)
  BY <1>1 DEF OnMain, ItemsOnMain, Leaving, Idle
<1>3. \A g \in Handler : /\ g \in DOMAIN hand /\ HandOK(hand[g], Height[tip])
                         /\ ReadOK(hand[g], tip, stored)
  BY DEF OnMain, ReadOnMain, Sound, Hands
<1>4. tip \in Block /\ Height[tip] \in Nat
  BY TreeFacts DEF Sound, Stores
<1>5. ASSUME NEW g \in Handler
      PROVE  /\ ReadOK(hs[g], tip, stored')
             /\ hs[g].pc \in {"scan", "put"} =>
                  /\ {"stale", "pc", "todo", "height"} \subseteq DOMAIN hs[g]
                  /\ hs[g].pc = "put" => {"item", "proof"} \subseteq DOMAIN hs[g]
  <2>1. CASE g = h
    <3>1. hs[g] = [pc |-> "wait", height |-> Height[b]]
      BY <1>3, <2>1
    <3>2. hs[g].pc = "wait"
      BY <3>1
    <3> QED BY <3>2 DEF ReadOK
  <2>2. CASE g # h
    <3>1. hs[g] = hand[g]
      BY <1>3, <2>2
    <3> HIDE DEF hs
    <3>2. ReadOK(hand[g], tip, stored')
      BY <1>1, <1>3 DEF ReadOK
    <3> QED BY <1>3, <3>1, <3>2 DEF HandOK
  <2> QED BY <2>1, <2>2
<1> HIDE DEF hs
<1>6. CASE Height[b] <= Height[tip]
  <2>1. tip' = tip /\ job' = [op |-> "done", for |-> h] /\ hand' = hs
    BY <1>1, <1>4, <1>6, TreeFacts DEF Done
  <2>2. ItemsOnMain'
    BY <1>1, <1>2, <2>1 DEF ItemsOnMain
  <2>3. ReadOnMain'
    BY <1>5, <2>1 DEF ReadOnMain
  <2> QED BY <2>2, <2>3 DEF OnMain
<1>7. CASE Height[b] > Height[tip] /\ Prev[b] = tip
  <2>1. tip' = b /\ hand' = hs
    BY <1>1, <1>4, <1>7, TreeFacts DEF Reorg
  <2>2. Branch[tip] \subseteq Branch[b]
    BY <1>7, TreeFacts
  <2>3. \A t, n : OnBranch(t, n, tip) => OnBranch(t, n, b)
    BY <2>2 DEF OnBranch
  <2>4. ItemsOnMain'
    BY <1>1, <1>2, <2>1, <2>3 DEF ItemsOnMain
  <2>5. \A g \in Handler : ReadOK(hs[g], b, stored')
    BY <1>5, <2>3 DEF ReadOK
  <2>6. ReadOnMain'
    BY <2>1, <2>5 DEF ReadOnMain
  <2> QED BY <2>4, <2>6 DEF OnMain
<1>8. CASE Height[b] > Height[tip] /\ Prev[b] # tip
  <2>1. /\ tip' = b /\ hand' = Outdate(hs)
        /\ job' = [op |-> "put", at |-> b, list |-> BlockTxs[b], left |-> BlockTxs[b],
                   for |-> h, old |-> tip]
    BY <1>1, <1>4, <1>8, TreeFacts DEF Reorg, PutJob
  <2>2. \A n : Leaving(n, job', tip')
    BY <1>8, <2>1 DEF Leaving
  <2>3. ItemsOnMain'
    BY <1>1, <1>2, <2>1, <2>2 DEF ItemsOnMain
  <2>4. ASSUME NEW g \in Handler PROVE ReadOK(hand'[g], tip', stored')
    <3>1. CASE hs[g].pc \notin {"scan", "put"}
      <4>1. hand'[g] = hs[g]
        BY <2>1, <3>1, OutdateKeeps
      <4> QED BY <3>1, <4>1 DEF ReadOK
    <3>2. CASE hs[g].pc \in {"scan", "put"}
      <4>1. /\ \A f \in DOMAIN hs[g] : f # "stale" => hand'[g][f] = hs[g][f]
            /\ hand'[g].stale = TRUE
        <5>1. "stale" \in DOMAIN hs[g]
          BY <1>5, <3>2
        <5>2. /\ \A f \in DOMAIN hs[g] : f # "stale" => Outdate(hs)[g][f] = hs[g][f]
              /\ Outdate(hs)[g].stale = TRUE
          BY <3>2, <5>1, OutdateKeeps
        <5> QED BY <2>1, <5>2
      <4>2. /\ hand'[g].pc = hs[g].pc /\ hand'[g].height = hs[g].height
            /\ hs[g].pc = "put" => /\ hand'[g].item = hs[g].item
                                   /\ hand'[g].proof = hs[g].proof
        BY <1>5, <3>2, <4>1
      <4> QED BY <1>5, <4>1, <4>2 DEF ReadOK
    <3> QED BY <3>1, <3>2
  <2> QED BY <2>3, <2>4 DEF OnMain, ReadOnMain
<1> QED BY <1>1, <1>6, <1>7, <1>8

(* The batch of a block is written: its items are of a block of the main     *)
(* chain.                                                                    *)
LEMMA CommitTxsOnMain ==
  ASSUME Sound, OnMain, CommitTxs
  PROVE  OnMain'
<1> DEFINE items == [k \in DOMAIN batch.que |-> QueItem(batch.que[k], "never")]
<1>1. /\ job.op = "put" /\ job' = AfterPut(job) /\ que' = Over(items, que)
      /\ UNCHANGED <<chain, hand>>
  BY DEF CommitTxs, Working, PutItems
<1>2. /\ job.at \in Branch[tip] /\ job.old \in Block
      /\ \A k \in DOMAIN batch.que :
           InBlock(k[2], job.at) /\ batch.que[k] = Height[job.at]
  BY <1>1, JobFields DEF Sound, Moves
<1>3. \A k \in DOMAIN items : OnBranch(k[2], items[k].height, tip)
  BY <1>2 DEF QueItem, OnBranch
<1> HIDE DEF items
<1>4. ASSUME NEW k \in DOMAIN que
      PROVE  \/ OnBranch(k[2], que[k].height, tip)
             \/ Leaving(que[k].height, job', tip') /\ OnBranch(k[2], que[k].height, job'.old)
  <2>1. CASE ~OnBranch(k[2], que[k].height, tip)
    <3>1. Leaving(que[k].height, job, tip) /\ OnBranch(k[2], que[k].height, job.old)
      BY <2>1 DEF OnMain, ItemsOnMain
    <3>2. job.at = tip /\ job.old # Prev[tip]
      BY <1>1, <3>1 DEF Leaving
    <3>3. job' = [op |-> "detach", at |-> job.old, for |-> job.for, old |-> job.old]
      BY <1>1, <3>2 DEF AfterPut
    <3>4. que[k].height <= Height[job.old]
      BY <1>2, <3>1, BranchFacts DEF OnBranch
    <3> QED BY <3>1, <3>3, <3>4 DEF Leaving
  <2> QED BY <2>1
<1>5. ItemsOnMain'
  BY <1>1, <1>3, <1>4 DEF ItemsOnMain, Over, chain
<1> QED BY <1>1, <1>5 DEF OnMain, ReadOnMain, chain

(* A height of the old branch is rolled back: queBatch.DelAll finds its      *)
(* items by the index.  When the last one is gone, what is left is of the    *)
(* part the branches share.                                                  *)
LEMMA DetachOnMain ==
  ASSUME Sound, QueueIndexed, OnMain, Detach
  PROVE  OnMain'
<1> DEFINE a == Ancestor(job.old, tip)
           below == Prev[job.at]
           n == Height[job.at]
<1>1. /\ job.op = "detach" /\ a \in Branch[job.old] /\ a \in Branch[tip] /\ a # tip
      /\ Height[a] \in Nat /\ Height[below] \in Nat /\ n = 1 + Height[below]
      /\ below \in Block
  BY DetachFacts
<1>2. /\ hand' = Outdate(hand) /\ UNCHANGED chain /\ DelAllQue(n)
      /\ job' = IF below = a THEN Connect(ChildToward(below, tip), job)
                ELSE [job EXCEPT !.at = below]
  BY DEF Detach, DelAll
<1>3. job \in [op : {"detach"}, at : Block, for : Handler, old : Block]
  BY <1>1, JobFields DEF Sound, Moves
<1>4. tip \in Block /\ tip' = tip /\ stored' = stored
  BY <1>2 DEF Sound, Stores, chain
<1> HIDE DEF a, below, n
<1>5. ASSUME NEW k \in DOMAIN que'
      PROVE  k \in DOMAIN que /\ que'[k] = que[k] /\ que[k].height # n
  <2> DEFINE gone == {e[2] : e \in {x \in queIdx : x[1] = n}}
  <2>1. que' = [x \in DOMAIN que \ gone |-> que[x]]
    BY <1>2 DEF DelAllQue, Without
  <2>2. k \in DOMAIN que /\ k \notin gone /\ que'[k] = que[k]
    BY <2>1
  <2>3. <<que[k].height, k>> \in queIdx
    BY <2>2 DEF QueueIndexed
  <2> QED BY <2>2, <2>3
<1>6. ItemsOnMain'
  <2> SUFFICES ASSUME NEW k \in DOMAIN que', ~OnBranch(k[2], que[k].height, tip)
               PROVE  Leaving(que[k].height, job', tip') /\ OnBranch(k[2], que[k].height, job'.old)
    BY <1>4, <1>5 DEF ItemsOnMain
  <2>1. /\ k \in DOMAIN que /\ que[k].height # n /\ que[k].height <= n
        /\ OnBranch(k[2], que[k].height, job.old)
    BY <1>1, <1>5 DEF OnMain, ItemsOnMain, Leaving, n
  <2>2. que[k].height \in Nat
    BY <2>1 DEF Sound, Hands
  <2>3. que[k].height <= Height[below]
    BY <1>1, <2>1, <2>2
  <2>4. below # a
    <3> SUFFICES ASSUME below = a PROVE FALSE
      OBVIOUS
    <3>1. PICK x \in Branch[job.old] : Height[x] = que[k].height /\ InBlock(k[2], x)
      BY <2>1 DEF OnBranch
    <3>2. x \in Branch[tip]
      BY <1>3, <1>4, <2>3, <3>1, AncestorFacts DEF a
    <3> QED BY <3>1, <3>2 DEF OnBranch
  <2>5. job' = [op |-> "detach", at |-> below, for |-> job.for, old |-> job.old]
    BY <1>2, <1>3, <2>4
  <2> QED BY <2>1, <2>3, <2>5 DEF Leaving
<1>7. ASSUME NEW g \in Handler PROVE ReadOK(hand'[g], tip', stored')
  <2>1. HandOK(hand[g], Height[tip]) /\ ReadOK(hand[g], tip, stored)
    BY DEF OnMain, ReadOnMain, Sound, Hands
  <2>2. CASE hand[g].pc \notin {"scan", "put"}
    <3>1. hand'[g] = hand[g]
      BY <1>2, <2>2, OutdateKeeps
    <3> QED BY <2>2, <3>1 DEF ReadOK
  <2>3. CASE hand[g].pc \in {"scan", "put"}
    <3>0. "stale" \in DOMAIN hand[g]
      BY <2>1, <2>3 DEF HandOK
    <3>1. /\ \A f \in DOMAIN hand[g] : f # "stale" => hand'[g][f] = hand[g][f]
          /\ hand'[g].stale = TRUE
      <4>1. /\ \A f \in DOMAIN hand[g] :
                 f # "stale" => Outdate(hand)[g][f] = hand[g][f]
            /\ Outdate(hand)[g].stale = TRUE
        BY <2>3, <3>0, OutdateKeeps
      <4> QED BY <1>2, <4>1
    <3>2. /\ hand'[g].pc = hand[g].pc /\ hand'[g].height = hand[g].height
          /\ hand[g].pc = "put" => /\ hand'[g].item = hand[g].item
                                   /\ hand'[g].proof = hand[g].proof
      BY <2>1, <2>3, <3>1 DEF HandOK
    <3> QED BY <1>4, <2>1, <3>1, <3>2 DEF ReadOK
  <2> QED BY <2>2, <2>3
<1> QED BY <1>6, <1>7 DEF OnMain, ReadOnMain

(* A handler's step: what it reads and keeps is of the main chain.           *)
LEMMA HandOnMain ==
  ASSUME Sound, OnMain, NEW h \in Handler, NEW v, ReadOK(v, tip, stored),
         hand' = [hand EXCEPT ![h] = v], UNCHANGED <<chain, job>>, ItemsOnMain'
  PROVE  OnMain'
<1>1. \A g \in Handler : g \in DOMAIN hand /\ ReadOK(hand[g], tip, stored)
  BY DEF Sound, Hands, OnMain, ReadOnMain
<1>2. \A g \in Handler : hand'[g] = IF g = h THEN v ELSE hand[g]
  BY <1>1
<1>3. \A g \in Handler : ReadOK(hand'[g], tip, stored)
  BY <1>1, <1>2
<1> QED BY <1>3 DEF OnMain, ReadOnMain, chain

LEMMA HandlerStepOnMain ==
  ASSUME Sound, OnMain, NEW h \in Handler, "revived" \notin wrong',
         \/ GetAll(h) \/ PutBack(h) \/ EndNotify(h)
         \/ \E current \in BOOLEAN, item \in Todo(h) : NotifyTx(h, item, current)
  PROVE  OnMain'
<1>1. /\ HandOK(hand[h], Height[tip]) /\ ReadOK(hand[h], tip, stored) /\ ItemsOnMain
      /\ \A n \in DOMAIN index : index[n] \in stored /\ Height[index[n]] = n
  BY DEF Sound, Hands, OnMain, ReadOnMain, Stores
<1>2. CASE GetAll(h)
  <2> DEFINE v == [pc |-> "scan", height |-> hand[h].height, todo |-> Snapshot,
                   stale |-> Reorganising]
  <2>1. /\ hand' = [hand EXCEPT ![h] = v] /\ UNCHANGED <<chain, job>> /\ que' = que
    BY <1>2 DEF GetAll, data
  <2>2. ASSUME ~Reorganising, NEW item \in Snapshot
        PROVE  OnBranch(item.key[2], item.height, tip)
    <3>1. PICK k \in DOMAIN que : item.key = k /\ item.height = que[k].height
      BY DEF Snapshot
    <3>2. ~Leaving(que[k].height, job, tip)
      BY <2>2, LeavingReorganises
    <3> QED BY <1>1, <3>1, <3>2 DEF ItemsOnMain
  <2>3. v.pc = "scan" /\ v.todo = Snapshot /\ (~v.stale => ~Reorganising)
    OBVIOUS
  <2> HIDE DEF v
  <2>4. ReadOK(v, tip, stored)
    BY <2>2, <2>3 DEF ReadOK
  <2>5. ItemsOnMain'
    BY <1>1, <2>1, ItemsShrink DEF chain
  <2> QED BY <2>1, <2>4, <2>5, HandOnMain
<1>3. CASE PutBack(h)
  <2> DEFINE v == [pc |-> "scan", height |-> hand[h].height, todo |-> hand[h].todo,
                   stale |-> hand[h].stale]
             item == hand[h].item
             items == [k \in {item.key} |-> QueItem(item.height, "recent")]
  <2>1. /\ hand' = [hand EXCEPT ![h] = v] /\ UNCHANGED <<chain, job>>
        /\ que' = Over(items, que) /\ ~hand[h].stale /\ hand[h].pc = "put"
    BY <1>3 DEF PutBack, PutItems
  <2>2. v.pc = "scan" /\ v.todo = hand[h].todo /\ v.stale = hand[h].stale
    OBVIOUS
  <2> HIDE DEF v
  <2>3. ReadOK(v, tip, stored)
    BY <1>1, <2>1, <2>2 DEF ReadOK
  <2>4. OnBranch(item.key[2], item.height, tip)
    BY <1>1, <2>1 DEF ReadOK
  <2>5. \A k \in DOMAIN items : k = item.key /\ items[k].height = item.height
    BY DEF QueItem
  <2> HIDE DEF items, item
  <2>6. ItemsOnMain'
    BY <1>1, <2>1, <2>4, <2>5 DEF ItemsOnMain, Over, chain
  <2> QED BY <2>1, <2>3, <2>6, HandOnMain
<1>4. CASE EndNotify(h)
  <2>1. ReadOK(Resting, tip, stored)
    BY DEF ReadOK, Resting
  <2>2. hand' = [hand EXCEPT ![h] = Resting] /\ UNCHANGED <<chain, job>> /\ que' = que
    BY <1>4 DEF EndNotify, data
  <2>3. ItemsOnMain'
    BY <1>1, <2>2, ItemsShrink DEF chain
  <2> QED BY <2>1, <2>2, <2>3, HandOnMain
<1>5. ASSUME NEW current \in BOOLEAN, NEW item \in Todo(h), NotifyTx(h, item, current)
      PROVE  OnMain'
  <2> DEFINE rest == [hand[h] EXCEPT !.todo = @ \ {item}]
             v == [pc |-> "put", height |-> hand[h].height, todo |-> rest.todo,
                   stale |-> hand[h].stale, item |-> item,
                   proof |-> HeaderAt(item.height)]
             ripe == Ripe(item.key[1], item.key[2], hand[h].height, item.height)
  <2>1. hand[h].pc = "scan" /\ item \in hand[h].todo
    BY <1>5 DEF Todo
  <2>2. /\ rest.todo \subseteq hand[h].todo /\ rest.pc = "scan"
        /\ rest.stale = hand[h].stale
    BY <1>1, <2>1 DEF HandOK
  <2>3. /\ v.pc = "put" /\ v.height = hand[h].height /\ v.todo = rest.todo
        /\ v.stale = hand[h].stale /\ v.item = item /\ v.proof = HeaderAt(item.height)
    OBVIOUS
  <2>4. \/ hand' = [hand EXCEPT ![h] = rest]
        \/ /\ hand' = [hand EXCEPT ![h] = v]
           /\ ripe /\ HeaderAt(item.height) # None
    BY <1>5 DEF NotifyTx
  <2>5. que' = que \/ Del(item.key)
    BY <1>5 DEF NotifyTx
  <2>6. UNCHANGED <<chain, job>>
    BY <1>5 DEF NotifyTx
  <2>7. ItemsOnMain'
    <3>1. \A k \in DOMAIN que' : k \in DOMAIN que /\ que'[k].height = que[k].height
      BY <2>5 DEF Del, Without
    <3> QED BY <1>1, <2>6, <3>1, ItemsShrink DEF chain
  <2> HIDE DEF rest, v
  <2>8. ReadOK(rest, tip, stored)
    BY <1>1, <2>1, <2>2 DEF ReadOK
  <2>9. ASSUME ripe, HeaderAt(item.height) # None
        PROVE  ReadOK(v, tip, stored)
    <3>1. /\ HeaderAt(item.height) \in stored
          /\ Height[HeaderAt(item.height)] = item.height
      BY <1>1, <2>9 DEF HeaderAt
    <3>2. ~v.stale => /\ OnBranch(item.key[2], item.height, tip)
                      /\ \A i \in v.todo : OnBranch(i.key[2], i.height, tip)
      BY <1>1, <2>1, <2>2, <2>3 DEF ReadOK
    <3> QED BY <2>3, <2>9, <3>1, <3>2 DEF ReadOK
  <2> QED BY <2>4, <2>6, <2>7, <2>8, <2>9, HandOnMain
<1> QED BY <1>2, <1>3, <1>4, <1>5

LEMMA NextOnMain ==
  ASSUME Sound, IInv, OnMain, faults \in Nat, [Next]_vars, Orderly',
         "revived" \notin wrong'
  PROVE  OnMain'
<1>1. ~CommitFails /\ ~Restart
  BY WasOrderly
<1>2. ASSUME UNCHANGED <<chain, job, hand>>,
             \A k \in DOMAIN que' : k \in DOMAIN que /\ que'[k].height = que[k].height
      PROVE  OnMain'
  <2>1. ItemsOnMain'
    BY <1>2, ItemsShrink DEF OnMain, chain
  <2> QED BY <1>2, <2>1 DEF OnMain, ReadOnMain, chain
<1>3. ASSUME NEW b \in Block \ {Genesis}, NEW h \in Handler, CommitBlock(b, h)
      PROVE  OnMain'
  BY <1>3, CommitBlockOnMain
<1>4. CASE CommitTxs \/ Detach
  BY <1>4, CommitTxsOnMain, DetachOnMain DEF IInv
<1>5. CASE PutTx
  <2>1. /\ job' = [job EXCEPT !.left = Tail(@)] /\ job.op = "put"
        /\ UNCHANGED <<chain, que, hand>>
    BY <1>5 DEF PutTx, Working, Orderly, data
  <2>2. job \in [op : {"put"}, at : Block, list : Seq(Hash), left : Seq(Hash),
                 for : Handler, old : Block]
    BY <2>1, JobFields DEF Sound, Moves
  <2>3. job'.op = job.op /\ job'.at = job.at /\ job'.old = job.old
    BY <2>1, <2>2
  <2>4. ItemsOnMain'
    BY <2>1, <2>3, ItemsShrink DEF OnMain, chain
  <2> QED BY <2>1, <2>4 DEF OnMain, ReadOnMain, chain
<1>6. CASE BlockProcessed
  <2> DEFINE v == [hand[job.for] EXCEPT !.pc = "committed"]
  <2>1. /\ job.op = "done" /\ job' = Idle /\ hand' = [hand EXCEPT ![job.for] = v]
        /\ UNCHANGED <<chain, que>>
    BY <1>6 DEF BlockProcessed, data
  <2>2. job.for \in Handler /\ hand[job.for].pc = "wait"
        /\ \A g \in Handler : g \in DOMAIN hand /\ HandOK(hand[g], Height[tip])
    BY <2>1, JobFields DEF Sound, Moves, Hands
  <2>3. v.pc = "committed"
    BY <2>2 DEF HandOK
  <2> HIDE DEF v
  <2>4. ItemsOnMain'
    BY <2>1 DEF OnMain, ItemsOnMain, Leaving, chain
  <2>5. \A g \in Handler : ReadOK(hand'[g], tip, stored)
    <3>1. ReadOK(v, tip, stored)
      BY <2>3 DEF ReadOK
    <3>2. \A g \in Handler : hand'[g] = IF g = job.for THEN v ELSE hand[g]
      BY <2>1, <2>2
    <3> QED BY <3>1, <3>2 DEF OnMain, ReadOnMain
  <2> QED BY <2>1, <2>4, <2>5 DEF OnMain, ReadOnMain, chain
<1>7. ASSUME NEW h \in Handler, GetAll(h) \/ PutBack(h) \/ EndNotify(h)
      PROVE  OnMain'
  BY <1>7, HandlerStepOnMain
<1>8. ASSUME NEW h \in Handler, NEW current \in BOOLEAN, NEW item \in Todo(h),
             NotifyTx(h, item, current)
      PROVE  OnMain'
  BY <1>8, HandlerStepOnMain
<1>9. ASSUME NEW k \in Key, SubmitTransactionReceipt(k) PROVE OnMain'
  BY <1>2, <1>9 DEF SubmitTransactionReceipt, Del, Without
<1>10. ASSUME NEW k \in Key, NotifyTimeout(k) PROVE OnMain'
  <2>1. /\ que' = [que EXCEPT ![k] = [que[k] EXCEPT !.last = "old"]] /\ k \in DOMAIN que
        /\ UNCHANGED <<chain, job, hand>>
    BY <1>10 DEF NotifyTimeout
  <2>2. que[k] = QueItem(que[k].height, que[k].last)
    BY <2>1 DEF IInv, QueItems
  <2>3. que'[k].height = que[k].height
    BY <2>1, <2>2 DEF QueItem
  <2>4. \A x \in DOMAIN que' : x \in DOMAIN que /\ que'[x].height = que[x].height
    BY <2>1, <2>3
  <2> QED BY <1>2, <2>1, <2>4
<1>11. CASE (\E l \in Listener : Register(l)) \/ Query \/ UNCHANGED vars
  BY <1>2, <1>11 DEF Register, Query, vars, data
<1> QED BY <1>1, <1>3, <1>4, <1>5, <1>6, <1>7, <1>8, <1>9, <1>10, <1>11 DEF Next

-----------------------------------------------------------------------------
(* The store follows what is spent.                                          *)

(* A block put in full stays so: nothing of the store is ever taken back.    *)
LEMMA PutStays ==
  ASSUME NEW b, PutInFull(b), DOMAIN ops \subseteq DOMAIN ops',
         DOMAIN txs \subseteq DOMAIN txs', watchDB' = watchDB,
         b \notin late' => b \notin late
  PROVE  PutInFull(b)'
BY DEF PutInFull, OutsIn, Noticed, SpendsWatched

(* Steps that leave the chain, its stores and the position alone.            *)
LEMMA FollowedFrame ==
  ASSUME Followed,
         UNCHANGED <<stored, tip, fork, txs, ops, late, watch, watchDB, listeners,
                     job, batch>>
  PROVE  Followed'
BY DEF Followed, Watched, Filed, Found, Collected, Early, PutInFull, Noticed,
       SpendsWatched

(* A listener registers before there is a block.                             *)
LEMMA RegisterFollowed ==
  ASSUME Sound, Followed, NEW l \in Listener, Register(l)
  PROVE  Followed'
<1>1. /\ stored = {Genesis} /\ job = Idle /\ watch = watchDB
  BY DEF Followed, Watched, Register
<1>2. UNCHANGED <<stored, tip, job, fork>> /\ watch' = watchDB'
  BY <1>1 DEF Register, PutWatch, chain
<1>3. PutInFull(Genesis)'
  BY DEF PutInFull
<1>4. tip = Genesis /\ Branch[Genesis] = {Genesis}
  BY <1>1, TreeFacts DEF Sound, Stores
<1>5. ~Pending(Genesis, job, tip) /\ ~Detached(Genesis, job)
  BY <1>1, <1>4 DEF Pending, Detached, Idle
<1>6. job'.op = "idle"
  BY <1>1, <1>2 DEF Idle
<1> QED BY <1>1, <1>2, <1>3, <1>5, <1>6
        DEF Followed, Watched, Filed, Found, Collected, Early

(* A block arrives: as the new tip it is the one being put, and what waits   *)
(* stays what is off the old tip's branch; otherwise it is filed.            *)
LEMMA CommitBlockFollowed ==
  ASSUME Sound, Followed, NEW b \in Block \ {Genesis}, NEW h \in Handler,
         CommitBlock(b, h)
  PROVE  Followed'
<1>1. /\ listeners = Listener /\ job = Idle /\ b \notin stored
      /\ stored' = stored \cup {b} /\ Prev[b] \in stored
      /\ UNCHANGED <<txs, ops, watch, watchDB, listeners, batch>>
      /\ \/ /\ Height[b] > Height[tip] /\ tip' = b /\ fork' = fork
            /\ job' = PutJob(b, BlockTxs[b], [for |-> h, old |-> tip])
            /\ late' = IF Reorg(b) THEN late \cup {b} ELSE late
         \/ /\ Height[b] <= Height[tip] /\ tip' = tip /\ late' = late
            /\ fork' = Over(Row(b, BlockTxs[b]), fork)
            /\ job' = [op |-> "done", for |-> h]
  BY DEF CommitBlock, Started, PutHeader, PutForkTxs, Done
<1>2. /\ tip \in stored /\ stored \subseteq Block /\ Branch[tip] \subseteq stored
  BY DEF Sound, Stores
<1>3. \A c \in stored :
        /\ PutInFull(c) \/ (c \in DOMAIN fork /\ fork[c] = BlockTxs[c] /\ c \notin Branch[tip])
        /\ c \notin Branch[tip] => c \in DOMAIN fork
  BY <1>1 DEF Followed, Filed, Found, Pending, Idle
<1>4. \A c \in stored : PutInFull(c) => PutInFull(c)'
  BY <1>1, PutStays
<1>5. Watched'
  BY <1>1 DEF Followed, Watched
<1>6. CASE Height[b] > Height[tip]
  <2>1. /\ tip' = b /\ fork' = fork
        /\ job' = [op |-> "put", at |-> b, list |-> BlockTxs[b], left |-> BlockTxs[b],
                   for |-> h, old |-> tip]
        /\ Reorg(b) => b \in late'
    <3>1. ~(Height[b] <= Height[tip])
      BY <1>2, <1>6, TreeFacts
    <3> QED BY <1>1, <3>1 DEF PutJob
  <2>2. \A c : Pending(c, job', tip') <=> c # b /\ c \notin Branch[tip]
    BY <2>1 DEF Pending
  <2>3. \A c : ~Detached(c, job')
    BY <2>1 DEF Detached
  <2>4. Filed' /\ Found'
    BY <1>1, <1>3, <1>4, <2>1, <2>2, <2>3 DEF Filed, Found
  <2>5. Collected' /\ Early'
    BY <1>6, <2>1 DEF Collected, Early, Reorg
  <2> QED BY <1>5, <2>4, <2>5 DEF Followed
<1>7. CASE Height[b] <= Height[tip]
  <2>1. /\ tip' = tip /\ fork' = Over(Row(b, BlockTxs[b]), fork)
        /\ job' = [op |-> "done", for |-> h]
    <3>1. ~(Height[b] > Height[tip])
      BY <1>2, <1>7, TreeFacts
    <3> QED BY <1>1, <3>1
  <2>2. \A c : (Pending(c, job', tip') <=> c \notin Branch[tip]) /\ ~Detached(c, job')
    BY <2>1 DEF Pending, Detached
  <2>3. /\ b \in DOMAIN fork' /\ fork'[b] = BlockTxs[b] /\ b \notin Branch[tip]
        /\ \A c \in stored : c \in DOMAIN fork => c \in DOMAIN fork' /\ fork'[c] = fork[c]
    BY <1>1, <1>2, <2>1 DEF Over, Row
  <2>4. Filed' /\ Found'
    BY <1>1, <1>3, <1>4, <2>2, <2>3 DEF Filed, Found
  <2>5. Collected' /\ Early'
    BY <2>1 DEF Collected, Early
  <2> QED BY <1>5, <2>4, <2>5 DEF Followed
<1> QED BY <1>1, <1>6, <1>7

(* putTx: a transaction with watched outputs, or that spends a known output, *)
(* is wanted.                                                                *)
LEMMA PutTxFollowed ==
  ASSUME Sound, Followed, PutTx, Orderly'
  PROVE  Followed'
<1> DEFINE t == Head(job.left)
           n == Height[job.at]
           w == PutIds([b |-> batch.ids, mem |-> mem, err |-> FALSE], t, n)
           outs == [op \in {<<t, i>> : i \in OutsHit(t)} |-> Tx[t].outs[op[2]]]
<1>1. /\ job.op = "put" /\ job.left # <<>>
      /\ job' = [job EXCEPT !.left = Tail(@)]
      /\ batch' = IF Wanted(t)
                  THEN [txs |-> Over(Row(t, n), batch.txs),
                        ops |-> Over(outs, batch.ops),
                        que |-> Over([k \in Matching(t) \X {t} |-> n], batch.que),
                        ids |-> w.b]
                  ELSE [batch EXCEPT !.ids = w.b]
      /\ UNCHANGED <<chain, data, listeners, watch, late>>
  BY DEF PutTx, Working, Orderly
<1>2. job \in [op : {"put"}, at : Block, list : Seq(Hash), left : Seq(Hash),
               for : Handler, old : Block]
  BY <1>1, JobFields DEF Sound, Moves
<1>3. /\ job' = [op |-> "put", at |-> job.at, list |-> job.list,
                 left |-> Tail(job.left), for |-> job.for, old |-> job.old]
      /\ job.left \in Seq(Hash)
  BY <1>1, <1>2
<1>4. \A x : Has(job.left, x) => x = t \/ Has(Tail(job.left), x)
  <2> SUFFICES ASSUME NEW i \in DOMAIN job.left
               PROVE  job.left[i] = t \/ Has(Tail(job.left), job.left[i])
    BY DEF Has
  <2>1. CASE i = 1
    BY <1>1, <1>3, <2>1
  <2>2. CASE i # 1
    <3>1. i - 1 \in DOMAIN Tail(job.left) /\ Tail(job.left)[i - 1] = job.left[i]
      BY <1>1, <1>3, <2>2
    <3> QED BY <3>1 DEF Has
  <2> QED BY <2>1, <2>2
<1>5. {"txs", "ops", "que", "ids"} \subseteq DOMAIN batch
  BY DEF Sound, Moves
<1>6. watch = watchDB
  BY DEF Followed, Watched
<1>7. /\ OutsIn(t, DOMAIN batch'.ops, watchDB)
      /\ Tx[t].ins \cap DOMAIN ops # {} => t \in DOMAIN batch'.txs
      /\ DOMAIN batch.ops \subseteq DOMAIN batch'.ops
      /\ DOMAIN batch.txs \subseteq DOMAIN batch'.txs
  <2>1. CASE Wanted(t)
    <3>1. /\ batch'.txs = Over(Row(t, n), batch.txs)
          /\ batch'.ops = Over(outs, batch.ops)
      BY <1>1, <2>1
    <3>2. /\ DOMAIN batch'.txs = {t} \cup DOMAIN batch.txs
          /\ DOMAIN batch'.ops = DOMAIN outs \cup DOMAIN batch.ops
      BY <3>1 DEF Over, Row
    <3>3. DOMAIN outs = {<<t, i>> : i \in OutsHit(t)}
      OBVIOUS
    <3> HIDE DEF t, outs
    <3>4. OutsIn(t, DOMAIN outs, watchDB)
      BY <1>6, <3>3 DEF OutsIn, OutsHit, ContainAddr
    <3> QED BY <3>2, <3>4 DEF OutsIn
  <2>2. CASE ~Wanted(t)
    <3>1. batch'.txs = batch.txs /\ batch'.ops = batch.ops
      BY <1>1, <1>5, <2>2
    <3>2. Hits(t) = {}
      BY <2>2 DEF Wanted
    <3> HIDE DEF t
    <3>3. OutsHit(t) = {} /\ Tx[t].ins \cap DOMAIN ops = {}
      BY <3>2 DEF Hits, HaveOp
    <3>4. OutsIn(t, DOMAIN batch.ops, watchDB)
      BY <1>6, <3>3 DEF OutsIn, OutsHit, ContainAddr
    <3> QED BY <3>1, <3>3, <3>4
  <2> QED BY <2>1, <2>2
<1> HIDE DEF t, n, w, outs
<1>8. /\ UNCHANGED <<stored, tip, fork, txs, ops, late, watch, watchDB, listeners>>
      /\ job'.op = job.op /\ job'.at = job.at /\ job'.old = job.old
      /\ job'.list = job.list /\ job'.left = Tail(job.left)
  BY <1>1, <1>3 DEF chain, data
<1>9. \A c : PutInFull(c)' <=> PutInFull(c)
  BY <1>8 DEF PutInFull, Noticed, SpendsWatched
<1>10. \A c : /\ Pending(c, job', tip') <=> Pending(c, job, tip)
              /\ Detached(c, job') <=> Detached(c, job)
  BY <1>8 DEF Pending, Detached
<1>11. Watched'
  BY <1>1, <1>8 DEF Followed, Watched, Idle
<1>12. Filed' /\ Found' /\ Early'
  BY <1>8, <1>9, <1>10 DEF Followed, Filed, Found, Early
<1>13. Collected'
  <2>1. \A b \in Block : job'.at = b => job'.list = BlockTxs[b] \/ PutInFull(b)'
    BY <1>1, <1>8, <1>9 DEF Followed, Collected
  <2>2. ASSUME NEW x \in Hash, Has(job'.list, x), ~Has(job'.left, x)
        PROVE  /\ OutsIn(x, DOMAIN batch'.ops, watchDB')
               /\ Tx[x].ins \cap DOMAIN ops' # {} => x \in DOMAIN batch'.txs
    <3>1. CASE x = t
      BY <1>7, <1>8, <3>1
    <3>2. CASE x # t
      <4>1. Has(job.list, x) /\ ~Has(job.left, x)
        BY <1>4, <1>8, <2>2, <3>2
      <4>2. /\ OutsIn(x, DOMAIN batch.ops, watchDB)
            /\ Tx[x].ins \cap DOMAIN ops # {} => x \in DOMAIN batch.txs
        BY <1>1, <4>1 DEF Followed, Collected
      <4> QED BY <1>7, <1>8, <4>2 DEF OutsIn
    <3> QED BY <3>1, <3>2
  <2> QED BY <2>1, <2>2 DEF Collected
<1> QED BY <1>11, <1>12, <1>13 DEF Followed

(* The chain database goes on up the new branch from block a: what waits     *)
(* then is what is off the main chain or above a.                            *)
LEMMA GoOnPending ==
  ASSUME Sound, job.op \in {"put", "detach"}, NEW a \in Branch[tip], a # tip,
         ChildToward(a, tip) # tip => ChildToward(a, tip) \in DOMAIN fork,
         job' = Connect(ChildToward(a, tip), job)
  PROVE  /\ job'.op \in {"put", "done"}
         /\ \A c \in Block :
              /\ ~Detached(c, job')
              /\ Pending(c, job', tip) <=>
                   c \notin Branch[tip] \/ (c # tip /\ Height[c] > Height[a])
<1> DEFINE b == ChildToward(a, tip)
<1>1. /\ b \in Branch[tip] /\ b \in Block
      /\ Height[b] = 1 + Height[a] /\ Height[a] \in Nat
      /\ \/ job' = [op |-> "done", for |-> job.for] /\ b = tip
         \/ /\ b # tip
            /\ job' = [op |-> "put", at |-> b, list |-> fork[b], left |-> fork[b],
                       for |-> job.for, old |-> job.old]
  BY ConnectFacts
<1> HIDE DEF b
<1>2. tip \in Block
  BY DEF Sound, Stores
<1>3. CASE job' = [op |-> "done", for |-> job.for] /\ b = tip
  <2>1. \A c \in Branch[tip] : Height[c] > Height[a] => c = tip
    <3> SUFFICES ASSUME NEW c \in Branch[tip], Height[c] > Height[a] PROVE c = tip
      OBVIOUS
    <3>1. Height[c] \in Nat /\ Height[c] <= Height[tip] /\ tip \in Branch[tip]
      BY <1>2, BranchFacts
    <3>2. Height[c] = Height[tip]
      BY <1>1, <1>3, <3>1
    <3> QED BY <1>2, <3>1, <3>2, BranchFacts
  <2> QED BY <1>3, <2>1 DEF Pending, Detached
<1>4. CASE /\ b # tip
           /\ job' = [op |-> "put", at |-> b, list |-> fork[b], left |-> fork[b],
                      for |-> job.for, old |-> job.old]
  <2>1. \A c \in Block : Height[c] >= Height[b] <=> Height[c] > Height[a]
    BY <1>1, TreeFacts
  <2> QED BY <1>4, <2>1 DEF Pending, Detached
<1> QED BY <1>1, <1>3, <1>4

LEMMA GoOnFollowed ==
  ASSUME Sound, Followed, job.op \in {"put", "detach"},
         NEW a \in Branch[tip], a # tip,
         job' = Connect(ChildToward(a, tip), job),
         UNCHANGED <<stored, tip, late, watch, watchDB, listeners>>,
         ChildToward(a, tip) # tip =>
           /\ ChildToward(a, tip) \in DOMAIN fork
           /\ fork'[ChildToward(a, tip)] = fork[ChildToward(a, tip)],
         \A c \in stored :
           /\ c \notin Branch[tip] \/ (c # tip /\ Height[c] > Height[a])
                => c \in DOMAIN fork'
           /\ \/ PutInFull(c)'
              \/ /\ fork'[c] = BlockTxs[c] /\ c \in DOMAIN fork'
                 /\ c \notin Branch[tip] \/ (c # tip /\ Height[c] > Height[a])
  PROVE  Followed'
<1> DEFINE b == ChildToward(a, tip)
<1>1. /\ b \in Branch[tip] /\ b \in Block
      /\ \/ job' = [op |-> "done", for |-> job.for]
         \/ /\ b # tip
            /\ job' = [op |-> "put", at |-> b, list |-> fork[b], left |-> fork[b],
                       for |-> job.for, old |-> job.old]
  BY ConnectFacts
<1>2. /\ job'.op \in {"put", "done"}
      /\ \A c \in Block :
           /\ ~Detached(c, job')
           /\ Pending(c, job', tip) <=>
                c \notin Branch[tip] \/ (c # tip /\ Height[c] > Height[a])
  BY GoOnPending
<1>3. /\ stored \subseteq Block /\ Branch[tip] \subseteq stored
      /\ b # tip => fork'[b] = fork[b]
  BY DEF Sound, Stores
<1>4. /\ b \in stored
      /\ PutInFull(b)' \/ fork'[b] = BlockTxs[b]
  BY <1>1, <1>3
<1> HIDE DEF b
<1>5. Watched'
  BY DEF Followed, Watched, Idle
<1>6. Filed' /\ Found'
  BY <1>2, <1>3 DEF Filed, Found
<1>7. Collected'
  <2> SUFFICES ASSUME job'.op = "put" PROVE Collected'
    BY DEF Collected
  <2>1. job'.at = b /\ job'.list = fork[b] /\ job'.left = job'.list /\ fork'[b] = fork[b]
    BY <1>1, <1>3
  <2> QED BY <1>4, <2>1 DEF Collected
<1>8. Early'
  BY <1>1 DEF Followed, Early
<1> QED BY <1>5, <1>6, <1>7, <1>8 DEF Followed

(* dataBatch.Commit: the block has been put in full.  The blocks below it    *)
(* had been, so that what it spends of them was found.                       *)
LEMMA CommitTxsPutsInFull ==
  ASSUME Sound, Followed, CommitTxs, NEW b \in Block, job.at = b
  PROVE  PutInFull(b)'
<1>1. /\ job.op = "put" /\ job.left = <<>>
      /\ DOMAIN txs' = DOMAIN batch.txs \cup DOMAIN txs
      /\ DOMAIN ops' = DOMAIN batch.ops \cup DOMAIN ops
      /\ UNCHANGED <<chain, fork, watchDB, late>>
  BY DEF CommitTxs, Working, Over
<1>2. b \in Branch[tip] /\ tip \in Block /\ Branch[tip] \subseteq stored /\ tip # Genesis
  BY <1>1 DEF Sound, Stores, Moves
<1>3. CASE PutInFull(b)
  BY <1>1, <1>3, PutStays
<1>4. CASE job.list = BlockTxs[b]
  <2>1. ASSUME NEW t \in Hash, InBlock(t, b)
        PROVE  /\ OutsIn(t, DOMAIN batch.ops, watchDB)
               /\ Tx[t].ins \cap DOMAIN ops # {} => t \in DOMAIN batch.txs
    <3>1. Has(job.list, t) /\ ~Has(job.left, t)
      BY <1>1, <1>4, <2>1 DEF Has, InBlock
    <3> QED BY <1>1, <3>1 DEF Followed, Collected
  <2>2. ASSUME b \notin late, NEW c \in Branch[b] \ {b, Genesis} PROVE PutInFull(c)
    <3>1. /\ c \in Branch[tip] /\ c \in stored /\ Height[c] \in Nat
          /\ Height[c] < Height[b] /\ c # tip
      <4>1. c \in Branch[tip] /\ Height[c] \in Nat /\ Height[c] <= Height[b]
            /\ b \in Branch[b] /\ Height[b] \in Nat
        BY <1>2, <2>2, BranchFacts
      <4>2. Height[c] # Height[b]
        BY <2>2, <4>1, BranchFacts
      <4>3. Height[b] <= Height[tip] /\ Height[tip] \in Nat
        BY <1>2, BranchFacts, TreeFacts
      <4> QED BY <1>2, <4>1, <4>2, <4>3
    <3>2. ~Pending(c, job, tip)
      <4>1. CASE b = tip
        <5>1. job.old = Prev[tip]
          BY <1>1, <2>2, <4>1 DEF Followed, Early
        <5>2. c \in Branch[job.old]
          BY <1>2, <3>1, <5>1, TreeFacts
        <5> QED BY <1>1, <4>1, <5>2 DEF Pending
      <4>2. CASE b # tip
        <5>1. ~(Height[c] >= Height[b])
          BY <1>2, <3>1, TreeFacts
        <5> QED BY <1>1, <3>1, <4>2, <5>1 DEF Pending
      <4> QED BY <4>1, <4>2
    <3> QED BY <3>1, <3>2 DEF Followed, Filed
  <2>3. ASSUME b \notin late PROVE Noticed(b)'
    <3> SUFFICES ASSUME NEW c \in Branch[b] \ {b, Genesis}, NEW t \in Hash, NEW s \in Hash,
                        InBlock(t, b), InBlock(s, c), SpendsWatched(t, s)'
                 PROVE  t \in DOMAIN txs'
      BY DEF Noticed
    <3>1. PICK o \in DOMAIN Tx[s].outs : Tx[s].outs[o] \in watchDB /\ <<s, o>> \in Tx[t].ins
      BY <1>1 DEF SpendsWatched
    <3>2. <<s, o>> \in DOMAIN ops
      BY <2>2, <2>3, <3>1 DEF PutInFull, OutsIn
    <3>3. t \in DOMAIN batch.txs
      BY <2>1, <3>1, <3>2
    <3> QED BY <1>1, <3>3
  <2>4. \A s \in Hash : InBlock(s, b) => OutsIn(s, DOMAIN ops', watchDB')
    BY <1>1, <2>1 DEF OutsIn
  <2> QED BY <1>1, <2>3, <2>4 DEF PutInFull
<1> QED BY <1>1, <1>3, <1>4 DEF Followed, Collected

LEMMA CommitTxsFollowed ==
  ASSUME Sound, Followed, CommitTxs
  PROVE  Followed'
<1> DEFINE b == job.at
<1>1. /\ job.op = "put" /\ job' = AfterPut(job)
      /\ DOMAIN txs \subseteq DOMAIN txs' /\ DOMAIN ops \subseteq DOMAIN ops'
      /\ UNCHANGED <<stored, tip, fork, late, watch, watchDB, listeners>>
  BY DEF CommitTxs, Working, Over, chain
<1>2. /\ b \in Branch[tip] /\ b \in Block /\ job.old \in Block
      /\ tip \in Block /\ tip \in stored /\ tip # Genesis
      /\ stored \subseteq Block /\ Branch[tip] \subseteq stored
  BY <1>1, JobFields DEF Sound, Stores, Moves
<1>3. \A c \in Block : c = b => PutInFull(c)'
  BY CommitTxsPutsInFull
<1>4. \A c \in stored : PutInFull(c) => PutInFull(c)'
  BY <1>1, PutStays
<1>5. \A c \in stored :
        \/ PutInFull(c)'
        \/ c \in DOMAIN fork /\ fork[c] = BlockTxs[c] /\ Pending(c, job, tip) /\ c # b
  <2> SUFFICES ASSUME NEW c \in stored, ~PutInFull(c)'
               PROVE  /\ c \in DOMAIN fork /\ fork[c] = BlockTxs[c]
                      /\ Pending(c, job, tip) /\ c # b
    OBVIOUS
  <2>1. c # b
    BY <1>2, <1>3
  <2>2. ~PutInFull(c)
    BY <1>4
  <2> QED BY <2>1, <2>2 DEF Followed, Filed
<1> HIDE DEF b
<1>6. Watched'
  BY <1>1 DEF Followed, Watched, Idle
<1>7. CASE b # tip
  <2>1. \A c \in Block : Pending(c, job, tip) <=>
          c \notin Branch[tip] \/ (c # tip /\ Height[c] >= Height[b])
    BY <1>1, <1>7 DEF Pending, b
  <2>2. ASSUME NEW c \in Block, c # b
        PROVE  Pending(c, job, tip) <=>
                 c \notin Branch[tip] \/ (c # tip /\ Height[c] > Height[b])
    <3>1. c \in Branch[tip] => Height[c] # Height[b]
      BY <1>2, <2>2, BranchFacts
    <3>2. Height[c] \in Nat /\ Height[b] \in Nat
      BY <1>2, <2>2, TreeFacts
    <3> QED BY <2>1, <3>1, <3>2
  <2>3. \A c \in stored : c \notin Branch[tip] \/ (c # tip /\ Height[c] > Height[b])
                            => c \in DOMAIN fork'
    <3> SUFFICES ASSUME NEW c \in stored,
                        c \notin Branch[tip] \/ (c # tip /\ Height[c] > Height[b])
                 PROVE  c \in DOMAIN fork
      BY <1>1
    <3>1. c # b
      BY <1>2, TreeFacts
    <3> QED BY <1>2, <2>2, <3>1 DEF Followed, Found
  <2>4. \A c \in stored :
          \/ PutInFull(c)'
          \/ /\ fork'[c] = BlockTxs[c] /\ c \in DOMAIN fork'
             /\ c \notin Branch[tip] \/ (c # tip /\ Height[c] > Height[b])
    BY <1>1, <1>2, <1>5, <2>2
  <2>5. LET x == ChildToward(b, tip)
        IN  x # tip => x \in DOMAIN fork /\ fork'[x] = fork[x]
    <3> DEFINE x == ChildToward(b, tip)
    <3>1. x \in Branch[tip] /\ Height[x] = 1 + Height[b]
      BY <1>2, <1>7, ChildFacts
    <3> HIDE DEF x
    <3>2. x \in stored /\ Height[x] > Height[b]
      BY <1>2, <3>1, TreeFacts
    <3> QED BY <1>1, <2>3, <3>2 DEF x
  <2>6. job' = Connect(ChildToward(b, tip), job)
    BY <1>1, <1>7 DEF AfterPut, b
  <2> QED BY <1>1, <1>2, <1>7, <2>3, <2>4, <2>5, <2>6, GoOnFollowed
<1>8. CASE b = tip /\ job.old = Prev[tip]
  <2>1. job' = [op |-> "done", for |-> job.for]
    BY <1>1, <1>8 DEF AfterPut, Done, b
  <2>2. Branch[tip] = {tip} \cup Branch[job.old]
    BY <1>2, <1>8, TreeFacts
  <2>3. \A c : /\ Pending(c, job, tip) <=> Pending(c, job', tip)
               /\ ~Detached(c, job')
    BY <1>1, <1>8, <2>1, <2>2 DEF Pending, Detached, b
  <2>4. Filed' /\ Found'
    BY <1>1, <1>5, <2>3 DEF Followed, Filed, Found
  <2>5. Collected' /\ Early'
    BY <2>1 DEF Collected, Early
  <2> QED BY <1>6, <2>4, <2>5 DEF Followed
<1>9. CASE b = tip /\ job.old # Prev[tip]
  <2>1. job' = [op |-> "detach", at |-> job.old, for |-> job.for, old |-> job.old]
    BY <1>1, <1>9 DEF AfterPut, b
  <2>2. \A c : Pending(c, job, tip) <=> Pending(c, job', tip)
    BY <1>1, <1>9, <2>1 DEF Pending, b
  <2>3. \A c : ~Detached(c, job')
    <3>1. \A c \in Branch[job.old] : ~(Height[c] > Height[job.old])
      BY <1>2, BranchFacts, TreeFacts
    <3> QED BY <2>1, <3>1 DEF Detached
  <2>4. Filed' /\ Found'
    BY <1>1, <1>5, <2>2, <2>3 DEF Followed, Filed, Found
  <2>5. Collected' /\ Early'
    BY <1>1, <1>9, <2>1 DEF Followed, Collected, Early
  <2> QED BY <1>6, <2>4, <2>5 DEF Followed
<1> QED BY <1>7, <1>8, <1>9

(* A block of the old branch is filed, with no transactions; it was put in   *)
(* full.  DelTxs finds none to take back.                                    *)
LEMMA DetachFollowed ==
  ASSUME Sound, Followed, Detach
  PROVE  Followed'
<1> DEFINE a == Ancestor(job.old, tip)
           below == Prev[job.at]
<1>1. /\ job.op = "detach" /\ job.at \in Branch[job.old]
      /\ below \in Branch[job.old] /\ below \in Block
      /\ a \in Branch[job.old] /\ a \in Branch[tip] /\ a # tip
      /\ Height[a] \in Nat /\ Height[below] \in Nat
      /\ Height[job.at] = 1 + Height[below]
      /\ GetTxs(Height[job.at]) = <<>> /\ PutForkTxs(job.at, <<>>)
  BY DetachFacts
<1>2. /\ job' = IF below = a THEN Connect(ChildToward(below, tip), job)
                ELSE [job EXCEPT !.at = below]
      /\ UNCHANGED <<stored, tip, late, watch, watchDB, listeners, batch>>
  BY DEF Detach, chain, past
<1>3. DOMAIN txs' = DOMAIN txs /\ DOMAIN ops' = DOMAIN ops
  <2> DEFINE gone == {GetTxs(Height[job.at])[i] : i \in DOMAIN GetTxs(Height[job.at])}
  <2>1. /\ txs' = Without(txs, gone)
        /\ ops' = Without(ops, {op \in DOMAIN ops : op[1] \in gone})
    BY DEF Detach, DelAll
  <2>2. gone = {}
    BY <1>1
  <2> HIDE DEF gone
  <2> QED BY <2>1, <2>2 DEF Without
<1>4. job \in [op : {"detach"}, at : Block, for : Handler, old : Block] /\ tip \in Block
      /\ stored \subseteq Block /\ Branch[tip] \subseteq stored
  BY <1>1, JobFields DEF Sound, Moves, Stores
<1> HIDE DEF a, below
<1>5. /\ DOMAIN fork' = DOMAIN fork \cup {job.at}
      /\ \A c \in DOMAIN fork : c # job.at => fork'[c] = fork[c]
  BY <1>1 DEF PutForkTxs, Over, Row
<1>6. \A c \in stored : PutInFull(c) => PutInFull(c)'
  BY <1>2, <1>3, PutStays
<1>7. \A c : Pending(c, job, tip) <=> c # tip /\ c \notin Branch[job.old]
  BY <1>1 DEF Pending
<1>8. \A c \in stored :
        \/ PutInFull(c)'
        \/ /\ c \in DOMAIN fork' /\ fork'[c] = BlockTxs[c]
           /\ c # tip /\ c \notin Branch[job.old]
  BY <1>1, <1>5, <1>6, <1>7 DEF Followed, Filed
<1>9. ASSUME NEW c \in stored,
             \/ c # tip /\ c \notin Branch[job.old]
             \/ c \in Branch[job.old] /\ Height[c] > Height[below]
      PROVE  c \in DOMAIN fork'
  <2>1. CASE c # tip /\ c \notin Branch[job.old]
    BY <1>5, <1>7, <2>1 DEF Followed, Found
  <2>2. CASE c \in Branch[job.old] /\ Height[c] > Height[job.at]
    BY <1>1, <1>5, <2>2 DEF Followed, Found, Detached
  <2>3. CASE c \in Branch[job.old] /\ Height[c] = Height[job.at]
    <3>1. c = job.at
      BY <1>1, <1>4, <2>3, BranchFacts
    <3> QED BY <1>5, <3>1
  <2>4. Height[c] \in Nat
    BY <1>4, TreeFacts
  <2> QED BY <1>1, <1>9, <2>1, <2>2, <2>3, <2>4
<1>10. Watched'
  BY <1>1, <1>2 DEF Followed, Watched, Idle
<1>11. CASE below # a
  <2>1. job' = [op |-> "detach", at |-> below, for |-> job.for, old |-> job.old]
    BY <1>2, <1>4, <1>11
  <2>2. \A c : /\ Pending(c, job', tip) <=> c # tip /\ c \notin Branch[job.old]
               /\ Detached(c, job') <=> c \in Branch[job.old] /\ Height[c] > Height[below]
    BY <2>1 DEF Pending, Detached
  <2>3. Filed' /\ Found'
    BY <1>2, <1>8, <1>9, <2>2 DEF Filed, Found
  <2>4. Collected' /\ Early'
    BY <1>1, <1>2, <2>1 DEF Followed, Collected, Early
  <2> QED BY <1>10, <2>3, <2>4 DEF Followed
<1>12. CASE below = a
  <2>1. \A y \in Block : y \in Branch[tip] /\ Height[y] > Height[a] => y \notin Branch[job.old]
    <3> SUFFICES ASSUME NEW y \in Block, y \in Branch[tip], y \in Branch[job.old]
                 PROVE  ~(Height[y] > Height[a])
      OBVIOUS
    <3>1. Height[y] <= Height[a]
      BY <1>4, AncestorFacts DEF a
    <3> QED BY <1>1, <3>1, TreeFacts
  <2>2. \A y \in Block : y \in Branch[job.old] /\ y \notin Branch[tip] => Height[y] > Height[a]
    <3> SUFFICES ASSUME NEW y \in Block, y \in Branch[job.old], y \notin Branch[tip]
                 PROVE  Height[y] > Height[a]
      OBVIOUS
    <3>1. ~(Height[y] <= Height[a])
      BY <1>4, AncestorFacts DEF a
    <3> QED BY <1>1, <3>1, TreeFacts
  <2>3. \A y \in Block : y \in Branch[tip] /\ y \notin Branch[job.old] => Height[y] > Height[a]
    <3> SUFFICES ASSUME NEW y \in Block, y \in Branch[tip], y \notin Branch[job.old]
                 PROVE  Height[y] > Height[a]
      OBVIOUS
    <3>1. Height[y] <= Height[a] => y \in Branch[a]
      BY <1>1, <1>4, BranchFacts
    <3>2. y \in Branch[a] => y \in Branch[job.old]
      BY <1>1, <1>4, BranchFacts
    <3> QED BY <1>1, <3>1, <3>2, TreeFacts
  <2>4. \A c \in stored : c \notin Branch[tip] \/ (c # tip /\ Height[c] > Height[a])
                            => c \in DOMAIN fork'
    <3> SUFFICES ASSUME NEW c \in stored,
                        c \notin Branch[tip] \/ (c # tip /\ Height[c] > Height[a])
                 PROVE  c \in DOMAIN fork'
      OBVIOUS
    <3>1. tip \in Branch[tip]
      BY <1>4, BranchFacts
    <3> QED BY <1>4, <1>9, <1>12, <2>1, <2>2, <3>1
  <2>5. \A c \in stored :
          \/ PutInFull(c)'
          \/ /\ fork'[c] = BlockTxs[c] /\ c \in DOMAIN fork'
             /\ c \notin Branch[tip] \/ (c # tip /\ Height[c] > Height[a])
    BY <1>4, <1>8, <2>3
  <2>6. LET x == ChildToward(a, tip)
        IN  x # tip => x \in DOMAIN fork /\ fork'[x] = fork[x]
    <3> DEFINE x == ChildToward(a, tip)
    <3>1. x \in Branch[tip] /\ Height[x] = 1 + Height[a]
      BY <1>1, <1>4, ChildFacts
    <3> HIDE DEF x
    <3>2. x \in stored /\ x \notin Branch[job.old]
      BY <1>1, <1>4, <2>1, <3>1
    <3>3. x # tip => x \in DOMAIN fork
      BY <1>7, <3>2 DEF Followed, Found
    <3> QED BY <1>1, <1>5, <3>2, <3>3 DEF x
  <2>7. job' = Connect(ChildToward(a, tip), job)
    BY <1>2, <1>12
  <2> QED BY <1>1, <1>2, <2>4, <2>5, <2>6, <2>7, GoOnFollowed
<1> QED BY <1>11, <1>12

LEMMA NextFollowed ==
  ASSUME Sound, Followed, faults \in Nat, [Next]_vars, Orderly'
  PROVE  Followed'
<1>1. ~CommitFails /\ ~Restart
  BY WasOrderly
<1>2. ASSUME NEW l \in Listener, Register(l) PROVE Followed'
  BY <1>2, RegisterFollowed
<1>3. ASSUME NEW b \in Block \ {Genesis}, NEW h \in Handler, CommitBlock(b, h)
      PROVE  Followed'
  BY <1>3, CommitBlockFollowed
<1>4. CASE PutTx \/ CommitTxs \/ Detach
  BY <1>4, PutTxFollowed, CommitTxsFollowed, DetachFollowed
<1>5. CASE BlockProcessed
  <2>1. /\ job.op = "done" /\ job' = Idle /\ job'.op = "idle"
        /\ UNCHANGED <<stored, tip, fork, txs, ops, late, watch, watchDB, listeners>>
    BY <1>5 DEF BlockProcessed, Idle, chain, data, past
  <2>2. \A c : /\ PutInFull(c)' <=> PutInFull(c)
               /\ Pending(c, job', tip') <=> Pending(c, job, tip)
               /\ ~Detached(c, job')
    BY <2>1 DEF PutInFull, Noticed, SpendsWatched, Pending, Detached
  <2>3. Filed' /\ Found'
    BY <2>1, <2>2 DEF Followed, Filed, Found
  <2> QED BY <2>1, <2>3 DEF Followed, Watched, Collected, Early
<1>6. ASSUME NEW h \in Handler, GetAll(h) \/ PutBack(h) \/ EndNotify(h)
      PROVE  Followed'
  BY <1>6, FollowedFrame DEF GetAll, PutBack, EndNotify, chain, data, past
<1>7. ASSUME NEW h \in Handler, NEW current \in BOOLEAN, NEW item \in Todo(h),
             NotifyTx(h, item, current)
      PROVE  Followed'
  BY <1>7, FollowedFrame DEF NotifyTx, chain
<1>8. ASSUME NEW k \in Key, SubmitTransactionReceipt(k) \/ NotifyTimeout(k)
      PROVE  Followed'
  BY <1>8, FollowedFrame DEF SubmitTransactionReceipt, NotifyTimeout, chain, past
<1>9. CASE Query \/ UNCHANGED vars
  BY <1>9, FollowedFrame DEF Query, vars, chain, data, past
<1> QED BY <1>1, <1>2, <1>3, <1>4, <1>5, <1>6, <1>7, <1>8, <1>9 DEF Next

(* The inductive invariant: what was shown above, in runs where it holds.    *)
QueueInv ==
  /\ IInv /\ faults \in Nat /\ Sound
  /\ Orderly => Followed
  /\ Orderly /\ "revived" \notin wrong => OnMain

LEMMA QueueInvariance == Spec => []QueueInv
<1>1. Init => QueueInv
  <2> SUFFICES ASSUME Init PROVE QueueInv
    OBVIOUS
  <2>1. OnMain
    BY DEF Init, OnMain, ItemsOnMain, ReadOnMain, ReadOK, Resting
  <2>2. Followed
    <3>1. PutInFull(Genesis)
      BY DEF PutInFull
    <3>2. ~Pending(Genesis, job, tip) /\ ~Detached(Genesis, job)
      BY TreeFacts DEF Init, Pending, Detached, Idle
    <3> QED BY <3>1, <3>2 DEF Init, Followed, Watched, Filed, Found, Collected, Early, Idle
  <2> QED BY <2>1, <2>2, InitIInv, InitSound DEF QueueInv, Init
<1>2. QueueInv /\ [Next]_vars => QueueInv'
  <2> SUFFICES ASSUME QueueInv, [Next]_vars PROVE QueueInv'
    OBVIOUS
  <2>1. IInv'
    BY NextIInv DEF QueueInv
  <2>2. faults' \in Nat
    <3>1. faults' \in {faults, faults + 1}
      BY FaultsStep
    <3> QED BY <3>1 DEF QueueInv
  <2>3. Sound'
    BY NextSound DEF QueueInv, IInv
  <2>4. ASSUME Orderly' PROVE Followed'
    BY <2>4, WasOrderly, NextFollowed DEF QueueInv
  <2>5. ASSUME Orderly', "revived" \notin wrong' PROVE OnMain'
    <3>1. Orderly /\ "revived" \notin wrong
      BY <2>5, WasOrderly DEF QueueInv
    <3> QED BY <2>5, <3>1, NextOnMain DEF QueueInv
  <2> QED BY <2>1, <2>2, <2>3, <2>4, <2>5 DEF QueueInv
<1> QED BY <1>1, <1>2, PTL DEF Spec

(* A listener that waits for confirmations is called for a transaction of    *)
(* the main chain, with enough blocks above it (spvservice.go:BlockCommitted *)
(* and notifyTransaction), whatever forks and reorganisations came before.   *)
THEOREM AlwaysConfirmed == Spec => []NotifiedConfirmed
<1>1. QueueInv => NotifiedConfirmed
  <2> SUFFICES ASSUME QueueInv, NEW h \in Handler, hand[h].pc = "put",
                      hand[h].item.key[1].confirmed, ~hand[h].stale,
                      "revived" \notin wrong, Orderly
               PROVE  \E b \in Branch[tip] :
                        /\ Height[b] = hand[h].item.height
                        /\ InBlock(hand[h].item.key[2], b)
                        /\ Height[tip] - hand[h].item.height
                             >= getConfirmations(hand[h].item.key[2])
    BY DEF NotifiedConfirmed
  <2> DEFINE item == hand[h].item
             top == hand[h].height
             conf == getConfirmations(item.key[2])
  <2>1. /\ Sound /\ OnMain /\ HandOK(hand[h], Height[tip])
        /\ ReadOK(hand[h], tip, stored)
    BY DEF QueueInv, Sound, Hands, OnMain, ReadOnMain
  <2>2. /\ top \in Nat /\ item.height \in Nat /\ top <= Height[tip]
        /\ OnBranch(item.key[2], item.height, tip)
        /\ Ripe(item.key[1], item.key[2], top, item.height)
    BY <2>1 DEF HandOK, ReadOK
  <2>3. Height[tip] \in Nat /\ conf \in Nat
    BY <2>1, TreeFacts, SpvAssumption, ConfirmationsAssumption
       DEF Sound, Stores, getConfirmations
  <2>4. PICK b \in Branch[tip] : Height[b] = item.height /\ InBlock(item.key[2], b)
    BY <2>2 DEF OnBranch
  <2>5. (IF top > item.height THEN top - item.height ELSE 0) >= conf
    BY <2>2 DEF Ripe
  <2>6. item.height <= Height[tip]
    BY <2>1, <2>4, BranchFacts DEF Sound, Stores
  <2> HIDE DEF item, top, conf
  <2>7. Height[tip] - item.height >= conf
    BY <2>2, <2>3, <2>5, <2>6
  <2> QED BY <2>4, <2>7 DEF item, conf
<1> QED BY <1>1, QueueInvariance, PTL

(* The header handed to a listener with the proof is that of the block which *)
(* has the transaction, when no other branch has a header of its height in   *)
(* the store (headerstore.go: GetByHeight returns the last one put).         *)
THEOREM ProofAlwaysVerifies == Spec => []ProofVerifies
<1>1. QueueInv => ProofVerifies
  <2> SUFFICES ASSUME QueueInv, NEW h \in Handler, hand[h].pc = "put",
                      ~hand[h].stale, "revived" \notin wrong, Orderly,
                      \A b \in stored : Height[b] = hand[h].item.height
                                          => b \in Branch[tip]
               PROVE  InBlock(hand[h].item.key[2], hand[h].proof)
    BY DEF ProofVerifies
  <2>1. ReadOK(hand[h], tip, stored) /\ tip \in Block
    BY DEF QueueInv, Sound, Stores, OnMain, ReadOnMain
  <2>2. /\ OnBranch(hand[h].item.key[2], hand[h].item.height, tip)
        /\ hand[h].proof \in Branch[tip]
        /\ Height[hand[h].proof] = hand[h].item.height
    BY <2>1 DEF ReadOK
  <2>3. PICK b \in Branch[tip] : /\ Height[b] = hand[h].item.height
                                 /\ InBlock(hand[h].item.key[2], b)
    BY <2>2 DEF OnBranch
  <2>4. b = hand[h].proof
    BY <2>1, <2>2, <2>3, BranchFacts
  <2> QED BY <2>3, <2>4
<1> QED BY <1>1, QueueInvariance, PTL

(* "It is important to put transactions by order": what a block spends of    *)
(* the watched outputs of the blocks below it is in the store                *)
(* (spvservice.go:putTx), across forks and reorganisations, unless the block *)
(* caused one and was put before the blocks below it (chaindb.go:38).        *)
THEOREM SpendsAlwaysFollowed == Spec => []SpendsFollowed
<1>1. QueueInv => SpendsFollowed
  <2> SUFFICES ASSUME QueueInv, job = Idle, Orderly,
                      NEW b \in Branch[tip] \ late, NEW c \in Branch[tip] \ {Genesis},
                      Height[c] < Height[b], NEW t \in Hash, NEW s \in Hash,
                      InBlock(t, b), InBlock(s, c), SpendsWatched(t, s)
               PROVE  t \in DOMAIN txs
    BY DEF SpendsFollowed, Settled
  <2>1. Followed /\ tip \in Block /\ Branch[tip] \subseteq stored
    BY DEF QueueInv, Sound, Stores
  <2>2. /\ c \in Block /\ b \in Block /\ Height[c] \in Nat /\ Height[b] \in Nat
        /\ c \in Branch[b] /\ c # b
    BY <2>1, BranchFacts
  <2>3. PutInFull(b)
    BY <2>1 DEF Followed, Filed, Pending, Idle
  <2>4. b # Genesis
    BY <2>2, TreeFacts
  <2> QED BY <2>2, <2>3, <2>4 DEF PutInFull, Noticed
<1> QED BY <1>1, QueueInvariance, PTL

-----------------------------------------------------------------------------
(* What is kept of a list.                                                   *)

KeepBase(S) == <<>>
KeepStep(S, kept, x) == IF x \in S THEN Append(kept, x) ELSE kept
Kept == INSTANCE FoldProofs WITH Base <- KeepBase, Step <- KeepStep

(* kept has the elements of the first k of s that are in S: f says where     *)
(* they were, in the same order, and none is missing.                        *)
Places(s, S, k, kept, f) ==
  /\ f \in [1 .. Len(kept) -> 1 .. k]
  /\ \A i, j \in 1 .. Len(kept) : i < j => f[i] < f[j]
  /\ \A j \in 1 .. Len(kept) : kept[j] = s[f[j]] /\ s[f[j]] \in S
  /\ \A i \in 1 .. k : s[i] \in S => \E j \in 1 .. Len(kept) : f[j] = i

LEMMA KeepOne ==
  ASSUME NEW T, NEW s \in Seq(T), NEW S, NEW k \in Nat, k + 1 \in 1 .. Len(s),
         NEW kept \in Seq(T), NEW f, Places(s, S, k, kept, f)
  PROVE  \E g : Places(s, S, k + 1, KeepStep(S, kept, s[k + 1]), g)
<1> DEFINE n == Len(kept)
<1>0. n \in Nat /\ f \in [1 .. n -> 1 .. k] /\ s[k + 1] \in T
  BY LenProperties DEF Places
<1>1. CASE s[k + 1] \notin S
  <2>1. KeepStep(S, kept, s[k + 1]) = kept
    BY <1>1 DEF KeepStep
  <2>2. f \in [1 .. n -> 1 .. k + 1]
    BY <1>0
  <2>3. \A i \in 1 .. k + 1 : s[i] \in S => i \in 1 .. k
    BY <1>1
  <2>4. Places(s, S, k + 1, kept, f)
    BY <2>2, <2>3 DEF Places
  <2> QED BY <2>1, <2>4
<1>2. CASE s[k + 1] \in S
  <2> DEFINE new == Append(kept, s[k + 1])
             g == [j \in 1 .. n + 1 |-> IF j = n + 1 THEN k + 1 ELSE f[j]]
  <2>1. KeepStep(S, kept, s[k + 1]) = new
    BY <1>2 DEF KeepStep
  <2>2. /\ Len(new) = n + 1 /\ new[n + 1] = s[k + 1]
        /\ \A j \in 1 .. n : new[j] = kept[j]
    <3>1. PICK x \in T : x = s[k + 1]
      BY <1>0
    <3>2. /\ Len(Append(kept, x)) = n + 1 /\ Append(kept, x)[n + 1] = x
          /\ \A j \in 1 .. n : Append(kept, x)[j] = kept[j]
      BY AppendProperties
    <3> QED BY <3>1, <3>2
  <2>3. ASSUME NEW j \in 1 .. n PROVE g[j] = f[j] /\ f[j] \in 1 .. k
    <3>1. j \in 1 .. n + 1 /\ j # n + 1
      BY <1>0
    <3>2. f[j] \in 1 .. k
      BY <1>0
    <3> QED BY <3>1, <3>2
  <2>4. g[n + 1] = k + 1
    BY <1>0
  <2>5. g \in [1 .. n + 1 -> 1 .. k + 1]
    BY <1>0, <2>3, <2>4
  <2> HIDE DEF g, new
  <2>6. ASSUME NEW i \in 1 .. n + 1, NEW j \in 1 .. n + 1, i < j PROVE g[i] < g[j]
    <3>1. CASE j = n + 1
      <4>1. i \in 1 .. n
        BY <1>0, <2>6, <3>1
      <4>2. g[i] \in 1 .. k
        BY <2>3, <4>1
      <4>3. g[j] = k + 1
        BY <2>4, <3>1
      <4> QED BY <4>2, <4>3
    <3>2. CASE j # n + 1
      <4>1. i \in 1 .. n
        BY <1>0, <2>6
      <4>2. j \in 1 .. n
        BY <1>0, <3>2
      <4>3. f[i] < f[j]
        BY <2>6, <4>1, <4>2 DEF Places
      <4>4. g[i] = f[i] /\ g[j] = f[j]
        BY <2>3, <4>1, <4>2
      <4> QED BY <4>3, <4>4
    <3> QED BY <3>1, <3>2
  <2>7. ASSUME NEW j \in 1 .. n + 1 PROVE new[j] = s[g[j]] /\ s[g[j]] \in S
    <3>1. CASE j = n + 1
      BY <1>2, <2>2, <2>4, <3>1
    <3>2. CASE j # n + 1
      <4>1. j \in 1 .. n
        BY <1>0, <3>2
      <4> QED BY <2>2, <2>3, <4>1 DEF Places
    <3> QED BY <3>1, <3>2
  <2>8. ASSUME NEW i \in 1 .. k + 1, s[i] \in S PROVE \E j \in 1 .. n + 1 : g[j] = i
    <3>1. CASE i = k + 1
      BY <1>0, <2>4, <3>1
    <3>2. CASE i # k + 1
      <4>1. i \in 1 .. k
        BY <3>2
      <4>2. PICK j \in 1 .. n : f[j] = i
        BY <2>8, <4>1 DEF Places
      <4>3. j \in 1 .. n + 1 /\ g[j] = i
        BY <1>0, <2>3, <4>2
      <4> QED BY <4>3
    <3> QED BY <3>1, <3>2
  <2>9. Places(s, S, k + 1, new, g)
    BY <2>2, <2>5, <2>6, <2>7, <2>8 DEF Places
  <2> QED BY <2>1, <2>9
<1> QED BY <1>1, <1>2

LEMMA KeepPlaces ==
  ASSUME NEW T, NEW s \in Seq(T), NEW S
  PROVE  Keep(s, S) \in Seq(T) /\ \E f : Places(s, S, Len(s), Keep(s, S), f)
<1> DEFINE n == Len(s)
<1>0. n \in Nat
  BY LenProperties
<1>1. Keep(s, S) = Kept!Folded(S, s)
  BY DEF Keep, FoldLeft, MapThenFoldSet, Max, Kept!Folded, Kept!Solves,
     Kept!Largest, KeepBase, KeepStep
<1>2. PICK r : Kept!IsRun(S, s, r) /\ Keep(s, S) = r[n]
  BY <1>1, Kept!FoldRun
<1> DEFINE R == {k \in 0 .. n : r[k] \in Seq(T) /\ \E f : Places(s, S, k, r[k], f)}
<1>3. 0 \in R
  <2>1. r[0] = <<>> /\ Len(<<>>) = 0 /\ <<>> \in Seq(T)
    BY <1>2, EmptySeq DEF Kept!IsRun, KeepBase
  <2>2. Places(s, S, 0, <<>>, <<>>)
    BY <2>1 DEF Places
  <2>3. r[0] \in Seq(T) /\ Places(s, S, 0, r[0], <<>>)
    BY <2>1, <2>2, Zenon
  <2> QED BY <1>0, <2>3
<1>4. ASSUME NEW k \in 0 .. n - 1, k \in R PROVE k + 1 \in R
  <2>1. k + 1 \in 1 .. n /\ (k + 1) - 1 = k /\ k \in Nat /\ k + 1 \in 0 .. n
    BY <1>0
  <2>2. r[k + 1] = KeepStep(S, r[k], s[k + 1])
    <3>1. r[k + 1] = KeepStep(S, r[(k + 1) - 1], s[k + 1])
      BY <1>2, <2>1 DEF Kept!IsRun
    <3> QED BY <2>1, <3>1
  <2>3. r[k] \in Seq(T) /\ s[k + 1] \in T
    BY <1>4, <2>1
  <2>4. r[k + 1] \in Seq(T)
    BY <2>2, <2>3 DEF KeepStep
  <2>5. PICK f : Places(s, S, k, r[k], f)
    BY <1>4
  <2>6. \E g : Places(s, S, k + 1, KeepStep(S, r[k], s[k + 1]), g)
    BY <2>1, <2>3, <2>5, KeepOne
  <2> QED BY <2>1, <2>2, <2>4, <2>6
<1>5. n \in R
  <2> HIDE DEF R, n
  <2>1. 0 .. n \subseteq R
    BY <1>0, <1>3, <1>4, Kept!CountUp
  <2> QED BY <1>0, <2>1
<1> QED BY <1>2, <1>5

-----------------------------------------------------------------------------
(* The lists of positions.                                                   *)

Elems(list) == {list[i] : i \in DOMAIN list}
Heights(list) == /\ list \in Seq(Nat)
                 /\ \A i, j \in DOMAIN list : i < j => list[i] < list[j]

Change == [workingHeight : Nat, mode : {"POW", "DPOS"}]
Changes(list) ==
  /\ list \in Seq(Change)
  /\ \A i, j \in DOMAIN list : i < j => list[i].workingHeight < list[j].workingHeight

(* Appending what is higher than all there is.                               *)
LEMMA AppendParts ==
  ASSUME NEW T, NEW list \in Seq(T), NEW x \in T
  PROVE  LET new == Append(list, x) IN
         /\ new \in Seq(T) /\ new # <<>> /\ Len(new) = Len(list) + 1
         /\ Len(list) \in Nat /\ DOMAIN list = 1 .. Len(list)
         /\ DOMAIN new = 1 .. Len(list) + 1
         /\ new[Len(list) + 1] = x
         /\ \A i \in 1 .. Len(list) : new[i] = list[i]
         /\ \A i \in DOMAIN new : i \in DOMAIN list \/ i = Len(list) + 1
<1> DEFINE new == Append(list, x)
<1>1. Len(list) \in Nat /\ DOMAIN list = 1 .. Len(list)
  BY LenProperties
<1>2. /\ new \in Seq(T) /\ Len(new) = Len(list) + 1 /\ new[Len(list) + 1] = x
      /\ \A i \in 1 .. Len(list) : new[i] = list[i]
  BY AppendProperties
<1>3. DOMAIN new = 1 .. Len(list) + 1
  BY <1>2, LenProperties
<1>4. new # <<>>
  BY <1>1, <1>2, EmptySeq
<1>5. \A i \in DOMAIN new : i \in DOMAIN list \/ i = Len(list) + 1
  BY <1>1, <1>3
<1> QED BY <1>1, <1>2, <1>3, <1>4, <1>5

LEMMA PutHeightFacts ==
  ASSUME NEW list, Heights(list), NEW h \in Nat
  PROVE  /\ Heights(PutHeight(list, h)) /\ PutHeight(list, h) # <<>>
         /\ PutHeight(list, h)[Len(PutHeight(list, h))] = h
         /\ Elems(PutHeight(list, h)) = {h} \cup {p \in Elems(list) : p < h}
<1> DEFINE S == 0 .. h - 1
           kept == Keep(list, S)
           new == Append(kept, h)
<1>0. list \in Seq(Nat) /\ DOMAIN list = 1 .. Len(list) /\ Len(list) \in Nat
  BY LenProperties DEF Heights
<1>1. kept \in Seq(Nat) /\ PutHeight(list, h) = new
  BY <1>0, KeepPlaces DEF PutHeight
<1>2. PICK f : Places(list, S, Len(list), kept, f)
  BY <1>0, KeepPlaces
<1> DEFINE n == Len(kept)
<1>3. /\ n \in Nat /\ DOMAIN kept = 1 .. n /\ DOMAIN new = 1 .. n + 1
      /\ Len(new) = n + 1 /\ new # <<>> /\ new \in Seq(Nat)
      /\ new[n + 1] = h /\ \A i \in 1 .. n : new[i] = kept[i]
      /\ \A i \in DOMAIN new : i \in 1 .. n \/ i = n + 1
  BY <1>1, AppendParts
<1> HIDE DEF kept, new, n, S
<1>4. ASSUME NEW i \in 1 .. n
      PROVE  /\ f[i] \in DOMAIN list /\ kept[i] = list[f[i]]
             /\ kept[i] \in Nat /\ kept[i] < h
  <2>1. f[i] \in 1 .. Len(list) /\ kept[i] = list[f[i]] /\ list[f[i]] \in S
    BY <1>2 DEF Places, n
  <2> QED BY <1>0, <2>1 DEF S
<1>5. ASSUME NEW i \in 1 .. n, NEW j \in 1 .. n, i < j PROVE kept[i] < kept[j]
  <2>1. f[i] < f[j]
    BY <1>2, <1>5 DEF Places, n
  <2> QED BY <1>4, <2>1 DEF Heights
<1>6. ASSUME NEW i \in DOMAIN new, NEW j \in DOMAIN new, i < j PROVE new[i] < new[j]
  <2>1. i \in 1 .. n
    BY <1>3, <1>6
  <2>2. CASE j = n + 1
    BY <1>3, <1>4, <2>1, <2>2
  <2>3. CASE j # n + 1
    <3>1. j \in 1 .. n
      BY <1>3, <2>3
    <3> QED BY <1>3, <1>5, <1>6, <2>1, <3>1
  <2> QED BY <2>2, <2>3
<1>7. Elems(new) = {h} \cup {p \in Elems(list) : p < h}
  <2>1. ASSUME NEW p \in Elems(new) PROVE p = h \/ (p \in Elems(list) /\ p < h)
    <3>1. PICK i \in DOMAIN new : p = new[i]
      BY DEF Elems
    <3> QED BY <1>3, <1>4, <3>1 DEF Elems
  <2>2. ASSUME NEW p \in Elems(list), p < h PROVE p \in Elems(new)
    <3>1. PICK i \in DOMAIN list : p = list[i]
      BY DEF Elems
    <3>2. p \in Nat
      BY <1>0, <3>1
    <3>3. p \in S /\ i \in 1 .. Len(list)
      BY <1>0, <2>2, <3>2 DEF S
    <3>4. PICK j \in 1 .. n : f[j] = i
      BY <1>2, <3>1, <3>3 DEF Places, n
    <3>5. j \in DOMAIN new /\ new[j] = p
      BY <1>3, <1>4, <3>1, <3>4
    <3> QED BY <3>5 DEF Elems
  <2>3. h \in Elems(new)
    <3>1. n + 1 \in DOMAIN new
      BY <1>3
    <3> QED BY <1>3, <3>1 DEF Elems
  <2> QED BY <2>1, <2>2, <2>3
<1>8. Heights(new)
  BY <1>3, <1>6 DEF Heights
<1> QED BY <1>1, <1>3, <1>7, <1>8

LEMMA PutChangeFacts ==
  ASSUME NEW list, Changes(list), NEW h \in Nat, NEW mode \in {"POW", "DPOS"}
  PROVE  LET below == [workingHeight : 0 .. h - 1, mode : {"POW", "DPOS"}]
             new == Append(Keep(list, below), RevertInfo(h, mode))
         IN Changes(new) /\ new # <<>>
<1> DEFINE S == [workingHeight : 0 .. h - 1, mode : {"POW", "DPOS"}]
           kept == Keep(list, S)
           new == Append(kept, RevertInfo(h, mode))
           n == Len(kept)
<1>0. list \in Seq(Change) /\ DOMAIN list = 1 .. Len(list) /\ Len(list) \in Nat
  BY LenProperties DEF Changes
<1>1. kept \in Seq(Change) /\ \E f : Places(list, S, Len(list), kept, f)
  BY <1>0, KeepPlaces
<1>2. PICK f : Places(list, S, Len(list), kept, f)
  BY <1>1
<1>3. RevertInfo(h, mode) \in Change /\ RevertInfo(h, mode).workingHeight = h
  BY DEF RevertInfo, Change
<1>4. /\ n \in Nat /\ DOMAIN new = 1 .. n + 1 /\ new # <<>> /\ new \in Seq(Change)
      /\ new[n + 1] = RevertInfo(h, mode) /\ \A i \in 1 .. n : new[i] = kept[i]
      /\ \A i \in DOMAIN new : i \in 1 .. n \/ i = n + 1
  BY <1>1, <1>3, AppendParts
<1> HIDE DEF kept, new, n, S
<1>5. ASSUME NEW i \in 1 .. n
      PROVE  /\ f[i] \in DOMAIN list /\ kept[i] = list[f[i]]
             /\ kept[i].workingHeight \in Nat /\ kept[i].workingHeight < h
  <2>1. f[i] \in 1 .. Len(list) /\ kept[i] = list[f[i]] /\ list[f[i]] \in S
    BY <1>2 DEF Places, n
  <2>2. list[f[i]].workingHeight \in 0 .. h - 1
    BY <2>1 DEF S
  <2> QED BY <1>0, <2>1, <2>2
<1>6. ASSUME NEW i \in DOMAIN new, NEW j \in DOMAIN new, i < j
      PROVE  new[i].workingHeight < new[j].workingHeight
  <2>1. i \in 1 .. n
    BY <1>4, <1>6
  <2>2. CASE j = n + 1
    BY <1>3, <1>4, <1>5, <2>1, <2>2
  <2>3. CASE j # n + 1
    <3>1. j \in 1 .. n
      BY <1>4, <2>3
    <3>2. f[i] < f[j]
      BY <1>2, <1>6, <2>1, <3>1 DEF Places, n
    <3>3. list[f[i]].workingHeight < list[f[j]].workingHeight
      BY <1>5, <2>1, <3>1, <3>2 DEF Changes
    <3> QED BY <1>4, <1>5, <2>1, <3>1, <3>3
  <2> QED BY <2>2, <2>3
<1>7. Changes(new)
  BY <1>4, <1>6 DEF Changes
<1> QED BY <1>4, <1>7 DEF new, kept, S

-----------------------------------------------------------------------------
(* The state of the side chain stores: the maps in memory, and the working   *)
(* state of an operation.                                                    *)

IsMem(m) ==
  m = [pos |-> m.pos, revertPos |-> m.revertPos, sets |-> m.sets,
       reserved |-> m.reserved, received |-> m.received, feePos |-> m.feePos]
IsW(w) == w = [b |-> w.b, mem |-> w.mem, err |-> w.err] /\ IsMem(w.mem)

(* d and e have the same under a key.                                        *)
Same(d, e, key) == /\ key \in DOMAIN d <=> key \in DOMAIN e
                   /\ key \in DOMAIN d => d[key] = e[key]

LEMMA OverRow ==
  ASSUME NEW d, NEW key, NEW value
  PROVE  LET e == Over(Row(key, value), d) IN
         /\ DOMAIN e = DOMAIN d \cup {key} /\ e[key] = value
         /\ \A k : k # key => Same(e, d, k)
<1> DEFINE e == Over(Row(key, value), d)
<1>1. DOMAIN e = DOMAIN d \cup {key} /\ e[key] = value
  BY DEF Over, Row
<1>2. ASSUME NEW k, k # key PROVE Same(e, d, k)
  BY <1>2 DEF Over, Row, Same
<1> QED BY <1>1, <1>2

(* v is w with a key put.                                                    *)
IsPut(v, w, key, value) ==
  /\ IsW(v) /\ v.mem = w.mem /\ v.err = w.err
  /\ DOMAIN v.b = DOMAIN w.b \cup {key} /\ v.b[key] = value
  /\ \A k : k # key => Same(v.b, w.b, k)

LEMMA PutShape ==
  ASSUME NEW w, IsW(w), NEW key, NEW value
  PROVE  IsPut(Put(w, key, value), w, key, value)
<1> DEFINE v == Put(w, key, value)
<1>1. v = [w EXCEPT !.b = Over(Row(key, value), w.b)]
  BY DEF Put
<1>2. v = [b |-> Over(Row(key, value), w.b), mem |-> w.mem, err |-> w.err]
  BY <1>1 DEF IsW
<1>3. IsW(v)
  BY <1>2 DEF IsW
<1>4. v.mem = w.mem /\ v.err = w.err /\ v.b = Over(Row(key, value), w.b)
  BY <1>2
<1> DEFINE e == Over(Row(key, value), w.b)
<1>5. /\ DOMAIN e = DOMAIN w.b \cup {key} /\ e[key] = value
      /\ \A k : k # key => Same(e, w.b, k)
  BY OverRow
<1> HIDE DEF v, e
<1>6. /\ DOMAIN v.b = DOMAIN w.b \cup {key} /\ v.b[key] = value
      /\ \A k : k # key => Same(v.b, w.b, k)
  BY <1>4, <1>5, Zenon DEF e
<1> QED BY <1>3, <1>4, <1>6 DEF v, IsPut

(* A key that is looked up in what is written over a table.                  *)
LEMMA LookupOver ==
  ASSUME NEW b, NEW db, NEW key
  PROVE  Lookup(Over(b, db), key) = IF key \in DOMAIN b THEN b[key] ELSE Lookup(db, key)
BY DEF Lookup, Over

LEMMA LookupWrite ==
  ASSUME NEW b, NEW db, NEW key
  PROVE  Lookup(Write(db, b), key) = Lookup(Over(b, db), key)
<1> DEFINE all == Over(b, db)
<1>1. Write(db, b) = [k \in {x \in DOMAIN all : all[x] # None} |-> all[k]]
  BY DEF Write
<1> HIDE DEF all
<1>2. Lookup(Write(db, b), key) = Lookup(all, key)
  BY <1>1 DEF Lookup
<1> QED BY <1>2 DEF all

LEMMA ListOfLookup ==
  ASSUME NEW d, NEW e, NEW key, Lookup(d, key) = Lookup(e, key)
  PROVE  ListOf(d, key) = ListOf(e, key)
BY DEF Lookup, ListOf

(* The height that has a set in full, as far as the store knows.             *)
Known(db, m, set) == IF set \in DOMAIN m.sets THEN m.sets[set]
                     ELSE Lookup(db, <<"txheight", set>>)
TurnKeys(h, set) == {<<"arbptn">>, <<"arbpts">>, <<"arbdata", h>>, <<"txheight", set>>}

(* v is w after BatchPut.                                                    *)
IsTurn(v, w, db, h, set) ==
  LET positions == PutHeight(getCurrentPositions(db), h)
      known == Known(db, w.mem, set)
  IN /\ IsW(v) /\ v.err = w.err
     /\ v.mem.pos = positions
     /\ v.mem.sets = Over(Row(set, IF known = None THEN h ELSE known), w.mem.sets)
     /\ v.mem.revertPos = w.mem.revertPos /\ v.mem.reserved = w.mem.reserved
     /\ v.mem.received = w.mem.received /\ v.mem.feePos = w.mem.feePos
     /\ {<<"arbptn">>, <<"arbpts">>, <<"arbdata", h>>} \subseteq DOMAIN v.b
     /\ v.b[<<"arbptn">>] = h /\ v.b[<<"arbpts">>] = positions
     /\ v.b[<<"arbdata", h>>] = IF known = None THEN Full(set) ELSE Ref(known)
     /\ known = None => /\ <<"txheight", set>> \in DOMAIN v.b
                        /\ v.b[<<"txheight", set>>] = h
     /\ known # None => Same(v.b, w.b, <<"txheight", set>>)
     /\ \A k : k \notin TurnKeys(h, set) => Same(v.b, w.b, k)

LEMMA TurnShape ==
  ASSUME NEW w, IsW(w), NEW db, NEW h, NEW set
  PROVE  IsTurn(BatchPut(db, w, h, set), w, db, h, set)
<1> DEFINE v == BatchPut(db, w, h, set)
           positions == PutHeight(getCurrentPositions(db), h)
           known == Known(db, w.mem, set)
           first == IF known = None THEN h ELSE known
           w0 == Put(w, <<"arbptn">>, h)
           w1 == Put(w0, <<"arbpts">>, positions)
           a == Put(w1, <<"arbdata", h>>, Full(set))
           a2 == Put(a, <<"txheight", set>>, h)
           c == Put(w1, <<"arbdata", h>>, Ref(known))
           w2 == IF known = None THEN a2 ELSE c
<1>1. v = [w2 EXCEPT !.mem.pos = positions, !.mem.sets = Over(Row(set, first), @)]
  BY DEF BatchPut, PutSet, Known
<1>2. <<"arbptn">> # <<"arbpts">> /\ <<"arbptn">> # <<"arbdata", h>>
      /\ <<"arbptn">> # <<"txheight", set>> /\ <<"arbpts">> # <<"arbdata", h>>
      /\ <<"arbpts">> # <<"txheight", set>> /\ <<"arbdata", h>> # <<"txheight", set>>
  OBVIOUS
<1>3. IsPut(w0, w, <<"arbptn">>, h)
  BY PutShape
<1> HIDE DEF w0, positions, known
<1>4. IsPut(w1, w0, <<"arbpts">>, positions)
  BY <1>3, PutShape DEF IsPut
<1> HIDE DEF w1
<1>5. IsPut(a, w1, <<"arbdata", h>>, Full(set))
  BY <1>4, PutShape DEF IsPut
<1>6. IsPut(c, w1, <<"arbdata", h>>, Ref(known))
  BY <1>4, PutShape DEF IsPut
<1> HIDE DEF a, c
<1>7. IsPut(a2, a, <<"txheight", set>>, h)
  BY <1>5, PutShape DEF IsPut
<1> HIDE DEF a2
<1>8. /\ IsW(w2) /\ w2.mem = w.mem /\ w2.err = w.err
      /\ {<<"arbptn">>, <<"arbpts">>, <<"arbdata", h>>} \subseteq DOMAIN w2.b
      /\ w2.b[<<"arbptn">>] = h /\ w2.b[<<"arbpts">>] = positions
      /\ w2.b[<<"arbdata", h>>] = IF known = None THEN Full(set) ELSE Ref(known)
      /\ known = None => /\ <<"txheight", set>> \in DOMAIN w2.b
                         /\ w2.b[<<"txheight", set>>] = h
      /\ known # None => Same(w2.b, w.b, <<"txheight", set>>)
      /\ \A k : k \notin TurnKeys(h, set) => Same(w2.b, w.b, k)
  <2>1. CASE known = None
    <3>0. w2 = a2
      BY <2>1
    <3>1. IsW(w2) /\ w2.mem = w.mem /\ w2.err = w.err
      BY <1>3, <1>4, <1>5, <1>7, <3>0 DEF IsPut
    <3>2. /\ {<<"arbptn">>, <<"arbpts">>, <<"arbdata", h>>} \subseteq DOMAIN a2.b
          /\ a2.b[<<"arbptn">>] = h /\ a2.b[<<"arbpts">>] = positions
          /\ a2.b[<<"arbdata", h>>] = Full(set)
      BY <1>2, <1>3, <1>4, <1>5, <1>7 DEF Same, IsPut
    <3>3. ASSUME NEW k, k \notin TurnKeys(h, set) PROVE Same(a2.b, w.b, k)
      <4>1. k # <<"arbptn">> /\ k # <<"arbpts">> /\ k # <<"arbdata", h>>
            /\ k # <<"txheight", set>>
        BY <3>3 DEF TurnKeys
      <4> QED BY <4>1, <1>3, <1>4, <1>5, <1>7 DEF Same, IsPut
    <3> QED BY <1>7, <2>1, <3>0, <3>1, <3>2, <3>3 DEF IsPut
  <2>2. CASE known # None
    <3>0. w2 = c
      BY <2>2
    <3>1. IsW(w2) /\ w2.mem = w.mem /\ w2.err = w.err
      BY <1>3, <1>4, <1>6, <3>0 DEF IsPut
    <3>2. /\ {<<"arbptn">>, <<"arbpts">>, <<"arbdata", h>>} \subseteq DOMAIN c.b
          /\ c.b[<<"arbptn">>] = h /\ c.b[<<"arbpts">>] = positions
          /\ Same(c.b, w.b, <<"txheight", set>>)
      BY <1>2, <1>3, <1>4, <1>6 DEF Same, IsPut
    <3>3. ASSUME NEW k, k \notin TurnKeys(h, set) PROVE Same(c.b, w.b, k)
      <4>1. k # <<"arbptn">> /\ k # <<"arbpts">> /\ k # <<"arbdata", h>>
            /\ k # <<"txheight", set>>
        BY <3>3 DEF TurnKeys
      <4> QED BY <4>1, <1>3, <1>4, <1>6 DEF Same, IsPut
    <3> QED BY <1>6, <2>2, <3>0, <3>1, <3>2, <3>3 DEF IsPut
  <2> QED BY <2>1, <2>2
<1> HIDE DEF w2, first
<1>9. v = [b |-> w2.b, err |-> w2.err,
           mem |-> [pos |-> positions, revertPos |-> w2.mem.revertPos,
                    sets |-> Over(Row(set, first), w2.mem.sets),
                    reserved |-> w2.mem.reserved, received |-> w2.mem.received,
                    feePos |-> w2.mem.feePos]]
  BY <1>1, <1>8 DEF IsW, IsMem
<1>10. /\ IsW(v) /\ v.b = w2.b /\ v.err = w.err /\ v.mem.pos = positions
       /\ v.mem.sets = Over(Row(set, first), w.mem.sets)
       /\ v.mem.revertPos = w.mem.revertPos /\ v.mem.reserved = w.mem.reserved
       /\ v.mem.received = w.mem.received /\ v.mem.feePos = w.mem.feePos
  BY <1>8, <1>9 DEF IsW, IsMem
<1> HIDE DEF v
<1> QED BY <1>8, <1>10, Zenon DEF first, positions, known, v, IsTurn

(* The list of changes of consensus with a new one.                          *)
ChangesWith(db, h, mode) ==
  Append(Keep(getCurrentRevertPositions(db),
              [workingHeight : 0 .. h - 1, mode : {"POW", "DPOS"}]),
         RevertInfo(h, mode))

(* v is w after BatchPutRevertTransaction.                                   *)
IsRevert(v, w, db, h, mode) ==
  /\ IsW(v) /\ v.err = w.err
  /\ v.mem.pos = w.mem.pos /\ v.mem.sets = w.mem.sets
  /\ v.mem.reserved = w.mem.reserved /\ v.mem.received = w.mem.received
  /\ v.mem.feePos = w.mem.feePos
  /\ <<"revertp">> \in DOMAIN v.b /\ v.b[<<"revertp">>] = h
  /\ \A k : k \notin {<<"revertp">>, <<"revertps">>} => Same(v.b, w.b, k)
  /\ \/ v.mem.revertPos = w.mem.revertPos /\ Same(v.b, w.b, <<"revertps">>)
     \/ /\ <<"revertps">> \in DOMAIN v.b
        /\ v.b[<<"revertps">>] = ChangesWith(db, h, mode)
        /\ v.mem.revertPos = ChangesWith(db, h, mode)

LEMMA RevertShape ==
  ASSUME NEW w, IsW(w), NEW db, NEW h, NEW mode
  PROVE  IsRevert(BatchPutRevertTransaction(db, w, h, mode), w, db, h, mode)
<1> DEFINE v == BatchPutRevertTransaction(db, w, h, mode)
           list == ChangesWith(db, h, mode)
           w1 == Put(w, <<"revertp">>, h)
           w2 == Put(w1, <<"revertps">>, list)
           small == h <= getCurrentRevertPosition(db)
<1>1. v = IF small THEN w1 ELSE [w2 EXCEPT !.mem.revertPos = list]
  BY DEF BatchPutRevertTransaction, ChangesWith
<1>2. IsPut(w1, w, <<"revertp">>, h)
  BY PutShape
<1> HIDE DEF w1, list
<1>3. IsPut(w2, w1, <<"revertps">>, list)
  BY <1>2, PutShape DEF IsPut
<1>4. <<"revertp">> # <<"revertps">>
  OBVIOUS
<1> HIDE DEF w2, small, v
<1>5. CASE small
  <2>1. v = w1
    BY <1>1, <1>5
  <2> QED BY <1>2, <1>4, <2>1 DEF IsPut, IsRevert, v
<1>6. CASE ~small
  <2>1. v = [b |-> w2.b, err |-> w2.err,
             mem |-> [pos |-> w2.mem.pos, revertPos |-> list, sets |-> w2.mem.sets,
                      reserved |-> w2.mem.reserved, received |-> w2.mem.received,
                      feePos |-> w2.mem.feePos]]
    BY <1>1, <1>3, <1>6 DEF IsPut, IsW, IsMem
  <2>2. /\ IsW(v) /\ v.b = w2.b /\ v.err = w.err /\ v.mem.revertPos = list
        /\ v.mem.pos = w.mem.pos /\ v.mem.sets = w.mem.sets
        /\ v.mem.reserved = w.mem.reserved /\ v.mem.received = w.mem.received
        /\ v.mem.feePos = w.mem.feePos
    BY <1>2, <1>3, <2>1 DEF IsPut, IsW, IsMem
  <2>3. /\ <<"revertp">> \in DOMAIN w2.b /\ w2.b[<<"revertp">>] = h
        /\ <<"revertps">> \in DOMAIN w2.b /\ w2.b[<<"revertps">>] = list
    BY <1>2, <1>3, <1>4 DEF IsPut, Same
  <2>4. ASSUME NEW k, k \notin {<<"revertp">>, <<"revertps">>}
        PROVE  Same(w2.b, w.b, k)
    BY <1>2, <1>3, <2>4 DEF IsPut, Same
  <2> QED BY <2>2, <2>3, <2>4, Zenon DEF IsRevert, v, list
<1> QED BY <1>5, <1>6

(* The keys a result of a proposal may change.                               *)
ResultKey(k) == \/ k = <<"rscid">> \/ k = <<"rccid">> \/ k = <<"cidfps">>
                \/ k[1] = "ccidfh"

(* v is w after one result of a proposal on reserved IDs, received IDs, fee. *)
IsReserved(v, w, db, p, height) ==
  LET mem0 == FillReserved(db, w.mem).reserved
      named == Lookup(db, <<"rscid", p>>)
      all == Over([id \in named |-> height], mem0)
  IN /\ v.mem.received = w.mem.received /\ v.mem.feePos = w.mem.feePos
     /\ \/ /\ named = None /\ v.err /\ v.b = w.b /\ v.mem.reserved = mem0
        \/ /\ named # None /\ v.err = w.err /\ v.mem.reserved = all
           /\ <<"rscid">> \in DOMAIN v.b /\ v.b[<<"rscid">>] = all
           /\ \A k : k # <<"rscid">> => Same(v.b, w.b, k)
IsReceived(v, w, db, p, height) ==
  LET mem0 == FillReceived(db, w.mem).received
      named == Lookup(db, <<"rccid", p>>)
      all == Over([id \in DOMAIN named |-> [did |-> named[id], height |-> height]], mem0)
  IN /\ v.mem.reserved = w.mem.reserved /\ v.mem.feePos = w.mem.feePos
     /\ \/ /\ named = None /\ v.err /\ v.b = w.b /\ v.mem.received = mem0
        \/ /\ named # None /\ v.err = w.err /\ v.mem.received = all
           /\ <<"rccid">> \in DOMAIN v.b /\ v.b[<<"rccid">>] = all
           /\ \A k : k # <<"rccid">> => Same(v.b, w.b, k)
IsFee(v, w, db, p) ==
  LET fee == Lookup(db, <<"ccidf", p>>)
      positions == PutHeight(ListOf(db, <<"cidfps">>), fee.workingHeight)
  IN /\ v.mem.reserved = w.mem.reserved /\ v.mem.received = w.mem.received
     /\ \/ fee = None /\ v.err /\ v.b = w.b /\ v.mem.feePos = w.mem.feePos
        \/ /\ fee # None /\ v.err = w.err /\ v.mem.feePos = positions
           /\ <<"cidfps">> \in DOMAIN v.b /\ v.b[<<"cidfps">>] = positions
           /\ <<"ccidfh", fee.workingHeight>> \in DOMAIN v.b
           /\ v.b[<<"ccidfh", fee.workingHeight>>] = fee.rate
           /\ \A k : k \notin {<<"cidfps">>, <<"ccidfh", fee.workingHeight>>}
                        => Same(v.b, w.b, k)

(* Whatever the result, the rest of the state stays.                         *)
OnlyResults(v, w) ==
  /\ IsW(v) /\ v.mem.pos = w.mem.pos /\ v.mem.revertPos = w.mem.revertPos
  /\ v.mem.sets = w.mem.sets
  /\ \A k : ~ResultKey(k) => Same(v.b, w.b, k)

LEMMA ReservedShape ==
  ASSUME NEW w, IsW(w), NEW db, NEW p, NEW height
  PROVE  LET v == PutReserved(db, w, p, height)
         IN IsReserved(v, w, db, p, height) /\ OnlyResults(v, w)
<1> DEFINE v == PutReserved(db, w, p, height)
           m == FillReserved(db, w.mem)
           mem0 == m.reserved
           named == Lookup(db, <<"rscid", p>>)
           all == Over([id \in named |-> height], mem0)
           w1 == Put(w, <<"rscid">>, all)
<1>1. v = IF named = None THEN [w EXCEPT !.mem = m, !.err = TRUE]
          ELSE [w1 EXCEPT !.mem = [m EXCEPT !.reserved = all]]
  BY DEF PutReserved, batchPutReservedCustomIDs, getControversialReservedCustomIDsFromDB
<1>2. m = [pos |-> w.mem.pos, revertPos |-> w.mem.revertPos, sets |-> w.mem.sets,
           reserved |-> mem0, received |-> w.mem.received, feePos |-> w.mem.feePos]
  BY DEF FillReserved, IsW, IsMem
<1> HIDE DEF m, named
<1>3. IsPut(w1, w, <<"rscid">>, all)
  BY PutShape
<1> HIDE DEF w1, all, mem0, v
<1>4. CASE named = None
  <2>1. v = [b |-> w.b, mem |-> m, err |-> TRUE]
    BY <1>1, <1>4 DEF IsW
  <2>2. /\ v.b = w.b /\ v.mem = m /\ v.err /\ IsW(v)
    BY <1>2, <2>1 DEF IsW, IsMem
  <2>3. /\ v.mem.reserved = mem0 /\ v.mem.received = w.mem.received
        /\ v.mem.feePos = w.mem.feePos /\ v.mem.pos = w.mem.pos
        /\ v.mem.revertPos = w.mem.revertPos /\ v.mem.sets = w.mem.sets
    BY <1>2, <2>2
  <2>4. OnlyResults(v, w)
    BY <2>2, <2>3 DEF OnlyResults, Same
  <2>5. IsReserved(v, w, db, p, height)
    BY <1>4, <2>2, <2>3 DEF IsReserved, mem0, m, named
  <2> QED BY <2>4, <2>5 DEF v
<1>5. CASE named # None
  <2>1. v = [b |-> w1.b, err |-> w1.err,
             mem |-> [pos |-> w.mem.pos, revertPos |-> w.mem.revertPos,
                      sets |-> w.mem.sets, reserved |-> all,
                      received |-> w.mem.received, feePos |-> w.mem.feePos]]
    BY <1>1, <1>2, <1>3, <1>5 DEF IsPut, IsW
  <2>2. /\ v.b = w1.b /\ v.err = w.err /\ IsW(v)
        /\ v.mem.reserved = all /\ v.mem.received = w.mem.received
        /\ v.mem.feePos = w.mem.feePos /\ v.mem.pos = w.mem.pos
        /\ v.mem.revertPos = w.mem.revertPos /\ v.mem.sets = w.mem.sets
    BY <1>3, <2>1 DEF IsPut, IsW, IsMem
  <2>3. /\ <<"rscid">> \in DOMAIN v.b /\ v.b[<<"rscid">>] = all
        /\ \A k : k # <<"rscid">> => Same(v.b, w.b, k)
    BY <1>3, <2>2 DEF IsPut
  <2>4. OnlyResults(v, w)
    BY <2>2, <2>3 DEF OnlyResults, ResultKey
  <2>5. IsReserved(v, w, db, p, height)
    BY <1>5, <2>2, <2>3 DEF IsReserved, all, mem0, m, named
  <2> QED BY <2>4, <2>5 DEF v
<1> QED BY <1>4, <1>5

LEMMA ReceivedShape ==
  ASSUME NEW w, IsW(w), NEW db, NEW p, NEW height
  PROVE  LET v == PutReceived(db, w, p, height)
         IN IsReceived(v, w, db, p, height) /\ OnlyResults(v, w)
<1> DEFINE v == PutReceived(db, w, p, height)
           m == FillReceived(db, w.mem)
           mem0 == m.received
           named == Lookup(db, <<"rccid", p>>)
           all == Over([id \in DOMAIN named |-> [did |-> named[id], height |-> height]],
                       mem0)
           w1 == Put(w, <<"rccid">>, all)
<1>1. v = IF named = None THEN [w EXCEPT !.mem = m, !.err = TRUE]
          ELSE [w1 EXCEPT !.mem = [m EXCEPT !.received = all]]
  BY DEF PutReceived, batchPutReceivedCustomIDs, getControversialReceivedCustomIDsFromDB
<1>2. m = [pos |-> w.mem.pos, revertPos |-> w.mem.revertPos, sets |-> w.mem.sets,
           reserved |-> w.mem.reserved, received |-> mem0, feePos |-> w.mem.feePos]
  BY DEF FillReceived, IsW, IsMem
<1> HIDE DEF m, named
<1>3. IsPut(w1, w, <<"rccid">>, all)
  BY PutShape
<1> HIDE DEF w1, all, mem0, v
<1>4. CASE named = None
  <2>1. v = [b |-> w.b, mem |-> m, err |-> TRUE]
    BY <1>1, <1>4 DEF IsW
  <2>2. /\ v.b = w.b /\ v.mem = m /\ v.err /\ IsW(v)
    BY <1>2, <2>1 DEF IsW, IsMem
  <2>3. /\ v.mem.received = mem0 /\ v.mem.reserved = w.mem.reserved
        /\ v.mem.feePos = w.mem.feePos /\ v.mem.pos = w.mem.pos
        /\ v.mem.revertPos = w.mem.revertPos /\ v.mem.sets = w.mem.sets
    BY <1>2, <2>2
  <2>4. OnlyResults(v, w)
    BY <2>2, <2>3 DEF OnlyResults, Same
  <2>5. IsReceived(v, w, db, p, height)
    BY <1>4, <2>2, <2>3 DEF IsReceived, mem0, m, named
  <2> QED BY <2>4, <2>5 DEF v
<1>5. CASE named # None
  <2>1. v = [b |-> w1.b, err |-> w1.err,
             mem |-> [pos |-> w.mem.pos, revertPos |-> w.mem.revertPos,
                      sets |-> w.mem.sets, reserved |-> w.mem.reserved,
                      received |-> all, feePos |-> w.mem.feePos]]
    BY <1>1, <1>2, <1>3, <1>5 DEF IsPut, IsW
  <2>2. /\ v.b = w1.b /\ v.err = w.err /\ IsW(v)
        /\ v.mem.received = all /\ v.mem.reserved = w.mem.reserved
        /\ v.mem.feePos = w.mem.feePos /\ v.mem.pos = w.mem.pos
        /\ v.mem.revertPos = w.mem.revertPos /\ v.mem.sets = w.mem.sets
    BY <1>3, <2>1 DEF IsPut, IsW, IsMem
  <2>3. /\ <<"rccid">> \in DOMAIN v.b /\ v.b[<<"rccid">>] = all
        /\ \A k : k # <<"rccid">> => Same(v.b, w.b, k)
    BY <1>3, <2>2 DEF IsPut
  <2>4. OnlyResults(v, w)
    BY <2>2, <2>3 DEF OnlyResults, ResultKey
  <2>5. IsReceived(v, w, db, p, height)
    BY <1>5, <2>2, <2>3 DEF IsReceived, all, mem0, m, named
  <2> QED BY <2>4, <2>5 DEF v
<1> QED BY <1>4, <1>5

LEMMA FeeShape ==
  ASSUME NEW w, IsW(w), NEW db, NEW p
  PROVE  LET v == PutFee(db, w, p) IN IsFee(v, w, db, p) /\ OnlyResults(v, w)
<1> DEFINE v == PutFee(db, w, p)
           fee == Lookup(db, <<"ccidf", p>>)
           at == fee.workingHeight
           positions == PutHeight(ListOf(db, <<"cidfps">>), at)
           w1 == Put(w, <<"cidfps">>, positions)
           w2 == Put(w1, <<"ccidfh", at>>, fee.rate)
<1>1. v = IF fee = None THEN [w EXCEPT !.err = TRUE]
          ELSE [w2 EXCEPT !.mem.feePos = positions]
  BY DEF PutFee, batchPutChangeCustomIDFee, getCurrentCustomIDFeePositions,
         getControversialCustomIDFeeRateByProposalHash
<1> HIDE DEF fee
<1>2. IsPut(w1, w, <<"cidfps">>, positions)
  BY PutShape
<1> HIDE DEF w1, positions, at
<1>3. IsPut(w2, w1, <<"ccidfh", at>>, fee.rate)
  BY <1>2, PutShape DEF IsPut
<1> HIDE DEF w2, v
<1>4. CASE fee = None
  <2>1. v = [b |-> w.b, mem |-> w.mem, err |-> TRUE]
    BY <1>1, <1>4 DEF IsW
  <2>2. v.b = w.b /\ v.mem = w.mem /\ v.err /\ IsW(v)
    BY <2>1 DEF IsW
  <2>3. OnlyResults(v, w)
    BY <2>2 DEF OnlyResults, Same
  <2>4. IsFee(v, w, db, p)
    BY <1>4, <2>2 DEF IsFee, fee
  <2> QED BY <2>3, <2>4 DEF v
<1>5. CASE fee # None
  <2>1. v = [b |-> w2.b, err |-> w2.err,
             mem |-> [pos |-> w.mem.pos, revertPos |-> w.mem.revertPos,
                      sets |-> w.mem.sets, reserved |-> w.mem.reserved,
                      received |-> w.mem.received, feePos |-> positions]]
    BY <1>1, <1>2, <1>3, <1>5 DEF IsPut, IsW, IsMem
  <2>2. /\ v.b = w2.b /\ v.err = w.err /\ IsW(v) /\ v.mem.feePos = positions
        /\ v.mem.reserved = w.mem.reserved /\ v.mem.received = w.mem.received
        /\ v.mem.pos = w.mem.pos
        /\ v.mem.revertPos = w.mem.revertPos /\ v.mem.sets = w.mem.sets
    BY <1>2, <1>3, <2>1 DEF IsPut, IsW, IsMem
  <2>3. /\ <<"cidfps">> \in DOMAIN w2.b /\ w2.b[<<"cidfps">>] = positions
        /\ <<"ccidfh", at>> \in DOMAIN w2.b /\ w2.b[<<"ccidfh", at>>] = fee.rate
    <3>1. <<"cidfps">> # <<"ccidfh", at>>
      OBVIOUS
    <3> QED BY <1>2, <1>3, <3>1 DEF IsPut, Same
  <2>4. ASSUME NEW k, k # <<"cidfps">>, k # <<"ccidfh", at>>
        PROVE  Same(w2.b, w.b, k)
    BY <1>2, <1>3, <2>4 DEF IsPut, Same
  <2>5. OnlyResults(v, w)
    <3>1. ASSUME NEW k, ~ResultKey(k) PROVE Same(w2.b, w.b, k)
      <4>1. k # <<"cidfps">> /\ k # <<"ccidfh", at>>
        BY <3>1 DEF ResultKey
      <4> QED BY <2>4, <4>1
    <3> QED BY <2>2, <3>1 DEF OnlyResults
  <2>6. /\ <<"cidfps">> \in DOMAIN v.b /\ v.b[<<"cidfps">>] = positions
        /\ <<"ccidfh", at>> \in DOMAIN v.b /\ v.b[<<"ccidfh", at>>] = fee.rate
        /\ \A k : k \notin {<<"cidfps">>, <<"ccidfh", at>>} => Same(v.b, w.b, k)
    BY <2>2, <2>3, <2>4
  <2>7. IsFee(v, w, db, p)
    BY <1>5, <2>2, <2>6, Zenon DEF IsFee, positions, at, fee
  <2> QED BY <2>5, <2>7 DEF v
<1> QED BY <1>4, <1>5

Verdict == [about : {"Reserve", "Receive", "Fee"}, proposal : Hash, approved : BOOLEAN]

(* v is w after any one result.                                              *)
IsResult(v, w, db, r, height) ==
  \/ w.err /\ v = w
  \/ ~w.err /\ r.approved /\ r.about = "Reserve" /\ IsReserved(v, w, db, r.proposal, height)
  \/ ~w.err /\ r.approved /\ r.about = "Receive" /\ IsReceived(v, w, db, r.proposal, height)
  \/ ~w.err /\ r.approved /\ r.about = "Fee" /\ IsFee(v, w, db, r.proposal)
  \/ /\ ~w.err /\ ~r.approved /\ v.b = w.b /\ v.err = w.err
     /\ v.mem.feePos = w.mem.feePos
     /\ v.mem.reserved \in {w.mem.reserved, FillReserved(db, w.mem).reserved}
     /\ v.mem.received \in {w.mem.received, FillReceived(db, w.mem).received}

LEMMA ResultShape ==
  ASSUME NEW w, IsW(w), NEW db, NEW r \in Verdict, NEW height
  PROVE  LET v == ResultOnce(db, w, r, height)
         IN IsResult(v, w, db, r, height) /\ OnlyResults(v, w)
<1> DEFINE v == ResultOnce(db, w, r, height)
<1>0. OnlyResults(w, w)
  BY DEF OnlyResults, Same
<1>1. CASE w.err
  <2>1. v = w
    BY <1>1 DEF ResultOnce
  <2> QED BY <1>0, <1>1, <2>1 DEF IsResult
<1>2. CASE ~w.err /\ r.approved
  <2>1. CASE r.about = "Reserve"
    <3>1. v = PutReserved(db, w, r.proposal, height)
      BY <1>2, <2>1 DEF ResultOnce
    <3> QED BY <1>2, <2>1, <3>1, ReservedShape DEF IsResult
  <2>2. CASE r.about = "Receive"
    <3>1. v = PutReceived(db, w, r.proposal, height)
      BY <1>2, <2>2 DEF ResultOnce
    <3> QED BY <1>2, <2>2, <3>1, ReceivedShape DEF IsResult
  <2>3. CASE r.about = "Fee"
    <3>1. v = PutFee(db, w, r.proposal)
      BY <1>2, <2>3 DEF ResultOnce
    <3> QED BY <1>2, <2>3, <3>1, FeeShape DEF IsResult
  <2> QED BY <2>1, <2>2, <2>3 DEF Verdict
<1>3. CASE ~w.err /\ ~r.approved
  <2>1. CASE r.about = "Reserve"
    <3>1. v = [w EXCEPT !.mem = FillReserved(db, w.mem)]
      BY <1>3, <2>1 DEF ResultOnce
    <3> DEFINE x == FillReserved(db, w.mem).reserved
    <3>2. FillReserved(db, w.mem) =
            [pos |-> w.mem.pos, revertPos |-> w.mem.revertPos, sets |-> w.mem.sets,
             reserved |-> x, received |-> w.mem.received, feePos |-> w.mem.feePos]
      BY DEF FillReserved, IsW, IsMem
    <3> HIDE DEF x
    <3>3. v = [b |-> w.b, err |-> w.err,
               mem |-> [pos |-> w.mem.pos, revertPos |-> w.mem.revertPos,
                        sets |-> w.mem.sets, reserved |-> x,
                        received |-> w.mem.received, feePos |-> w.mem.feePos]]
      BY <3>1, <3>2 DEF IsW
    <3> HIDE DEF v
    <3>4. /\ v.b = w.b /\ v.err = w.err /\ IsW(v) /\ v.mem.reserved = x
          /\ v.mem.feePos = w.mem.feePos /\ v.mem.received = w.mem.received
          /\ v.mem.pos = w.mem.pos /\ v.mem.revertPos = w.mem.revertPos
          /\ v.mem.sets = w.mem.sets
      BY <3>3 DEF IsW, IsMem
    <3>5. OnlyResults(v, w)
      BY <3>4 DEF OnlyResults, Same
    <3>6. IsResult(v, w, db, r, height)
      BY <1>3, <3>4 DEF IsResult, x
    <3> QED BY <3>5, <3>6 DEF v
  <2>2. CASE r.about = "Receive"
    <3>1. v = [w EXCEPT !.mem = FillReceived(db, w.mem)]
      BY <1>3, <2>2 DEF ResultOnce
    <3> DEFINE x == FillReceived(db, w.mem).received
    <3>2. FillReceived(db, w.mem) =
            [pos |-> w.mem.pos, revertPos |-> w.mem.revertPos, sets |-> w.mem.sets,
             reserved |-> w.mem.reserved, received |-> x, feePos |-> w.mem.feePos]
      BY DEF FillReceived, IsW, IsMem
    <3> HIDE DEF x
    <3>3. v = [b |-> w.b, err |-> w.err,
               mem |-> [pos |-> w.mem.pos, revertPos |-> w.mem.revertPos,
                        sets |-> w.mem.sets, reserved |-> w.mem.reserved,
                        received |-> x, feePos |-> w.mem.feePos]]
      BY <3>1, <3>2 DEF IsW
    <3> HIDE DEF v
    <3>4. /\ v.b = w.b /\ v.err = w.err /\ IsW(v) /\ v.mem.received = x
          /\ v.mem.feePos = w.mem.feePos /\ v.mem.reserved = w.mem.reserved
          /\ v.mem.pos = w.mem.pos /\ v.mem.revertPos = w.mem.revertPos
          /\ v.mem.sets = w.mem.sets
      BY <3>3 DEF IsW, IsMem
    <3>5. OnlyResults(v, w)
      BY <3>4 DEF OnlyResults, Same
    <3>6. IsResult(v, w, db, r, height)
      BY <1>3, <3>4 DEF IsResult, x
    <3> QED BY <3>5, <3>6 DEF v
  <2>3. CASE r.about = "Fee"
    <3>1. v = w
      BY <1>3, <2>3 DEF ResultOnce
    <3> QED BY <1>0, <1>3, <3>1 DEF IsResult
  <2> QED BY <2>1, <2>2, <2>3 DEF Verdict
<1> QED BY <1>1, <1>2, <1>3

(* The loop over the results of a transaction: r has the state before the    *)
(* first one and after each.                                                 *)
ResultsBase(c) == c[2]
ResultsStep(c, v, x) == ResultOnce(c[1], v, x, c[3])
Results == INSTANCE FoldProofs WITH Base <- ResultsBase, Step <- ResultsStep

IsResults(r, w, db, results, height) ==
  /\ r[0] = w
  /\ \A k \in 0 .. Len(results) : IsW(r[k]) /\ OnlyResults(r[k], w)
  /\ \A k \in 1 .. Len(results) : IsResult(r[k], r[k - 1], db, results[k], height)

LEMMA OnlyResultsChain ==
  ASSUME NEW u, NEW v, NEW w, OnlyResults(u, v), OnlyResults(v, w)
  PROVE  OnlyResults(u, w)
BY DEF OnlyResults, Same

LEMMA ResultsShape ==
  ASSUME NEW w, IsW(w), NEW db, NEW results \in Seq(Verdict), NEW height
  PROVE  \E r : /\ IsResults(r, w, db, results, height)
                /\ BatchPutCustomIDProposalResults(db, w, results, height) = r[Len(results)]
<1> DEFINE c == <<db, w, height>>
           n == Len(results)
           v == BatchPutCustomIDProposalResults(db, w, results, height)
<1>0. n \in Nat /\ c[1] = db /\ c[2] = w /\ c[3] = height
  BY LenProperties
<1>1. v = Results!Folded(c, results)
  BY DEF BatchPutCustomIDProposalResults, FoldLeft, MapThenFoldSet, Max,
     Results!Folded, Results!Solves, Results!Largest, ResultsBase, ResultsStep
<1>2. PICK r : Results!IsRun(c, results, r) /\ v = r[n]
  BY <1>1, Results!FoldRun
<1>3. r[0] = w
  BY <1>0, <1>2 DEF Results!IsRun, ResultsBase
<1>4. ASSUME NEW k \in 0 .. n - 1
      PROVE  /\ r[k + 1] = ResultOnce(db, r[k], results[k + 1], height)
             /\ results[k + 1] \in Verdict
  <2>1. k + 1 \in 1 .. n /\ (k + 1) - 1 = k
    BY <1>0
  <2>2. r[k + 1] = ResultsStep(c, r[(k + 1) - 1], results[k + 1])
    BY <1>2, <2>1 DEF Results!IsRun
  <2> QED BY <1>0, <2>1, <2>2 DEF ResultsStep
<1> DEFINE R == {k \in 0 .. n : IsW(r[k]) /\ OnlyResults(r[k], w)}
<1>5. 0 \in R
  BY <1>0, <1>3 DEF OnlyResults, Same
<1>6. ASSUME NEW k \in 0 .. n - 1, k \in R PROVE k + 1 \in R
  <2>1. k + 1 \in 0 .. n
    BY <1>0
  <2>2. OnlyResults(r[k + 1], r[k])
    BY <1>4, <1>6, ResultShape
  <2>3. OnlyResults(r[k + 1], w)
    BY <1>6, <2>2, OnlyResultsChain
  <2> QED BY <2>1, <2>2, <2>3 DEF OnlyResults
<1>7. 0 .. n \subseteq R
  <2> HIDE DEF R, n
  <2> QED BY <1>0, <1>5, <1>6, Results!CountUp
<1>8. ASSUME NEW k \in 1 .. n
      PROVE  IsResult(r[k], r[k - 1], db, results[k], height)
  <2>1. k - 1 \in 0 .. n - 1 /\ k - 1 \in 0 .. n /\ (k - 1) + 1 = k
    BY <1>0
  <2>2. r[k] = ResultOnce(db, r[k - 1], results[k], height) /\ results[k] \in Verdict
    BY <1>4, <2>1, Zenon
  <2>3. IsW(r[k - 1])
    BY <1>7, <2>1
  <2> QED BY <2>2, <2>3, ResultShape
<1>9. IsResults(r, w, db, results, height)
  BY <1>3, <1>7, <1>8 DEF IsResults
<1> QED BY <1>2, <1>9

-----------------------------------------------------------------------------
(* One transaction of a block.                                               *)

IsDeposit(v, w, deposits) ==
  /\ IsW(v) /\ v.mem = w.mem /\ v.err = w.err
  /\ \A d : <<"deposit", d>> \in DOMAIN v.b <=>
              d \in deposits \/ <<"deposit", d>> \in DOMAIN w.b
  /\ \A d \in deposits : v.b[<<"deposit", d>>] = TRUE
  /\ \A k : (\A d \in deposits : k # <<"deposit", d>>) => Same(v.b, w.b, k)

LEMMA DepositShape ==
  ASSUME NEW w, IsW(w), NEW deposits
  PROVE  IsDeposit(BatchPutRetSideChainDepositCoinTx(w, deposits), w, deposits)
<1> DEFINE v == BatchPutRetSideChainDepositCoinTx(w, deposits)
           rows == [k \in {<<"deposit", d>> : d \in deposits} |-> TRUE]
<1>1. v = [b |-> Over(rows, w.b), mem |-> w.mem, err |-> w.err]
  BY DEF BatchPutRetSideChainDepositCoinTx, IsW
<1>2. IsW(v) /\ v.mem = w.mem /\ v.err = w.err /\ v.b = Over(rows, w.b)
  BY <1>1 DEF IsW
<1>3. \A d : <<"deposit", d>> \in DOMAIN rows <=> d \in deposits
  OBVIOUS
<1>4. \A k : (\A d \in deposits : k # <<"deposit", d>>) => k \notin DOMAIN rows
  OBVIOUS
<1>5. \A k \in DOMAIN rows : rows[k] = TRUE
  OBVIOUS
<1> HIDE DEF v, rows
<1>6. \A d : <<"deposit", d>> \in DOMAIN v.b <=>
               d \in deposits \/ <<"deposit", d>> \in DOMAIN w.b
  BY <1>2, <1>3 DEF Over
<1>7. \A d \in deposits : v.b[<<"deposit", d>>] = TRUE
  BY <1>2, <1>3, <1>5 DEF Over
<1>8. \A k : (\A d \in deposits : k # <<"deposit", d>>) => Same(v.b, w.b, k)
  BY <1>2, <1>4 DEF Over, Same
<1> QED BY <1>2, <1>6, <1>7, <1>8 DEF IsDeposit, v

(* v is w after putTx of a transaction in a block of height n.               *)
IsPutIds(v, w, t, n) ==
  \/ Tx[t].kind = "RevertToPOW" /\ IsRevert(v, w, ids, Tx[t].at, "POW")
  \/ Tx[t].kind = "RevertToDPOS" /\ IsRevert(v, w, ids, n + Tx[t].interval, "DPOS")
  \/ Tx[t].kind = "NextTurn" /\ IsTurn(v, w, ids, Tx[t].at, Tx[t].set)
  \/ Tx[t].kind = "Deposit" /\ IsDeposit(v, w, Tx[t].deposits)
  \/ Tx[t].kind = "Reserve" /\ IsPut(v, w, <<"rscid", t>>, Tx[t].ids)
  \/ /\ Tx[t].kind = "Receive"
     /\ IsPut(v, w, <<"rccid", t>>, [id \in Tx[t].ids |-> Tx[t].did])
  \/ /\ Tx[t].kind = "Fee"
     /\ IsPut(v, w, <<"ccidf", t>>, [rate |-> Tx[t].rate, workingHeight |-> Tx[t].at])
  \/ /\ Tx[t].kind = "Result"
     /\ \E r : IsResults(r, w, ids, Tx[t].results, n) /\ v = r[Len(Tx[t].results)]
  \/ /\ Tx[t].kind \notin {"RevertToPOW", "RevertToDPOS", "NextTurn", "Deposit",
                           "Reserve", "Receive", "Fee", "Result"}
     /\ v = w

LEMMA PutIdsShape ==
  ASSUME NEW w, IsW(w), NEW t \in Hash, NEW n
  PROVE  IsPutIds(PutIds(w, t, n), w, t, n) /\ IsW(PutIds(w, t, n))
<1> DEFINE v == PutIds(w, t, n)
           kind == Tx[t].kind
<1>1. CASE kind = "RevertToPOW"
  <2>1. v = BatchPutRevertTransaction(ids, w, Tx[t].at, "POW")
    BY <1>1 DEF PutIds
  <2>2. IsRevert(v, w, ids, Tx[t].at, "POW")
    BY <2>1, RevertShape
  <2> QED BY <1>1, <2>2 DEF IsPutIds, IsRevert
<1>2. CASE kind = "RevertToDPOS"
  <2>1. v = BatchPutRevertTransaction(ids, w, n + Tx[t].interval, "DPOS")
    BY <1>2 DEF PutIds
  <2>2. IsRevert(v, w, ids, n + Tx[t].interval, "DPOS")
    BY <2>1, RevertShape
  <2> QED BY <1>2, <2>2 DEF IsPutIds, IsRevert
<1>3. CASE kind = "NextTurn"
  <2>1. v = BatchPut(ids, w, Tx[t].at, Tx[t].set)
    BY <1>3 DEF PutIds
  <2>2. IsTurn(v, w, ids, Tx[t].at, Tx[t].set)
    BY <2>1, TurnShape
  <2> QED BY <1>3, <2>2 DEF IsPutIds, IsTurn
<1>4. CASE kind = "Deposit"
  <2>1. v = BatchPutRetSideChainDepositCoinTx(w, Tx[t].deposits)
    BY <1>4 DEF PutIds
  <2>2. IsDeposit(v, w, Tx[t].deposits)
    BY <2>1, DepositShape
  <2> QED BY <1>4, <2>2 DEF IsPutIds, IsDeposit
<1>5. CASE kind = "Reserve"
  <2>1. v = Put(w, <<"rscid", t>>, Tx[t].ids)
    BY <1>5 DEF PutIds, BatchPutControversialReservedCustomIDs
  <2>2. IsPut(v, w, <<"rscid", t>>, Tx[t].ids)
    BY <2>1, PutShape
  <2> QED BY <1>5, <2>2 DEF IsPutIds, IsPut
<1>6. CASE kind = "Receive"
  <2>1. v = Put(w, <<"rccid", t>>, [id \in Tx[t].ids |-> Tx[t].did])
    BY <1>6 DEF PutIds, BatchPutControversialReceivedCustomIDs
  <2>2. IsPut(v, w, <<"rccid", t>>, [id \in Tx[t].ids |-> Tx[t].did])
    BY <2>1, PutShape
  <2> QED BY <1>6, <2>2 DEF IsPutIds, IsPut
<1>7. CASE kind = "Fee"
  <2> DEFINE fee == [rate |-> Tx[t].rate, workingHeight |-> Tx[t].at]
  <2>1. v = Put(w, <<"ccidf", t>>, fee)
    BY <1>7 DEF PutIds, BatchPutControversialChangeCustomIDFee
  <2>2. IsPut(v, w, <<"ccidf", t>>, fee)
    <3> HIDE DEF fee
    <3> QED BY <2>1, PutShape
  <2> QED BY <1>7, <2>2 DEF IsPutIds, IsPut
<1>8. CASE kind = "Result"
  <2>1. v = BatchPutCustomIDProposalResults(ids, w, Tx[t].results, n)
    BY <1>8 DEF PutIds
  <2>2. Tx[t].results \in Seq(Verdict)
    BY <1>8, TurnAssumption DEF Hash, Verdict
  <2>3. PICK r : IsResults(r, w, ids, Tx[t].results, n) /\ v = r[Len(Tx[t].results)]
    BY <2>1, <2>2, ResultsShape
  <2>4. IsW(v)
    BY <2>2, <2>3, LenProperties DEF IsResults
  <2> QED BY <1>8, <2>3, <2>4 DEF IsPutIds
<1>9. CASE kind \notin {"RevertToPOW", "RevertToDPOS", "NextTurn", "Deposit",
                        "Reserve", "Receive", "Fee", "Result"}
  <2>1. v = w
    BY <1>9 DEF PutIds
  <2> QED BY <1>9, <2>1 DEF IsPutIds
<1> QED BY <1>1, <1>2, <1>3, <1>4, <1>5, <1>6, <1>7, <1>8, <1>9

-----------------------------------------------------------------------------
(* The lists of positions are sorted.                                        *)

(* What a database or a batch has under the keys of the lists, and of the    *)
(* proposals that will change one.                                           *)
Formed(d) ==
  /\ <<"arbpts">> \in DOMAIN d => Heights(d[<<"arbpts">>])
  /\ <<"cidfps">> \in DOMAIN d => Heights(d[<<"cidfps">>])
  /\ <<"revertps">> \in DOMAIN d => Changes(d[<<"revertps">>])
  /\ \A p : <<"ccidf", p>> \in DOMAIN d => d[<<"ccidf", p>>].workingHeight \in Nat
MemSorted(m) == Heights(m.pos) /\ Heights(m.feePos) /\ Changes(m.revertPos)
SortedInv == Formed(ids) /\ Formed(batch.ids) /\ IsMem(mem) /\ MemSorted(mem)

LEMMA EmptyLists == Heights(<<>>) /\ Changes(<<>>)
<1>1. <<>> \in Seq(Nat) /\ <<>> \in Seq(Change) /\ DOMAIN <<>> = {}
  OBVIOUS
<1> QED BY <1>1 DEF Heights, Changes

LEMMA FormedLists ==
  ASSUME NEW d, Formed(d)
  PROVE  /\ Heights(ListOf(d, <<"arbpts">>)) /\ Heights(ListOf(d, <<"cidfps">>))
         /\ Changes(ListOf(d, <<"revertps">>))
         /\ \A p : Lookup(d, <<"ccidf", p>>) # None =>
                     Lookup(d, <<"ccidf", p>>).workingHeight \in Nat
BY EmptyLists DEF Formed, ListOf, Lookup

(* Under the keys of the lists nothing has changed.                          *)
LEMMA FormedSame ==
  ASSUME NEW d, NEW e, Formed(e),
         Same(d, e, <<"arbpts">>) \/ (<<"arbpts">> \in DOMAIN d /\ Heights(d[<<"arbpts">>])),
         Same(d, e, <<"cidfps">>) \/ (<<"cidfps">> \in DOMAIN d /\ Heights(d[<<"cidfps">>])),
         \/ Same(d, e, <<"revertps">>)
         \/ <<"revertps">> \in DOMAIN d /\ Changes(d[<<"revertps">>]),
         \A p : \/ Same(d, e, <<"ccidf", p>>)
                \/ /\ <<"ccidf", p>> \in DOMAIN d
                   /\ d[<<"ccidf", p>>].workingHeight \in Nat
  PROVE  Formed(d)
BY DEF Formed, Same

LEMMA FormedWrite ==
  ASSUME NEW db, NEW b, Formed(db), Formed(b)
  PROVE  Formed(Write(db, b))
<1>1. ASSUME NEW k \in DOMAIN Write(db, b)
      PROVE  \/ k \in DOMAIN b /\ Write(db, b)[k] = b[k]
             \/ k \in DOMAIN db /\ Write(db, b)[k] = db[k]
  BY DEF Write, Over
<1> QED BY <1>1 DEF Formed

LEMMA RevertSorted ==
  ASSUME NEW w, NEW v, NEW db, NEW h \in Nat, NEW mode \in {"POW", "DPOS"},
         IsRevert(v, w, db, h, mode), Formed(db), Formed(w.b), MemSorted(w.mem)
  PROVE  Formed(v.b) /\ MemSorted(v.mem)
<1>1. Changes(getCurrentRevertPositions(db))
  BY FormedLists DEF getCurrentRevertPositions
<1>2. Changes(ChangesWith(db, h, mode))
  BY <1>1, PutChangeFacts DEF ChangesWith
<1>3. \A p : /\ <<"ccidf", p>> \notin {<<"revertp">>, <<"revertps">>}
             /\ <<"arbpts">> \notin {<<"revertp">>, <<"revertps">>}
             /\ <<"cidfps">> \notin {<<"revertp">>, <<"revertps">>}
  OBVIOUS
<1>4. /\ Same(v.b, w.b, <<"arbpts">>) /\ Same(v.b, w.b, <<"cidfps">>)
      /\ \A p : Same(v.b, w.b, <<"ccidf", p>>)
  BY <1>3 DEF IsRevert
<1>5. CASE v.mem.revertPos = w.mem.revertPos /\ Same(v.b, w.b, <<"revertps">>)
  <2>1. Formed(v.b)
    BY <1>4, <1>5, FormedSame
  <2> QED BY <1>5, <2>1 DEF MemSorted, IsRevert
<1>6. CASE /\ <<"revertps">> \in DOMAIN v.b
           /\ v.b[<<"revertps">>] = ChangesWith(db, h, mode)
           /\ v.mem.revertPos = ChangesWith(db, h, mode)
  <2>1. Changes(v.b[<<"revertps">>]) /\ Changes(v.mem.revertPos)
    BY <1>2, <1>6
  <2>2. Formed(v.b)
    BY <1>4, <1>6, <2>1, FormedSame
  <2> QED BY <2>1, <2>2 DEF MemSorted, IsRevert
<1> QED BY <1>5, <1>6 DEF IsRevert

LEMMA TurnSorted ==
  ASSUME NEW w, NEW v, NEW db, NEW h \in Nat, NEW set,
         IsTurn(v, w, db, h, set), Formed(db), Formed(w.b), MemSorted(w.mem)
  PROVE  Formed(v.b) /\ MemSorted(v.mem)
<1>1. Heights(PutHeight(getCurrentPositions(db), h))
  BY FormedLists, PutHeightFacts DEF getCurrentPositions
<1>2. \A p : /\ <<"ccidf", p>> \notin TurnKeys(h, set)
             /\ <<"revertps">> \notin TurnKeys(h, set)
             /\ <<"cidfps">> \notin TurnKeys(h, set)
  BY DEF TurnKeys
<1>3. /\ Same(v.b, w.b, <<"revertps">>) /\ Same(v.b, w.b, <<"cidfps">>)
      /\ \A p : Same(v.b, w.b, <<"ccidf", p>>)
  BY <1>2 DEF IsTurn
<1>4. <<"arbpts">> \in DOMAIN v.b /\ Heights(v.b[<<"arbpts">>]) /\ Heights(v.mem.pos)
  BY <1>1 DEF IsTurn
<1>5. Formed(v.b)
  BY <1>3, <1>4, FormedSame
<1> QED BY <1>4, <1>5 DEF MemSorted, IsTurn

(* The keys of a proposal, of a deposit.                                     *)
LEMMA OtherSorted ==
  ASSUME NEW w, NEW v, Formed(w.b), MemSorted(w.mem), v.mem = w.mem,
         \A k : k \in {<<"arbpts">>, <<"cidfps">>, <<"revertps">>} => Same(v.b, w.b, k),
         \A p : \/ Same(v.b, w.b, <<"ccidf", p>>)
                \/ /\ <<"ccidf", p>> \in DOMAIN v.b
                   /\ v.b[<<"ccidf", p>>].workingHeight \in Nat
  PROVE  Formed(v.b) /\ MemSorted(v.mem)
<1>1. /\ Same(v.b, w.b, <<"arbpts">>) /\ Same(v.b, w.b, <<"cidfps">>)
      /\ Same(v.b, w.b, <<"revertps">>)
  OBVIOUS
<1>2. Formed(v.b)
  BY <1>1, FormedSame
<1> QED BY <1>2

LEMMA ResultSorted ==
  ASSUME NEW w, NEW v, NEW db, NEW r \in Verdict, NEW height,
         IsResult(v, w, db, r, height), OnlyResults(v, w),
         Formed(db), Formed(w.b), MemSorted(w.mem)
  PROVE  Formed(v.b) /\ MemSorted(v.mem)
<1>1. /\ ~ResultKey(<<"arbpts">>) /\ ~ResultKey(<<"revertps">>)
      /\ \A p : ~ResultKey(<<"ccidf", p>>)
  BY DEF ResultKey
<1>2. /\ Same(v.b, w.b, <<"arbpts">>) /\ Same(v.b, w.b, <<"revertps">>)
      /\ \A p : Same(v.b, w.b, <<"ccidf", p>>)
  BY <1>1 DEF OnlyResults
<1>3. ASSUME \/ Same(v.b, w.b, <<"cidfps">>) /\ v.mem.feePos = w.mem.feePos
             \/ /\ <<"cidfps">> \in DOMAIN v.b
                /\ Heights(v.b[<<"cidfps">>]) /\ Heights(v.mem.feePos)
      PROVE  Formed(v.b) /\ MemSorted(v.mem)
  <2>1. Same(v.b, w.b, <<"cidfps">>)
        \/ (<<"cidfps">> \in DOMAIN v.b /\ Heights(v.b[<<"cidfps">>]))
    BY <1>3
  <2>2. Formed(v.b)
    BY <1>2, <2>1, FormedSame
  <2> QED BY <1>3, <2>2 DEF MemSorted, OnlyResults
<1>4. CASE w.err /\ v = w
  BY <1>4
<1>5. CASE IsReserved(v, w, db, r.proposal, height)
  <2>1. Same(v.b, w.b, <<"cidfps">>) /\ v.mem.feePos = w.mem.feePos
    <3>1. <<"cidfps">> # <<"rscid">>
      OBVIOUS
    <3> QED BY <1>5, <3>1 DEF IsReserved, Same
  <2> QED BY <1>3, <2>1
<1>6. CASE IsReceived(v, w, db, r.proposal, height)
  <2>1. Same(v.b, w.b, <<"cidfps">>) /\ v.mem.feePos = w.mem.feePos
    <3>1. <<"cidfps">> # <<"rccid">>
      OBVIOUS
    <3> QED BY <1>6, <3>1 DEF IsReceived, Same
  <2> QED BY <1>3, <2>1
<1>7. CASE IsFee(v, w, db, r.proposal)
  <2> DEFINE fee == Lookup(db, <<"ccidf", r.proposal>>)
             positions == PutHeight(ListOf(db, <<"cidfps">>), fee.workingHeight)
  <2>1. fee # None => Heights(positions)
    BY FormedLists, PutHeightFacts
  <2>2. \/ v.b = w.b /\ v.mem.feePos = w.mem.feePos
        \/ /\ fee # None /\ v.mem.feePos = positions
           /\ <<"cidfps">> \in DOMAIN v.b /\ v.b[<<"cidfps">>] = positions
    BY <1>7 DEF IsFee
  <2> HIDE DEF fee, positions
  <2>3. \/ Same(v.b, w.b, <<"cidfps">>) /\ v.mem.feePos = w.mem.feePos
        \/ /\ <<"cidfps">> \in DOMAIN v.b
           /\ Heights(v.b[<<"cidfps">>]) /\ Heights(v.mem.feePos)
    BY <2>1, <2>2 DEF Same
  <2> QED BY <1>3, <2>3
<1>8. CASE v.b = w.b /\ v.mem.feePos = w.mem.feePos
  BY <1>3, <1>8 DEF Same
<1> QED BY <1>4, <1>5, <1>6, <1>7, <1>8 DEF IsResult

LEMMA ResultsSorted ==
  ASSUME NEW w, NEW r, NEW db, NEW results \in Seq(Verdict), NEW height,
         IsResults(r, w, db, results, height),
         Formed(db), Formed(w.b), MemSorted(w.mem)
  PROVE  LET v == r[Len(results)] IN Formed(v.b) /\ MemSorted(v.mem)
<1> DEFINE n == Len(results)
           R == {k \in 0 .. n : Formed(r[k].b) /\ MemSorted(r[k].mem)}
<1>0. n \in Nat
  BY LenProperties
<1>1. 0 \in R
  BY <1>0 DEF IsResults
<1>2. ASSUME NEW k \in 0 .. n - 1, k \in R PROVE k + 1 \in R
  <2>1. k + 1 \in 0 .. n /\ k + 1 \in 1 .. n /\ (k + 1) - 1 = k
    BY <1>0
  <2>2. IsResult(r[k + 1], r[k], db, results[k + 1], height)
    BY <2>1 DEF IsResults
  <2>3. OnlyResults(r[k + 1], r[k])
    <3>1. OnlyResults(r[k + 1], w) /\ OnlyResults(r[k], w)
      BY <2>1 DEF IsResults
    <3> QED BY <3>1 DEF OnlyResults, Same
  <2>4. results[k + 1] \in Verdict
    BY <2>1
  <2> QED BY <1>2, <2>1, <2>2, <2>3, <2>4, ResultSorted
<1>3. n \in R
  <2> HIDE DEF R, n
  <2>1. 0 .. n \subseteq R
    BY <1>0, <1>1, <1>2, Results!CountUp
  <2> QED BY <1>0, <2>1
<1> QED BY <1>3

LEMMA PutIdsSorted ==
  ASSUME NEW w, IsW(w), Formed(ids), Formed(w.b), MemSorted(w.mem),
         NEW t \in Hash, NEW n \in Nat
  PROVE  LET v == PutIds(w, t, n) IN Formed(v.b) /\ MemSorted(v.mem)
<1> DEFINE v == PutIds(w, t, n)
<1>0. IsPutIds(v, w, t, n)
  BY PutIdsShape
<1> HIDE DEF v
<1>1. CASE Tx[t].kind = "RevertToPOW" /\ IsRevert(v, w, ids, Tx[t].at, "POW")
  <2>1. Tx[t].at \in Nat
    BY <1>1, TurnAssumption DEF Hash
  <2> QED BY <1>1, <2>1, RevertSorted DEF v
<1>2. CASE Tx[t].kind = "RevertToDPOS" /\ IsRevert(v, w, ids, n + Tx[t].interval, "DPOS")
  <2>1. n + Tx[t].interval \in Nat
    BY <1>2, TurnAssumption DEF Hash
  <2> QED BY <1>2, <2>1, RevertSorted DEF v
<1>3. CASE Tx[t].kind = "NextTurn" /\ IsTurn(v, w, ids, Tx[t].at, Tx[t].set)
  <2>1. Tx[t].at \in Nat
    BY <1>3, TurnAssumption DEF Hash
  <2> QED BY <1>3, <2>1, TurnSorted DEF v
<1>4. CASE IsDeposit(v, w, Tx[t].deposits)
  <2>1. \A k : k[1] # "deposit" => Same(v.b, w.b, k)
    BY <1>4 DEF IsDeposit
  <2>2. /\ Same(v.b, w.b, <<"arbpts">>) /\ Same(v.b, w.b, <<"cidfps">>)
        /\ Same(v.b, w.b, <<"revertps">>) /\ \A p : Same(v.b, w.b, <<"ccidf", p>>)
    BY <2>1
  <2> QED BY <1>4, <2>2, OtherSorted DEF IsDeposit, v
<1>5. CASE IsPut(v, w, <<"rscid", t>>, Tx[t].ids)
  <2>1. /\ Same(v.b, w.b, <<"arbpts">>) /\ Same(v.b, w.b, <<"cidfps">>)
        /\ Same(v.b, w.b, <<"revertps">>) /\ \A p : Same(v.b, w.b, <<"ccidf", p>>)
    BY <1>5 DEF IsPut
  <2> QED BY <1>5, <2>1, OtherSorted DEF IsPut, v
<1>6. CASE IsPut(v, w, <<"rccid", t>>, [id \in Tx[t].ids |-> Tx[t].did])
  <2>1. /\ Same(v.b, w.b, <<"arbpts">>) /\ Same(v.b, w.b, <<"cidfps">>)
        /\ Same(v.b, w.b, <<"revertps">>) /\ \A p : Same(v.b, w.b, <<"ccidf", p>>)
    BY <1>6 DEF IsPut
  <2> QED BY <1>6, <2>1, OtherSorted DEF IsPut, v
<1>7. CASE /\ Tx[t].kind = "Fee"
           /\ IsPut(v, w, <<"ccidf", t>>, [rate |-> Tx[t].rate, workingHeight |-> Tx[t].at])
  <2>1. /\ Same(v.b, w.b, <<"arbpts">>) /\ Same(v.b, w.b, <<"cidfps">>)
        /\ Same(v.b, w.b, <<"revertps">>)
    BY <1>7 DEF IsPut
  <2>2. /\ <<"ccidf", t>> \in DOMAIN v.b
        /\ v.b[<<"ccidf", t>>].workingHeight = Tx[t].at /\ Tx[t].at \in Nat
    BY <1>7, TurnAssumption DEF IsPut, Hash
  <2>3. ASSUME NEW p
        PROVE  \/ Same(v.b, w.b, <<"ccidf", p>>)
               \/ /\ <<"ccidf", p>> \in DOMAIN v.b
                  /\ v.b[<<"ccidf", p>>].workingHeight \in Nat
    <3>1. CASE p = t
      BY <2>2, <3>1
    <3>2. CASE p # t
      <4>1. <<"ccidf", p>> # <<"ccidf", t>>
        BY <3>2
      <4> QED BY <1>7, <4>1 DEF IsPut
    <3> QED BY <3>1, <3>2
  <2> QED BY <1>7, <2>1, <2>3, OtherSorted DEF IsPut, v
<1>8. CASE /\ Tx[t].kind = "Result"
           /\ \E r : IsResults(r, w, ids, Tx[t].results, n) /\ v = r[Len(Tx[t].results)]
  <2>1. Tx[t].results \in Seq(Verdict)
    BY <1>8, TurnAssumption DEF Hash, Verdict
  <2> QED BY <1>8, <2>1, ResultsSorted DEF v
<1>9. CASE v = w
  BY <1>9 DEF v
<1> QED BY <1>0, <1>1, <1>2, <1>3, <1>4, <1>5, <1>6, <1>7, <1>8, <1>9 DEF IsPutIds

-----------------------------------------------------------------------------
(* The steps that change the side chain data.                                *)

Collecting == [b |-> batch.ids, mem |-> mem, err |-> FALSE]

(* A transaction is put: its block is given up, or the batch goes on.        *)
LEMMA PutTxIds ==
  ASSUME Sound, IsMem(mem), PutTx
  PROVE  LET t == Head(job.left)
             n == Height[job.at]
             v == PutIds(Collecting, t, n)
         IN /\ t \in Hash /\ n \in Nat /\ IsW(Collecting) /\ IsW(v)
            /\ IsPutIds(v, Collecting, t, n)
            /\ ids' = ids /\ log' = log /\ mem' = v.mem
            /\ job.op = "put" /\ job.left # <<>> /\ job.left \in Seq(Hash)
            /\ \/ /\ v.err /\ job' = Done(job) /\ batch' = NoBatch
                  /\ wrong' = wrong \cup {"lost"}
               \/ /\ ~v.err /\ batch'.ids = v.b /\ wrong' = wrong
                  /\ job' = [op |-> "put", at |-> job.at, list |-> job.list,
                             left |-> Tail(job.left), for |-> job.for, old |-> job.old]
<1> DEFINE t == Head(job.left)
           n == Height[job.at]
           v == PutIds(Collecting, t, n)
<1>1. job.op = "put" /\ job.left # <<>>
  BY DEF PutTx, Working
<1>2. job \in [op : {"put"}, at : Block, list : Seq(Hash), left : Seq(Hash),
               for : Handler, old : Block]
  BY <1>1, JobFields DEF Sound, Moves
<1>3. job.left \in Seq(Hash) /\ job.at \in Block
  BY <1>2
<1>4. t \in Hash /\ n \in Nat
  BY <1>1, <1>3, TreeFacts
<1>5. IsW(Collecting)
  BY DEF IsW, Collecting
<1>6. IsW(v) /\ IsPutIds(v, Collecting, t, n)
  BY <1>4, <1>5, PutIdsShape
<1>7. ids' = ids /\ log' = log /\ mem' = v.mem
  BY DEF PutTx, data, Collecting
<1>8. \/ /\ v.err /\ job' = Done(job) /\ batch' = NoBatch
         /\ wrong' = wrong \cup {"lost"}
      \/ /\ ~v.err /\ wrong' = wrong /\ job' = [job EXCEPT !.left = Tail(@)]
         /\ \/ batch' = [txs |-> Over(Row(t, n), batch.txs),
                         ops |-> Over([op \in {<<t, i>> : i \in OutsHit(t)} |->
                                         Tx[t].outs[op[2]]], batch.ops),
                         que |-> Over([k \in Matching(t) \X {t} |-> n], batch.que),
                         ids |-> v.b]
            \/ batch' = [batch EXCEPT !.ids = v.b]
  BY DEF PutTx, Collecting
<1>9. "ids" \in DOMAIN batch
  BY DEF Sound, Moves
<1> HIDE DEF v, t, n
<1>10. [job EXCEPT !.left = Tail(@)] =
         [op |-> "put", at |-> job.at, list |-> job.list,
          left |-> Tail(job.left), for |-> job.for, old |-> job.old]
  <2> DEFINE rest == Tail(job.left)
             j == [job EXCEPT !.left = rest]
  <2> HIDE DEF rest
  <2>1. j = [op |-> "put", at |-> job.at, list |-> job.list,
             left |-> rest, for |-> job.for, old |-> job.old]
    BY <1>2
  <2> QED BY <2>1 DEF rest
<1>11. \/ /\ v.err /\ job' = Done(job) /\ batch' = NoBatch
          /\ wrong' = wrong \cup {"lost"}
       \/ /\ ~v.err /\ batch'.ids = v.b /\ wrong' = wrong
          /\ job' = [op |-> "put", at |-> job.at, list |-> job.list,
                     left |-> Tail(job.left), for |-> job.for, old |-> job.old]
  BY <1>8, <1>9, <1>10
<1> QED BY <1>1, <1>3, <1>4, <1>5, <1>6, <1>7, <1>11 DEF v, t, n

(* Rolling a block back finds none of its transactions.                      *)
LEMMA DetachIds ==
  ASSUME Sound, Detach
  PROVE  /\ ids' = Write(ids, <<>>) /\ mem' = mem /\ batch' = batch
         /\ log' = log /\ wrong' = wrong /\ batch = NoBatch
<1>1. GetTxs(Height[job.at]) = <<>>
  BY DetachFacts
<1> DEFINE w0 == [b |-> <<>>, mem |-> mem, err |-> FALSE]
<1>2. FoldLeft(LAMBDA acc, t : DeleteCustomID(ids, acc, t, Tx[t]), w0, <<>>) = w0
  <2>1. DOMAIN <<>> = {}
    OBVIOUS
  <2> QED BY <2>1 DEF FoldLeft, MapThenFoldSet
<1>3. ids' = Write(ids, w0.b) /\ mem' = w0.mem
  BY <1>1, <1>2 DEF Detach, DelAll
<1> QED BY <1>3 DEF Detach, past, Sound, Moves

LEMMA QueryMem ==
  ASSUME Query, IsMem(mem)
  PROVE  /\ IsMem(mem') /\ UNCHANGED <<ids, batch, job, log, wrong>>
         /\ mem'.pos = FillPos(ids, mem).pos
         /\ mem'.revertPos = FillRevertPos(ids, mem).revertPos
         /\ mem'.reserved = FillReserved(ids, mem).reserved
         /\ mem'.received = FillReceived(ids, mem).received
         /\ mem'.feePos = FillFeePos(ids, mem).feePos
         /\ mem'.sets = mem.sets
<1>1. mem' = FillPos(ids, FillRevertPos(ids,
               FillReserved(ids, FillReceived(ids, FillFeePos(ids, mem)))))
  BY DEF Query
<1> DEFINE m1 == FillFeePos(ids, mem)
           m2 == FillReceived(ids, m1)
           m3 == FillReserved(ids, m2)
           m4 == FillRevertPos(ids, m3)
<1>2. m1 = [pos |-> mem.pos, revertPos |-> mem.revertPos, sets |-> mem.sets,
            reserved |-> mem.reserved, received |-> mem.received,
            feePos |-> FillFeePos(ids, mem).feePos]
  BY DEF FillFeePos, IsMem
<1> HIDE DEF m1
<1>3. m2 = [pos |-> mem.pos, revertPos |-> mem.revertPos, sets |-> mem.sets,
            reserved |-> mem.reserved, received |-> FillReceived(ids, mem).received,
            feePos |-> FillFeePos(ids, mem).feePos]
  BY <1>2 DEF FillReceived, IsMem
<1> HIDE DEF m2
<1>4. m3 = [pos |-> mem.pos, revertPos |-> mem.revertPos, sets |-> mem.sets,
            reserved |-> FillReserved(ids, mem).reserved,
            received |-> FillReceived(ids, mem).received,
            feePos |-> FillFeePos(ids, mem).feePos]
  BY <1>3 DEF FillReserved, IsMem
<1> HIDE DEF m3
<1>5. m4 = [pos |-> mem.pos, revertPos |-> FillRevertPos(ids, mem).revertPos,
            sets |-> mem.sets, reserved |-> FillReserved(ids, mem).reserved,
            received |-> FillReceived(ids, mem).received,
            feePos |-> FillFeePos(ids, mem).feePos]
  BY <1>4 DEF FillRevertPos, IsMem
<1> HIDE DEF m4
<1>6. mem' = [pos |-> FillPos(ids, mem).pos,
              revertPos |-> FillRevertPos(ids, mem).revertPos,
              sets |-> mem.sets, reserved |-> FillReserved(ids, mem).reserved,
              received |-> FillReceived(ids, mem).received,
              feePos |-> FillFeePos(ids, mem).feePos]
  <2>1. mem' = FillPos(ids, m4)
    BY <1>1 DEF m1, m2, m3, m4
  <2> QED BY <1>5, <2>1 DEF FillPos, IsMem
<1>7. UNCHANGED <<ids, batch, job, log, wrong>>
  BY DEF Query, data, past
<1> QED BY <1>6, <1>7 DEF IsMem

(* The steps of the others.                                                  *)
LEMMA OtherSteps ==
  ASSUME [Next]_vars
  PROVE  \/ PutTx \/ CommitTxs \/ CommitFails \/ Detach \/ Query \/ Restart
         \/ /\ UNCHANGED <<ids, batch, mem, log>>
            /\ wrong' = wrong \/ wrong' = wrong \cup {"revived"}
            /\ \/ UNCHANGED job \/ BlockProcessed
               \/ \E b \in Block \ {Genesis}, h \in Handler : CommitBlock(b, h)
<1> DEFINE Rest == /\ UNCHANGED <<ids, batch, mem, log>>
                   /\ wrong' = wrong \/ wrong' = wrong \cup {"revived"}
<1>1. ASSUME NEW l \in Listener, Register(l) PROVE Rest /\ UNCHANGED job
  BY <1>1 DEF Register, past
<1>2. ASSUME NEW b \in Block \ {Genesis}, NEW h \in Handler, CommitBlock(b, h) PROVE Rest
  BY <1>2 DEF CommitBlock
<1>3. ASSUME BlockProcessed PROVE Rest
  BY <1>3 DEF BlockProcessed, data, past
<1>4. ASSUME NEW h \in Handler, GetAll(h) \/ PutBack(h) \/ EndNotify(h)
      PROVE  Rest /\ UNCHANGED job
  BY <1>4 DEF GetAll, PutBack, EndNotify, data, past
<1>5. ASSUME NEW h \in Handler, NEW current \in BOOLEAN, NEW item \in Todo(h),
             NotifyTx(h, item, current)
      PROVE  Rest /\ UNCHANGED job
  BY <1>5 DEF NotifyTx
<1>6. ASSUME NEW k \in Key, SubmitTransactionReceipt(k) \/ NotifyTimeout(k)
      PROVE  Rest /\ UNCHANGED job
  BY <1>6 DEF SubmitTransactionReceipt, NotifyTimeout, past
<1>7. ASSUME UNCHANGED vars PROVE Rest /\ UNCHANGED job
  BY <1>7 DEF vars, data, past
<1> HIDE DEF Rest
<1> QED BY <1>1, <1>2, <1>3, <1>4, <1>5, <1>6, <1>7 DEF Next, Rest

LEMMA FreshMemory ==
  /\ IsMem(FreshMem) /\ FreshMem.pos = <<>> /\ FreshMem.revertPos = <<>>
  /\ FreshMem.sets = <<>> /\ FreshMem.feePos = <<>>
  /\ FreshMem.reserved = <<>> /\ FreshMem.received = <<>>
<1>1. FreshMem = [pos |-> <<>>, revertPos |-> <<>>, sets |-> <<>>,
                  reserved |-> <<>>, received |-> <<>>, feePos |-> <<>>]
  BY DEF FreshMem, ArbMem, CidMem, Over
<1> QED BY <1>1 DEF IsMem

LEMMA NextSorted ==
  ASSUME Sound, SortedInv, [Next]_vars
  PROVE  SortedInv'
<1>0. Formed(NoBatch.ids)
  BY DEF Formed, NoBatch
<1>1. ASSUME PutTx PROVE SortedInv'
  <2> DEFINE v == PutIds(Collecting, Head(job.left), Height[job.at])
  <2>1. /\ Head(job.left) \in Hash /\ Height[job.at] \in Nat
        /\ IsW(Collecting) /\ IsW(v) /\ ids' = ids /\ mem' = v.mem
        /\ batch' = NoBatch \/ batch'.ids = v.b
    BY <1>1, PutTxIds DEF SortedInv
  <2>2. Formed(Collecting.b) /\ MemSorted(Collecting.mem)
    BY DEF SortedInv, Collecting
  <2>3. Formed(v.b) /\ MemSorted(v.mem)
    BY <2>1, <2>2, PutIdsSorted DEF SortedInv
  <2> HIDE DEF v
  <2>4. Formed(batch'.ids)
    BY <1>0, <2>1, <2>3
  <2> QED BY <2>1, <2>3, <2>4 DEF SortedInv, IsW
<1>2. ASSUME CommitTxs PROVE SortedInv'
  <2>1. ids' = Write(ids, batch.ids) /\ batch' = NoBatch /\ mem' = mem
    BY <1>2 DEF CommitTxs
  <2>2. Formed(ids')
    BY <2>1, FormedWrite DEF SortedInv
  <2>3. Formed(batch'.ids)
    BY <1>0, <2>1
  <2> QED BY <2>1, <2>2, <2>3 DEF SortedInv
<1>3. ASSUME CommitFails PROVE SortedInv'
  BY <1>0, <1>3 DEF CommitFails, data, SortedInv
<1>4. ASSUME Detach PROVE SortedInv'
  <2>1. ids' = Write(ids, <<>>) /\ mem' = mem /\ batch' = batch
    BY <1>4, DetachIds
  <2>2. Formed(<<>>)
    BY DEF Formed
  <2>3. Formed(ids')
    BY <2>1, <2>2, FormedWrite DEF SortedInv
  <2> QED BY <2>1, <2>3 DEF SortedInv
<1>5. ASSUME Query PROVE SortedInv'
  <2>1. /\ IsMem(mem') /\ UNCHANGED <<ids, batch>>
        /\ mem'.pos = FillPos(ids, mem).pos
        /\ mem'.revertPos = FillRevertPos(ids, mem).revertPos
        /\ mem'.feePos = FillFeePos(ids, mem).feePos
    BY <1>5, QueryMem DEF SortedInv
  <2>2. /\ mem'.pos \in {mem.pos, getCurrentPositions(ids)}
        /\ mem'.revertPos \in {mem.revertPos, getCurrentRevertPositions(ids)}
        /\ mem'.feePos \in {mem.feePos, getCurrentCustomIDFeePositions(ids)}
    BY <2>1 DEF FillPos, FillRevertPos, FillFeePos, SortedInv, IsMem
  <2>3. MemSorted(mem')
    BY <2>2, FormedLists DEF SortedInv, MemSorted, getCurrentPositions,
       getCurrentRevertPositions, getCurrentCustomIDFeePositions
  <2> QED BY <2>1, <2>3 DEF SortedInv
<1>6. ASSUME Restart PROVE SortedInv'
  <2>1. mem' = FreshMem /\ batch' = NoBatch /\ ids' = ids
    BY <1>6 DEF Restart, data
  <2>2. IsMem(mem') /\ MemSorted(mem')
    BY <2>1, FreshMemory, EmptyLists DEF MemSorted
  <2> QED BY <1>0, <2>1, <2>2 DEF SortedInv
<1>7. ASSUME UNCHANGED <<ids, batch, mem>> PROVE SortedInv'
  BY <1>7 DEF SortedInv
<1> QED BY <1>1, <1>2, <1>3, <1>4, <1>5, <1>6, <1>7, OtherSteps

LEMMA SortedInvariance == Spec => []SortedInv
<1>1. Init => SortedInv
  <2> SUFFICES ASSUME Init PROVE SortedInv
    OBVIOUS
  <2>1. mem = FreshMem /\ batch = NoBatch /\ ids = <<>>
    BY DEF Init
  <2>2. IsMem(mem) /\ MemSorted(mem)
    BY <2>1, FreshMemory, EmptyLists DEF MemSorted
  <2>3. Formed(ids) /\ Formed(batch.ids)
    BY <2>1 DEF Formed, NoBatch
  <2> QED BY <2>2, <2>3 DEF SortedInv
<1>2. QueueInv /\ SortedInv /\ [Next]_vars => SortedInv'
  BY NextSorted DEF QueueInv
<1> QED BY <1>1, <1>2, QueueInvariance, PTL DEF Spec

(* The lists of positions are in ascending order on disk, in the batch and   *)
(* in memory (arbiters.go:batchPut, BatchPutRevertTransaction, customid.go:  *)
(* batchPutChangeCustomIDFee), whatever blocks come, are given up or rolled  *)
(* back: the searches of the queries may stop at the first one that fits.    *)
THEOREM PositionsAlwaysSorted == Spec => []PositionsSorted
<1>1. SortedInv => PositionsSorted
  <2> SUFFICES ASSUME SortedInv PROVE PositionsSorted
    OBVIOUS
  <2>1. /\ Heights(getCurrentPositions(ids)) /\ Heights(mem.pos)
        /\ Heights(ListOf(ids, <<"cidfps">>)) /\ Heights(mem.feePos)
        /\ Changes(getCurrentRevertPositions(ids)) /\ Changes(mem.revertPos)
    BY FormedLists DEF SortedInv, MemSorted, getCurrentPositions,
       getCurrentRevertPositions
  <2> QED BY <2>1 DEF PositionsSorted, Ascending, Heights, Changes
<1> QED BY <1>1, SortedInvariance, PTL

-----------------------------------------------------------------------------
(* How far the chain database is with the block it puts.                     *)

HowFar(j) == Len(j.list) - Len(j.left)
InProgress(j) ==
  j.op = "put" =>
    /\ j.at \in Block /\ j.list \in {BlockTxs[j.at], <<>>}
    /\ j.left \in Seq(Hash) /\ HowFar(j) \in 0 .. Len(j.list)
    /\ \A i \in 1 .. Len(j.left) : j.left[i] = j.list[HowFar(j) + i]

LEMMA ListFacts ==
  ASSUME NEW b \in Block, NEW list \in {BlockTxs[b], <<>>}
  PROVE  list \in Seq(Hash) /\ Len(list) \in Nat /\ DOMAIN list = 1 .. Len(list)
<1>1. BlockTxs[b] \in Seq(Hash) /\ <<>> \in Seq(Hash)
  BY SpvAssumption DEF Hash
<1>2. list \in Seq(Hash)
  BY <1>1
<1> QED BY <1>2, LenProperties

LEMMA BeginsProgress ==
  ASSUME NEW j, NEW b \in Block, j.at = b, j.list \in {BlockTxs[b], <<>>}, j.left = j.list
  PROVE  InProgress(j) /\ HowFar(j) = 0
<1>1. j.list \in Seq(Hash) /\ Len(j.list) \in Nat
  BY ListFacts
<1>2. HowFar(j) = 0
  BY <1>1 DEF HowFar
<1> QED BY <1>1, <1>2 DEF InProgress

(* Where a step of the chain database leads: to a block that is begun, or    *)
(* to something else, with nothing collected.                                *)
Begins == /\ batch'.ids = <<>>
          /\ job'.op = "put" => /\ InProgress(job') /\ HowFar(job') = 0

LEMMA ConnectBegins ==
  ASSUME Sound, job.op \in {"put", "detach"}, NEW a \in Branch[tip], a # tip,
         job' = Connect(ChildToward(a, tip), job), batch' = NoBatch
  PROVE  Begins
<1> DEFINE b == ChildToward(a, tip)
<1>1. /\ b \in Block
      /\ \/ job' = [op |-> "done", for |-> job.for]
         \/ /\ b \in DOMAIN fork
            /\ job' = [op |-> "put", at |-> b, list |-> fork[b], left |-> fork[b],
                       for |-> job.for, old |-> job.old]
  BY ConnectFacts
<1> HIDE DEF b
<1>2. batch'.ids = <<>>
  BY DEF NoBatch
<1>3. CASE job' = [op |-> "done", for |-> job.for]
  BY <1>2, <1>3 DEF Begins
<1>4. CASE /\ b \in DOMAIN fork
           /\ job' = [op |-> "put", at |-> b, list |-> fork[b], left |-> fork[b],
                      for |-> job.for, old |-> job.old]
  <2>1. fork[b] \in {BlockTxs[b], <<>>}
    BY <1>4 DEF Sound, Stores
  <2>2. job'.at = b /\ job'.list = fork[b] /\ job'.left = fork[b]
    BY <1>4
  <2>3. InProgress(job') /\ HowFar(job') = 0
    BY <1>1, <2>1, <2>2, BeginsProgress
  <2> QED BY <1>2, <2>3 DEF Begins
<1> QED BY <1>1, <1>3, <1>4

LEMMA CommitBlockBegins ==
  ASSUME Sound, NEW b \in Block \ {Genesis}, NEW h \in Handler, CommitBlock(b, h)
  PROVE  Begins
<1>1. batch' = NoBatch
  BY DEF CommitBlock, Sound, Moves, Idle
<1>2. batch'.ids = <<>>
  BY <1>1 DEF NoBatch
<1>3. \/ job' = Done([for |-> h])
      \/ job' = PutJob(b, BlockTxs[b], [for |-> h, old |-> tip])
  BY DEF CommitBlock
<1>4. CASE job' = Done([for |-> h])
  BY <1>2, <1>4 DEF Begins, Done
<1>5. CASE job' = PutJob(b, BlockTxs[b], [for |-> h, old |-> tip])
  <2>1. job'.at = b /\ job'.list = BlockTxs[b] /\ job'.left = BlockTxs[b]
    BY <1>5 DEF PutJob
  <2> QED BY <1>2, <2>1, BeginsProgress DEF Begins
<1> QED BY <1>3, <1>4, <1>5

LEMMA CommitTxsBegins ==
  ASSUME Sound, CommitTxs
  PROVE  Begins
<1>1. job.op = "put" /\ job' = AfterPut(job) /\ batch' = NoBatch
  BY DEF CommitTxs, Working
<1>2. job.at \in Branch[tip]
  BY <1>1 DEF Sound, Moves
<1>3. CASE job.at # tip
  <2>1. job' = Connect(ChildToward(job.at, tip), job)
    BY <1>1, <1>3 DEF AfterPut
  <2> QED BY <1>1, <1>2, <1>3, <2>1, ConnectBegins
<1>4. CASE job.at = tip
  <2>1. job'.op \in {"done", "detach"}
    BY <1>1, <1>4 DEF AfterPut, Done
  <2> QED BY <1>1, <2>1 DEF Begins, NoBatch
<1> QED BY <1>3, <1>4

LEMMA DetachBegins ==
  ASSUME Sound, Detach
  PROVE  Begins
<1> DEFINE a == Ancestor(job.old, tip)
           below == Prev[job.at]
<1>1. job.op = "detach" /\ a \in Branch[tip] /\ a # tip
  BY DetachFacts
<1>2. job' = IF below = a THEN Connect(ChildToward(below, tip), job)
             ELSE [job EXCEPT !.at = below]
  BY DEF Detach
<1>3. batch' = NoBatch
  BY DetachIds
<1>4. job \in [op : {"detach"}, at : Block, for : Handler, old : Block]
  BY <1>1, JobFields DEF Sound, Moves
<1> HIDE DEF a, below
<1>5. CASE below = a
  BY <1>1, <1>2, <1>3, <1>5, ConnectBegins
<1>6. CASE below # a
  <2>1. job'.op = "detach"
    BY <1>2, <1>4, <1>6
  <2> QED BY <1>3, <2>1 DEF Begins, NoBatch
<1> QED BY <1>5, <1>6

(* One transaction further.                                                  *)
LEMMA PutTxProgress ==
  ASSUME InProgress(job), job.op = "put", job.left # <<>>,
         job' = [op |-> "put", at |-> job.at, list |-> job.list,
                 left |-> Tail(job.left), for |-> job.for, old |-> job.old]
  PROVE  /\ InProgress(job') /\ HowFar(job') = HowFar(job) + 1
         /\ job'.list = job.list /\ job'.at = job.at
         /\ HowFar(job) \in Nat /\ HowFar(job) + 1 \in 1 .. Len(job.list)
         /\ Head(job.left) = job.list[HowFar(job) + 1]
<1> DEFINE list == job.list
           left == job.left
           rest == Tail(left)
<1>1. /\ job.at \in Block /\ list \in {BlockTxs[job.at], <<>>}
      /\ left \in Seq(Hash) /\ HowFar(job) \in 0 .. Len(list)
      /\ \A i \in 1 .. Len(left) : left[i] = list[HowFar(job) + i]
  BY DEF InProgress
<1>2. Len(list) \in Nat /\ Len(left) \in Nat
  BY <1>1, ListFacts, LenProperties
<1>3. /\ rest \in Seq(Hash) /\ Len(rest) = Len(left) - 1
      /\ \A i \in 1 .. Len(left) - 1 : rest[i] = left[i + 1]
      /\ Head(left) = left[1] /\ Len(left) > 0
  BY <1>1, HeadTailProperties, EmptySeq, LenProperties
<1>4. job'.at = job.at /\ job'.list = list /\ job'.left = rest /\ job'.op = "put"
  OBVIOUS
<1> DEFINE far == HowFar(job)
           m == Len(list)
           l == Len(left)
<1>5. far = m - l /\ HowFar(job') = m - (l - 1)
  BY <1>3, <1>4 DEF HowFar
<1> HIDE DEF far, m, l, rest
<1>6. far \in 0 .. m /\ m \in Nat /\ l \in Nat /\ l > 0
  BY <1>1, <1>2, <1>3 DEF far, m, l
<1>7. HowFar(job') = far + 1 /\ far \in Nat /\ far + 1 \in 1 .. m /\ far + 1 \in 0 .. m
  BY <1>5, <1>6
<1>8. ASSUME NEW i \in 1 .. l - 1 PROVE rest[i] = list[(far + 1) + i]
  <2>1. i + 1 \in 1 .. l /\ far + (i + 1) = (far + 1) + i
    BY <1>6, <1>7
  <2>2. rest[i] = left[i + 1]
    BY <1>3 DEF l, rest
  <2>3. left[i + 1] = list[far + (i + 1)]
    BY <1>1, <2>1 DEF l, far
  <2> QED BY <2>1, <2>2, <2>3
<1>9. left[1] = list[far + 1]
  BY <1>1, <1>6 DEF l, far
<1>10. \A i \in 1 .. Len(job'.left) : job'.left[i] = job'.list[HowFar(job') + i]
  BY <1>3, <1>4, <1>7, <1>8 DEF l, rest
<1>11. job'.left \in Seq(Hash)
  BY <1>3, <1>4 DEF rest
<1>12. InProgress(job')
  BY <1>1, <1>4, <1>7, <1>10, <1>11 DEF InProgress, m
<1> QED BY <1>3, <1>4, <1>7, <1>9, <1>12 DEF far, m

(* All of it.                                                                *)
LEMMA AllProgress ==
  ASSUME InProgress(job), job.op = "put", job.left = <<>>
  PROVE  HowFar(job) = Len(job.list) /\ Len(job.list) \in Nat /\ job.list \in Seq(Hash)
<1>1. Len(job.list) \in Nat /\ job.list \in Seq(Hash)
  BY ListFacts DEF InProgress
<1>2. Len(job.left) = 0
  BY EmptySeq
<1> QED BY <1>1, <1>2 DEF HowFar

LEMMA NextProgress ==
  ASSUME Sound, IsMem(mem), InProgress(job), [Next]_vars
  PROVE  InProgress(job)'
<1>1. ASSUME Begins PROVE InProgress(job)'
  BY <1>1 DEF Begins, InProgress, HowFar
<1>2. ASSUME PutTx PROVE InProgress(job)'
  <2>1. job.op = "put" /\ job.left # <<>>
    BY <1>2, PutTxIds
  <2>2. CASE job' = Done(job)
    BY <2>2 DEF InProgress, Done
  <2>3. CASE job' = [op |-> "put", at |-> job.at, list |-> job.list,
                     left |-> Tail(job.left), for |-> job.for, old |-> job.old]
    <3>1. InProgress(job')
      BY <2>1, <2>3, PutTxProgress
    <3> QED BY <3>1 DEF InProgress, HowFar
  <2> QED BY <1>2, <2>2, <2>3, PutTxIds
<1>3. ASSUME CommitFails \/ Restart \/ BlockProcessed PROVE InProgress(job)'
  BY <1>3 DEF CommitFails, Restart, BlockProcessed, InProgress, Done, Idle
<1>4. ASSUME UNCHANGED job PROVE InProgress(job)'
  BY <1>4 DEF InProgress, HowFar
<1>5. ASSUME Query PROVE InProgress(job)'
  BY <1>4, <1>5 DEF Query
<1> QED BY <1>1, <1>2, <1>3, <1>4, <1>5, CommitBlockBegins, CommitTxsBegins,
           DetachBegins, OtherSteps

-----------------------------------------------------------------------------
(* The positions on disk are those of committed batches.                     *)

TurnTag == {"arbptn", "arbpts", "arbdata", "txheight"}
RevertTag == {"revertp", "revertps"}

(* Only a NextTurn transaction changes what is kept of the arbiters, and     *)
(* only a change of consensus the list of those.                             *)
LEMMA PutIdsKeeps ==
  ASSUME NEW w, NEW v, NEW t \in Hash, NEW n, IsPutIds(v, w, t, n)
  PROVE  /\ Tx[t].kind # "NextTurn" =>
              /\ \A key : key[1] \in TurnTag => Same(v.b, w.b, key)
              /\ v.mem.pos = w.mem.pos /\ v.mem.sets = w.mem.sets
         /\ Tx[t].kind \notin {"RevertToPOW", "RevertToDPOS"} =>
              /\ \A key : key[1] \in RevertTag => Same(v.b, w.b, key)
              /\ v.mem.revertPos = w.mem.revertPos
<1>1. ASSUME NEW db, NEW h, NEW mode, IsRevert(v, w, db, h, mode)
      PROVE  /\ \A key : key[1] \in TurnTag => Same(v.b, w.b, key)
             /\ v.mem.pos = w.mem.pos /\ v.mem.sets = w.mem.sets
  <2>1. \A key : key[1] \in TurnTag => key \notin {<<"revertp">>, <<"revertps">>}
    BY DEF TurnTag
  <2> QED BY <1>1, <2>1 DEF IsRevert
<1>2. ASSUME NEW db, NEW h, NEW set, IsTurn(v, w, db, h, set)
      PROVE  /\ \A key : key[1] \in RevertTag => Same(v.b, w.b, key)
             /\ v.mem.revertPos = w.mem.revertPos
  <2>1. \A key : key[1] \in RevertTag => key \notin TurnKeys(h, set)
    BY DEF TurnKeys, RevertTag
  <2> QED BY <1>2, <2>1 DEF IsTurn
<1> DEFINE Both == /\ \A key : key[1] \in TurnTag \cup RevertTag => Same(v.b, w.b, key)
                   /\ v.mem.pos = w.mem.pos /\ v.mem.sets = w.mem.sets
                   /\ v.mem.revertPos = w.mem.revertPos
<1>3. ASSUME NEW key0, NEW value, key0[1] \notin TurnTag \cup RevertTag,
             IsPut(v, w, key0, value)
      PROVE  Both
  BY <1>3 DEF IsPut
<1>4. ASSUME IsPut(v, w, <<"rscid", t>>, Tx[t].ids) PROVE Both
  <2>1. <<"rscid", t>>[1] \notin TurnTag \cup RevertTag
    BY DEF TurnTag, RevertTag
  <2> QED BY <1>3, <1>4, <2>1
<1>5. ASSUME IsPut(v, w, <<"rccid", t>>, [id \in Tx[t].ids |-> Tx[t].did]) PROVE Both
  <2>1. <<"rccid", t>>[1] \notin TurnTag \cup RevertTag
    BY DEF TurnTag, RevertTag
  <2> QED BY <1>3, <1>5, <2>1
<1>6. ASSUME IsPut(v, w, <<"ccidf", t>>, [rate |-> Tx[t].rate, workingHeight |-> Tx[t].at])
      PROVE  Both
  <2>1. <<"ccidf", t>>[1] \notin TurnTag \cup RevertTag
    BY DEF TurnTag, RevertTag
  <2> HIDE DEF Both
  <2> QED BY <1>3, <1>6, <2>1
<1>7. ASSUME IsDeposit(v, w, Tx[t].deposits) PROVE Both
  <2>1. ASSUME NEW key, key[1] \in TurnTag \cup RevertTag PROVE Same(v.b, w.b, key)
    <3>1. \A d \in Tx[t].deposits : key # <<"deposit", d>>
      BY <2>1 DEF TurnTag, RevertTag
    <3> QED BY <1>7, <3>1 DEF IsDeposit
  <2> QED BY <1>7, <2>1 DEF IsDeposit
<1>8. ASSUME Tx[t].kind = "Result",
             \E r : IsResults(r, w, ids, Tx[t].results, n) /\ v = r[Len(Tx[t].results)]
      PROVE  Both
  <2>1. PICK r : IsResults(r, w, ids, Tx[t].results, n) /\ v = r[Len(Tx[t].results)]
    BY <1>8
  <2>2. Len(Tx[t].results) \in Nat
    BY <1>8, TurnAssumption, LenProperties DEF Hash
  <2>3. OnlyResults(v, w)
    BY <2>1, <2>2 DEF IsResults
  <2>4. ASSUME NEW key, key[1] \in TurnTag \cup RevertTag PROVE Same(v.b, w.b, key)
    <3>1. ~ResultKey(key)
      BY <2>4 DEF ResultKey, TurnTag, RevertTag
    <3> QED BY <2>3, <3>1 DEF OnlyResults
  <2> QED BY <2>3, <2>4 DEF OnlyResults
<1>9. ASSUME v = w PROVE Both
  BY <1>9 DEF Same
<1> QED BY <1>1, <1>2, <1>4, <1>5, <1>6, <1>7, <1>8, <1>9 DEF IsPutIds

(* What the batch has of the arbiters when the first k transactions of a     *)
(* list are in it: nothing, or what the one NextTurn among them says.        *)
Turns(list, i) == Tx[list[i]].kind = "NextTurn"
NoTurn(b) == \A key : key[1] \in TurnTag => key \notin DOMAIN b
HasTurn(b, db, at, set) ==
  /\ {<<"arbptn">>, <<"arbpts">>, <<"arbdata", at>>} \subseteq DOMAIN b
  /\ b[<<"arbptn">>] = at /\ b[<<"arbpts">>] = PutHeight(getCurrentPositions(db), at)
  /\ \A key \in DOMAIN b : key[1] = "arbdata" => key = <<"arbdata", at>>
  /\ \A key \in DOMAIN b : key[1] = "txheight" =>
       /\ key = <<"txheight", set>> /\ b[key] = at
       /\ b[<<"arbdata", at>>] = Full(set)
  /\ \/ b[<<"arbdata", at>>] = Full(set) /\ <<"txheight", set>> \in DOMAIN b
     \/ \E h : b[<<"arbdata", at>>] = Ref(h)
TurnsIn(b, db, list, k) ==
  /\ (\A i \in 1 .. k : ~Turns(list, i)) => NoTurn(b)
  /\ \A i \in 1 .. k : Turns(list, i) => HasTurn(b, db, Tx[list[i]].at, Tx[list[i]].set)
BatchTurns == job.op = "put" => TurnsIn(batch.ids, ids, job.list, HowFar(job))

LEMMA OneTurn ==
  ASSUME NEW b \in Block, NEW list \in {BlockTxs[b], <<>>},
         NEW i \in 1 .. Len(list), NEW j \in 1 .. Len(list),
         Turns(list, i), Turns(list, j)
  PROVE  i = j
<1>1. list = BlockTxs[b]
  <2>1. Len(<<>>) = 0
    BY EmptySeq
  <2> QED BY <2>1
<1>2. i \in DOMAIN list /\ j \in DOMAIN list
  BY ListFacts
<1> QED BY <1>1, <1>2, TurnAssumption DEF Turns

LEMMA TurnTaken ==
  ASSUME NEW w, NEW v, NEW db, NEW at, NEW set, IsTurn(v, w, db, at, set), NoTurn(w.b)
  PROVE  HasTurn(v.b, db, at, set)
<1> DEFINE known == Known(db, w.mem, set)
<1>1. /\ {<<"arbptn">>, <<"arbpts">>, <<"arbdata", at>>} \subseteq DOMAIN v.b
      /\ v.b[<<"arbptn">>] = at /\ v.b[<<"arbpts">>] = PutHeight(getCurrentPositions(db), at)
      /\ v.b[<<"arbdata", at>>] = IF known = None THEN Full(set) ELSE Ref(known)
      /\ known = None => /\ <<"txheight", set>> \in DOMAIN v.b
                         /\ v.b[<<"txheight", set>>] = at
      /\ known # None => Same(v.b, w.b, <<"txheight", set>>)
      /\ \A k : k \notin TurnKeys(at, set) => Same(v.b, w.b, k)
  BY DEF IsTurn
<1>2. <<"txheight", set>>[1] \in TurnTag /\ <<"txheight", set>>[1] = "txheight"
  BY DEF TurnTag
<1>3. ASSUME NEW key \in DOMAIN v.b, key[1] = "arbdata" PROVE key = <<"arbdata", at>>
  <2>1. key \notin DOMAIN w.b
    BY <1>3 DEF NoTurn, TurnTag
  <2>2. key \in TurnKeys(at, set)
    BY <1>1, <2>1 DEF Same
  <2> QED BY <1>3, <2>2 DEF TurnKeys
<1>4. ASSUME NEW key \in DOMAIN v.b, key[1] = "txheight"
      PROVE  key = <<"txheight", set>> /\ v.b[key] = at /\ v.b[<<"arbdata", at>>] = Full(set)
  <2>1. key \notin DOMAIN w.b
    BY <1>4 DEF NoTurn, TurnTag
  <2>2. key \in TurnKeys(at, set)
    BY <1>1, <2>1 DEF Same
  <2>3. key = <<"txheight", set>>
    BY <1>4, <2>2 DEF TurnKeys
  <2>4. known = None
    BY <1>1, <2>1, <2>3 DEF Same
  <2> QED BY <1>1, <2>3, <2>4
<1> HIDE DEF known
<1>5. \/ v.b[<<"arbdata", at>>] = Full(set) /\ <<"txheight", set>> \in DOMAIN v.b
      \/ \E h : v.b[<<"arbdata", at>>] = Ref(h)
  BY <1>1
<1> QED BY <1>1, <1>3, <1>4, <1>5 DEF HasTurn

LEMMA TurnKept ==
  ASSUME NEW w, NEW v, \A key : key[1] \in TurnTag => Same(v, w, key)
  PROVE  /\ NoTurn(w) => NoTurn(v)
         /\ \A db, at, set : HasTurn(w, db, at, set) => HasTurn(v, db, at, set)
<1>1. NoTurn(w) => NoTurn(v)
  BY DEF NoTurn, Same
<1>2. ASSUME NEW db, NEW at, NEW set, HasTurn(w, db, at, set) PROVE HasTurn(v, db, at, set)
  <2>1. /\ <<"arbptn">>[1] \in TurnTag /\ <<"arbpts">>[1] \in TurnTag
        /\ <<"arbdata", at>>[1] \in TurnTag /\ <<"txheight", set>>[1] \in TurnTag
    BY DEF TurnTag
  <2>2. /\ Same(v, w, <<"arbptn">>) /\ Same(v, w, <<"arbpts">>)
        /\ Same(v, w, <<"arbdata", at>>) /\ Same(v, w, <<"txheight", set>>)
    BY <2>1
  <2>3. \A key : key[1] = "arbdata" \/ key[1] = "txheight" => Same(v, w, key)
    BY DEF TurnTag
  <2>4. /\ {<<"arbptn">>, <<"arbpts">>, <<"arbdata", at>>} \subseteq DOMAIN v
        /\ v[<<"arbptn">>] = at /\ v[<<"arbpts">>] = PutHeight(getCurrentPositions(db), at)
        /\ v[<<"arbdata", at>>] = w[<<"arbdata", at>>]
        /\ <<"txheight", set>> \in DOMAIN v <=> <<"txheight", set>> \in DOMAIN w
    BY <1>2, <2>2 DEF HasTurn, Same
  <2>5. \A key \in DOMAIN v : key[1] = "arbdata" => key = <<"arbdata", at>>
    BY <1>2, <2>3 DEF HasTurn, Same
  <2>6. \A key \in DOMAIN v : key[1] = "txheight" =>
           key = <<"txheight", set>> /\ v[key] = at /\ v[<<"arbdata", at>>] = Full(set)
    BY <1>2, <2>3, <2>4 DEF HasTurn, Same
  <2>7. \/ v[<<"arbdata", at>>] = Full(set) /\ <<"txheight", set>> \in DOMAIN v
        \/ \E h : v[<<"arbdata", at>>] = Ref(h)
    BY <1>2, <2>4 DEF HasTurn
  <2> QED BY <2>4, <2>5, <2>6, <2>7 DEF HasTurn
<1> QED BY <1>1, <1>2

LEMMA TurnsNext ==
  ASSUME NEW b \in Block, NEW list \in {BlockTxs[b], <<>>}, NEW k \in Nat,
         k + 1 \in 1 .. Len(list), NEW w, NEW v, NEW n,
         IsPutIds(v, w, list[k + 1], n), TurnsIn(w.b, ids, list, k)
  PROVE  TurnsIn(v.b, ids, list, k + 1)
<1> DEFINE t == list[k + 1]
<1>0. t \in Hash /\ Len(list) \in Nat
  BY ListFacts
<1>1. \A i \in 1 .. k + 1 : i \in 1 .. k \/ i = k + 1
  OBVIOUS
<1>2. CASE Turns(list, k + 1)
  <2>1. \A i \in 1 .. k : ~Turns(list, i)
    <3>1. \A i \in 1 .. k : i \in 1 .. Len(list) /\ i # k + 1
      BY <1>0
    <3> QED BY <1>2, <3>1, OneTurn
  <2>2. NoTurn(w.b)
    BY <2>1 DEF TurnsIn
  <2>3. IsTurn(v, w, ids, Tx[t].at, Tx[t].set)
    BY <1>2 DEF IsPutIds, Turns
  <2>4. HasTurn(v.b, ids, Tx[t].at, Tx[t].set)
    BY <2>2, <2>3, TurnTaken
  <2>5. k + 1 \in 1 .. k + 1
    OBVIOUS
  <2> QED BY <1>1, <1>2, <2>1, <2>4, <2>5 DEF TurnsIn
<1>3. CASE ~Turns(list, k + 1)
  <2>1. \A key : key[1] \in TurnTag => Same(v.b, w.b, key)
    BY <1>0, <1>3, PutIdsKeeps DEF Turns
  <2>2. /\ NoTurn(w.b) => NoTurn(v.b)
        /\ \A db, at, set : HasTurn(w.b, db, at, set) => HasTurn(v.b, db, at, set)
    BY <2>1, TurnKept
  <2>3. (\A i \in 1 .. k + 1 : ~Turns(list, i)) => NoTurn(v.b)
    <3>1. \A i \in 1 .. k : i \in 1 .. k + 1
      OBVIOUS
    <3> QED BY <2>2, <3>1 DEF TurnsIn
  <2>4. ASSUME NEW i \in 1 .. k + 1, Turns(list, i)
        PROVE  HasTurn(v.b, ids, Tx[list[i]].at, Tx[list[i]].set)
    <3>1. i \in 1 .. k
      BY <1>1, <1>3, <2>4
    <3> QED BY <2>2, <2>4, <3>1 DEF TurnsIn
  <2> QED BY <2>3, <2>4 DEF TurnsIn
<1> QED BY <1>2, <1>3

LEMMA BeginsTurns ==
  ASSUME Begins
  PROVE  BatchTurns'
<1>1. NoTurn(<<>>)
  BY DEF NoTurn
<1>2. ASSUME job'.op = "put" PROVE TurnsIn(batch'.ids, ids', job'.list, HowFar(job'))
  <2>1. batch'.ids = <<>> /\ HowFar(job') = 0
    BY <1>2 DEF Begins
  <2>2. TurnsIn(<<>>, ids', job'.list, 0)
    BY <1>1 DEF TurnsIn
  <2> QED BY <2>1, <2>2, Zenon
<1> QED BY <1>2 DEF BatchTurns, HowFar

LEMMA NextTurns ==
  ASSUME Sound, IsMem(mem), InProgress(job), BatchTurns, [Next]_vars
  PROVE  BatchTurns'
<1>1. ASSUME PutTx PROVE BatchTurns'
  <2> DEFINE t == Head(job.left)
             v == PutIds(Collecting, t, Height[job.at])
  <2>1. /\ t \in Hash /\ IsPutIds(v, Collecting, t, Height[job.at])
        /\ ids' = ids /\ job.op = "put" /\ job.left # <<>>
        /\ \/ job' = Done(job)
           \/ /\ batch'.ids = v.b
              /\ job' = [op |-> "put", at |-> job.at, list |-> job.list,
                         left |-> Tail(job.left), for |-> job.for, old |-> job.old]
    BY <1>1, PutTxIds
  <2>2. CASE job' = Done(job)
    BY <2>2 DEF BatchTurns, Done
  <2>3. CASE /\ batch'.ids = v.b
             /\ job' = [op |-> "put", at |-> job.at, list |-> job.list,
                        left |-> Tail(job.left), for |-> job.for, old |-> job.old]
    <3>1. /\ HowFar(job') = HowFar(job) + 1 /\ job'.list = job.list
          /\ HowFar(job) \in Nat /\ HowFar(job) + 1 \in 1 .. Len(job.list)
          /\ t = job.list[HowFar(job) + 1]
      BY <2>1, <2>3, PutTxProgress
    <3>2. job.at \in Block /\ job.list \in {BlockTxs[job.at], <<>>}
      BY <2>1 DEF InProgress
    <3>3. TurnsIn(Collecting.b, ids, job.list, HowFar(job))
      BY <2>1 DEF BatchTurns, Collecting
    <3>4. IsPutIds(v, Collecting, job.list[HowFar(job) + 1], Height[job.at])
      BY <2>1, <3>1
    <3> HIDE DEF v, t
    <3>5. TurnsIn(v.b, ids, job.list, HowFar(job) + 1)
      BY <3>1, <3>2, <3>3, <3>4, TurnsNext
    <3>6. TurnsIn(batch'.ids, ids', job'.list, HowFar(job'))
      BY <2>1, <2>3, <3>1, <3>5, Zenon
    <3> QED BY <3>6 DEF BatchTurns, HowFar
  <2> QED BY <2>1, <2>2, <2>3
<1>2. ASSUME CommitFails \/ Restart \/ BlockProcessed PROVE BatchTurns'
  BY <1>2 DEF CommitFails, Restart, BlockProcessed, BatchTurns, Done, Idle
<1>3. ASSUME UNCHANGED <<ids, batch, job>> PROVE BatchTurns'
  BY <1>3 DEF BatchTurns, HowFar
<1>4. ASSUME Query PROVE BatchTurns'
  BY <1>3, <1>4 DEF Query, data
<1> QED BY <1>1, <1>2, <1>3, <1>4, CommitBlockBegins, CommitTxsBegins,
           DetachBegins, BeginsTurns, OtherSteps

(* What committed blocks said.                                               *)
IsLog(l) == l = [arb |-> l.arb, reserved |-> l.reserved, received |-> l.received,
                 fee |-> l.fee, deposits |-> l.deposits]

SaysBase(c) == c[1]
SaysStep(c, l, t) == Says(l, t, c[2])
Said == INSTANCE FoldProofs WITH Base <- SaysBase, Step <- SaysStep

SaysAll(l, list, n) == FoldLeft(LAMBDA a, t : Says(a, t, n), l, list)

(* r has what was said before a block and after each of its transactions.    *)
IsSaid(r, l, list, n) ==
  /\ r[0] = l
  /\ \A k \in 1 .. Len(list) : r[k] = Says(r[k - 1], list[k], n)

LEMMA SaidRun ==
  ASSUME NEW l, NEW list \in Seq(Hash), NEW n
  PROVE  \E r : /\ IsSaid(r, l, list, n)
                /\ SaysAll(l, list, n) = r[Len(list)]
<1> DEFINE c == <<l, n>>
           new == SaysAll(l, list, n)
<1>0. c[1] = l /\ c[2] = n
  OBVIOUS
<1>1. new = Said!Folded(c, list)
  BY DEF SaysAll, FoldLeft, MapThenFoldSet, Max, Said!Folded, Said!Solves, Said!Largest,
     SaysBase, SaysStep
<1>2. PICK r : Said!IsRun(c, list, r) /\ new = r[Len(list)]
  BY <1>1, Said!FoldRun
<1>3. IsSaid(r, l, list, n)
  BY <1>0, <1>2 DEF Said!IsRun, IsSaid, SaysBase, SaysStep
<1> QED BY <1>2, <1>3

(* The results of one transaction, in their order.                           *)
VerdictsBase(c) == c[1]
VerdictsStep(c, l, r) == SaysResult(l, r, c[2])
Verdicts == INSTANCE FoldProofs WITH Base <- VerdictsBase, Step <- VerdictsStep

IsVerdicts(s, l, results, n) ==
  /\ s[0] = l
  /\ \A k \in 1 .. Len(results) : s[k] = SaysResult(s[k - 1], results[k], n)

LEMMA VerdictsRun ==
  ASSUME NEW l, NEW t \in Hash, Tx[t].kind = "Result", NEW n
  PROVE  \E s : /\ IsVerdicts(s, l, Tx[t].results, n)
                /\ Says(l, t, n) = s[Len(Tx[t].results)]
<1> DEFINE c == <<l, n>>
           list == Tx[t].results
           new == Says(l, t, n)
<1>0. c[1] = l /\ c[2] = n
  OBVIOUS
<1>1. new = Verdicts!Folded(c, list)
  BY DEF Says, FoldLeft, MapThenFoldSet, Max, Verdicts!Folded, Verdicts!Solves,
     Verdicts!Largest, VerdictsBase, VerdictsStep
<1>2. list \in Seq(Verdict)
  BY TurnAssumption DEF Hash, Verdict
<1> HIDE DEF list, new
<1>3. PICK s : Verdicts!IsRun(c, list, s) /\ new = s[Len(list)]
  BY <1>1, <1>2, Verdicts!FoldRun
<1>4. IsVerdicts(s, l, list, n)
  BY <1>0, <1>3 DEF Verdicts!IsRun, IsVerdicts, VerdictsBase, VerdictsStep
<1> QED BY <1>3, <1>4 DEF list, new

LEMMA SaysResultArb ==
  ASSUME NEW l, IsLog(l), NEW r, NEW n
  PROVE  IsLog(SaysResult(l, r, n)) /\ SaysResult(l, r, n).arb = l.arb
<1> DEFINE m == SaysResult(l, r, n)
<1>1. CASE r.approved /\ r.about = "Reserve"
  <2>1. \E x : m = [l EXCEPT !.reserved = x]
    BY <1>1 DEF SaysResult
  <2> QED BY <2>1 DEF IsLog
<1>2. CASE r.approved /\ r.about = "Receive"
  <2>1. \E x : m = [l EXCEPT !.received = x]
    BY <1>2 DEF SaysResult
  <2> QED BY <2>1 DEF IsLog
<1>3. CASE r.approved /\ r.about = "Fee"
  <2>1. \E x : m = [l EXCEPT !.fee = x]
    BY <1>3 DEF SaysResult
  <2> QED BY <2>1 DEF IsLog
<1>4. CASE ~(r.approved /\ r.about \in {"Reserve", "Receive", "Fee"})
  <2>1. m = l
    BY <1>4 DEF SaysResult
  <2> QED BY <2>1
<1> QED BY <1>1, <1>2, <1>3, <1>4

LEMMA VerdictsArb ==
  ASSUME NEW l, IsLog(l), NEW results \in Seq(Verdict), NEW n, NEW s,
         IsVerdicts(s, l, results, n)
  PROVE  \A k \in 0 .. Len(results) : IsLog(s[k]) /\ s[k].arb = l.arb
<1> DEFINE m == Len(results)
           R == {k \in 0 .. m : IsLog(s[k]) /\ s[k].arb = l.arb}
<1>0. m \in Nat
  BY LenProperties
<1>1. 0 \in R
  BY <1>0 DEF IsVerdicts
<1>2. ASSUME NEW k \in 0 .. m - 1, k \in R PROVE k + 1 \in R
  <2>1. k + 1 \in 0 .. m /\ k + 1 \in 1 .. m /\ (k + 1) - 1 = k
    BY <1>0
  <2>2. s[k + 1] = SaysResult(s[k], results[k + 1], n)
    <3>1. s[k + 1] = SaysResult(s[(k + 1) - 1], results[k + 1], n)
      BY <2>1 DEF IsVerdicts
    <3> QED BY <2>1, <3>1
  <2> QED BY <1>2, <2>1, <2>2, SaysResultArb
<1>3. 0 .. m \subseteq R
  <2> HIDE DEF R, m
  <2> QED BY <1>0, <1>1, <1>2, Verdicts!CountUp
<1> QED BY <1>3

(* The arbiters after a turn, by height.                                     *)
ArbAfter(arb, at, set) ==
  Over(Row(at, set), Without(arb, {q \in DOMAIN arb : q >= at}))

LEMMA SaysArb ==
  ASSUME NEW l, IsLog(l), NEW t \in Hash, NEW n
  PROVE  /\ IsLog(Says(l, t, n))
         /\ Tx[t].kind = "NextTurn" => Says(l, t, n).arb = ArbAfter(l.arb, Tx[t].at, Tx[t].set)
         /\ Tx[t].kind # "NextTurn" => Says(l, t, n).arb = l.arb
<1> DEFINE m == Says(l, t, n)
<1>1. CASE Tx[t].kind = "NextTurn"
  <2>1. m = [l EXCEPT !.arb = ArbAfter(l.arb, Tx[t].at, Tx[t].set)]
    BY <1>1 DEF Says, ArbAfter
  <2> QED BY <1>1, <2>1 DEF IsLog
<1>2. CASE Tx[t].kind = "Deposit"
  <2>1. m = [l EXCEPT !.deposits = @ \cup Tx[t].deposits]
    BY <1>2 DEF Says
  <2> QED BY <1>2, <2>1 DEF IsLog
<1>3. CASE Tx[t].kind = "Result"
  <2>1. Tx[t].results \in Seq(Verdict) /\ Len(Tx[t].results) \in Nat
    BY <1>3, TurnAssumption, LenProperties DEF Hash, Verdict
  <2>2. PICK s : IsVerdicts(s, l, Tx[t].results, n) /\ m = s[Len(Tx[t].results)]
    BY <1>3, VerdictsRun
  <2>3. IsLog(m) /\ m.arb = l.arb
    BY <2>1, <2>2, VerdictsArb
  <2> QED BY <1>3, <2>3
<1>4. CASE Tx[t].kind \notin {"NextTurn", "Deposit", "Result"}
  <2>1. m = l
    BY <1>4 DEF Says
  <2> QED BY <1>4, <2>1
<1> QED BY <1>1, <1>2, <1>3, <1>4

(* What the transactions of a list have said of the arbiters.                *)
ArbSaid(new, l, list) ==
  /\ IsLog(new)
  /\ (\A i \in 1 .. Len(list) : ~Turns(list, i)) => new.arb = l.arb
  /\ \A i \in 1 .. Len(list) : Turns(list, i) =>
       new.arb = ArbAfter(l.arb, Tx[list[i]].at, Tx[list[i]].set)

LEMMA SaidArb ==
  ASSUME NEW b \in Block, NEW list \in {BlockTxs[b], <<>>}, NEW l, IsLog(l), NEW n, NEW r,
         IsSaid(r, l, list, n)
  PROVE  ArbSaid(r[Len(list)], l, list)
<1> DEFINE m == Len(list)
           After(k) == /\ IsLog(r[k])
                       /\ (\A i \in 1 .. k : ~Turns(list, i)) => r[k].arb = l.arb
                       /\ \A i \in 1 .. k : Turns(list, i) =>
                            r[k].arb = ArbAfter(l.arb, Tx[list[i]].at, Tx[list[i]].set)
           R == {k \in 0 .. m : After(k)}
<1>0. m \in Nat
  BY ListFacts
<1>1. 0 \in R
  BY <1>0 DEF IsSaid
<1>2. ASSUME NEW k \in 0 .. m - 1, k \in R PROVE k + 1 \in R
  <2>1. k + 1 \in 0 .. m /\ k + 1 \in 1 .. m /\ (k + 1) - 1 = k
    BY <1>0
  <2>2. r[k + 1] = Says(r[k], list[k + 1], n)
    <3>1. r[k + 1] = Says(r[(k + 1) - 1], list[k + 1], n)
      BY <2>1 DEF IsSaid
    <3> QED BY <2>1, <3>1
  <2>3. After(k)
    BY <1>2
  <2>4. /\ IsLog(r[k + 1])
        /\ Turns(list, k + 1) =>
             r[k + 1].arb = ArbAfter(r[k].arb, Tx[list[k + 1]].at, Tx[list[k + 1]].set)
        /\ ~Turns(list, k + 1) => r[k + 1].arb = r[k].arb
    <3>1. list[k + 1] \in Hash
      BY <2>1, ListFacts, ElementOfSeq
    <3> QED BY <2>2, <2>3, <3>1, SaysArb DEF Turns
  <2>5. \A i \in 1 .. k + 1 : i \in 1 .. k \/ i = k + 1
    OBVIOUS
  <2>6. CASE Turns(list, k + 1)
    <3>1. \A i \in 1 .. k : ~Turns(list, i)
      <4>1. \A i \in 1 .. k : i \in 1 .. m /\ i # k + 1
        BY <1>0
      <4> QED BY <2>1, <2>6, <4>1, OneTurn
    <3>2. r[k].arb = l.arb
      BY <2>3, <3>1
    <3>3. \A i \in 1 .. k + 1 : Turns(list, i) => i = k + 1
      BY <2>5, <3>1
    <3>4. After(k + 1)
      BY <2>4, <2>6, <3>2, <3>3
    <3> QED BY <2>1, <3>4
  <2>7. CASE ~Turns(list, k + 1)
    <3>1. \A i \in 1 .. k : i \in 1 .. k + 1
      OBVIOUS
    <3>2. \A i \in 1 .. k + 1 : Turns(list, i) => i \in 1 .. k
      BY <2>5, <2>7
    <3>3. After(k + 1)
      BY <2>3, <2>4, <2>7, <3>1, <3>2
    <3> QED BY <2>1, <3>3
  <2> QED BY <2>6, <2>7
<1>3. m \in R
  <2> HIDE DEF R, m
  <2>1. 0 .. m \subseteq R
    BY <1>0, <1>1, <1>2, Said!CountUp
  <2> QED BY <1>0, <2>1
<1> QED BY <1>3 DEF ArbSaid

(* What is on disk and what was said.                                        *)
DiskPositions ==
  /\ IsLog(log) /\ DOMAIN log.arb \subseteq Nat \ {0}
  /\ Elems(getCurrentPositions(ids)) = DOMAIN log.arb

LEMMA WritePositions ==
  ASSUME NEW db, NEW b
  PROVE  /\ <<"arbpts">> \notin DOMAIN b =>
              getCurrentPositions(Write(db, b)) = getCurrentPositions(db)
         /\ <<"arbpts">> \in DOMAIN b /\ b[<<"arbpts">>] # None =>
              getCurrentPositions(Write(db, b)) = b[<<"arbpts">>]
<1> DEFINE key == <<"arbpts">>
           new == Write(db, b)
<1>1. Lookup(new, key) = IF key \in DOMAIN b THEN b[key] ELSE Lookup(db, key)
  BY LookupWrite, LookupOver
<1> HIDE DEF new, key
<1>2. key \notin DOMAIN b => ListOf(new, key) = ListOf(db, key)
  BY <1>1, ListOfLookup
<1>3. key \in DOMAIN b /\ b[key] # None => ListOf(new, key) = b[key]
  BY <1>1 DEF ListOf, Lookup
<1> QED BY <1>2, <1>3 DEF getCurrentPositions, key, new

(* The commit of a block: what is said of the arbiters, and the batch.       *)
LEMMA CommitTurns ==
  ASSUME Sound, InProgress(job), BatchTurns, IsLog(log), CommitTxs
  PROVE  /\ IsLog(log')
         /\ \/ NoTurn(batch.ids) /\ log'.arb = log.arb
            \/ \E t \in Hash :
                 /\ Tx[t].kind = "NextTurn"
                 /\ \E i \in 1 .. HowFar(job) : job.list[i] = t
                 /\ HasTurn(batch.ids, ids, Tx[t].at, Tx[t].set)
                 /\ log'.arb = ArbAfter(log.arb, Tx[t].at, Tx[t].set)
<1> DEFINE list == job.list
           n == Height[job.at]
<1>1. /\ job.op = "put" /\ job.left = <<>>
      /\ log' = SaysAll(log, list, n)
  BY DEF CommitTxs, Working, SaysAll
<1>2. HowFar(job) = Len(list) /\ list \in Seq(Hash) /\ Len(list) \in Nat
  BY <1>1, AllProgress
<1>3. job.at \in Block /\ list \in {BlockTxs[job.at], <<>>}
  BY <1>1 DEF InProgress
<1>4. TurnsIn(batch.ids, ids, list, Len(list))
  BY <1>1, <1>2 DEF BatchTurns
<1> HIDE DEF list, n
<1>5. PICK r : IsSaid(r, log, list, n) /\ log' = r[Len(list)]
  BY <1>1, <1>2, SaidRun
<1>6. /\ IsLog(log')
      /\ (\A i \in 1 .. Len(list) : ~Turns(list, i)) => log'.arb = log.arb
      /\ \A i \in 1 .. Len(list) : Turns(list, i) =>
              log'.arb = ArbAfter(log.arb, Tx[list[i]].at, Tx[list[i]].set)
  <2>1. ArbSaid(r[Len(list)], log, list)
    BY <1>3, <1>5, SaidArb
  <2>2. ArbSaid(log', log, list)
    BY <1>5, <2>1, Zenon
  <2> QED BY <2>2 DEF ArbSaid
<1>7. CASE \A i \in 1 .. Len(list) : ~Turns(list, i)
  BY <1>4, <1>6, <1>7 DEF TurnsIn
<1>8. CASE \E i \in 1 .. Len(list) : Turns(list, i)
  <2>1. PICK i \in 1 .. Len(list) : Turns(list, i)
    BY <1>8
  <2>2. list[i] \in Hash /\ Tx[list[i]].kind = "NextTurn"
    BY <1>2, <2>1 DEF Turns
  <2>3. /\ HasTurn(batch.ids, ids, Tx[list[i]].at, Tx[list[i]].set)
        /\ log'.arb = ArbAfter(log.arb, Tx[list[i]].at, Tx[list[i]].set)
    BY <1>4, <1>6, <2>1 DEF TurnsIn
  <2>4. i \in 1 .. HowFar(job) /\ job.list[i] = list[i]
    BY <1>2, <2>1 DEF list
  <2> QED BY <1>6, <2>2, <2>3, <2>4
<1> QED BY <1>7, <1>8

LEMMA CommitDisk ==
  ASSUME Sound, SortedInv, InProgress(job), BatchTurns, DiskPositions, CommitTxs
  PROVE  DiskPositions'
<1>1. ids' = Write(ids, batch.ids)
  BY DEF CommitTxs
<1>2. /\ IsLog(log')
      /\ \/ NoTurn(batch.ids) /\ log'.arb = log.arb
         \/ \E t \in Hash :
              /\ Tx[t].kind = "NextTurn"
              /\ HasTurn(batch.ids, ids, Tx[t].at, Tx[t].set)
              /\ log'.arb = ArbAfter(log.arb, Tx[t].at, Tx[t].set)
  BY CommitTurns DEF DiskPositions
<1>3. CASE NoTurn(batch.ids) /\ log'.arb = log.arb
  <2>1. <<"arbpts">> \notin DOMAIN batch.ids
    BY <1>3 DEF NoTurn, TurnTag
  <2>2. getCurrentPositions(ids') = getCurrentPositions(ids)
    BY <1>1, <2>1, WritePositions
  <2> QED BY <1>2, <1>3, <2>2 DEF DiskPositions, Elems
<1>4. ASSUME NEW t \in Hash, Tx[t].kind = "NextTurn",
             HasTurn(batch.ids, ids, Tx[t].at, Tx[t].set),
             log'.arb = ArbAfter(log.arb, Tx[t].at, Tx[t].set)
      PROVE  DiskPositions'
  <2> DEFINE at == Tx[t].at
             old == getCurrentPositions(ids)
             new == PutHeight(old, at)
  <2>1. at \in Nat \ {0}
    BY <1>4, TurnAssumption DEF Hash
  <2>2. Heights(old)
    BY FormedLists DEF SortedInv, getCurrentPositions
  <2> HIDE DEF at, old
  <2>3. Heights(new) /\ Elems(new) = {at} \cup {p \in Elems(old) : p < at}
    BY <2>1, <2>2, PutHeightFacts
  <2>4. new # None
    BY <2>3, NilAssumption DEF Heights
  <2>5. <<"arbpts">> \in DOMAIN batch.ids /\ batch.ids[<<"arbpts">>] = new
    BY <1>4 DEF HasTurn, at, old
  <2> HIDE DEF new
  <2>6. getCurrentPositions(ids') = new
    BY <1>1, <2>4, <2>5, WritePositions
  <2>7. DOMAIN log'.arb = {at} \cup {p \in DOMAIN log.arb : ~(p >= at)}
    BY <1>4 DEF ArbAfter, Over, Row, Without, at
  <2>8. DOMAIN log'.arb = {at} \cup {p \in DOMAIN log.arb : p < at}
    BY <2>1, <2>7 DEF DiskPositions
  <2>9. Elems(getCurrentPositions(ids')) = DOMAIN log'.arb
    BY <2>3, <2>6, <2>8 DEF DiskPositions, old
  <2>10. DOMAIN log'.arb \subseteq Nat \ {0}
    BY <2>1, <2>8 DEF DiskPositions
  <2> QED BY <1>2, <2>9, <2>10 DEF DiskPositions, Elems
<1> QED BY <1>2, <1>3, <1>4

LEMMA NextDisk ==
  ASSUME Sound, SortedInv, InProgress(job), BatchTurns, DiskPositions, [Next]_vars
  PROVE  DiskPositions'
<1>1. ASSUME UNCHANGED <<ids, log>> PROVE DiskPositions'
  BY <1>1 DEF DiskPositions, Elems
<1>2. ASSUME Detach PROVE DiskPositions'
  <2>1. ids' = Write(ids, <<>>) /\ log' = log
    BY <1>2, DetachIds
  <2>2. getCurrentPositions(ids') = getCurrentPositions(ids)
    <3>1. <<"arbpts">> \notin DOMAIN <<>>
      OBVIOUS
    <3> QED BY <2>1, <3>1, WritePositions
  <2> QED BY <2>1, <2>2 DEF DiskPositions, Elems
<1>3. ASSUME PutTx \/ CommitFails \/ Query \/ Restart PROVE DiskPositions'
  BY <1>1, <1>3 DEF PutTx, CommitFails, Query, Restart, data, past
<1> QED BY <1>1, <1>2, <1>3, CommitDisk, OtherSteps

TurnsInv == InProgress(job) /\ BatchTurns /\ DiskPositions

LEMMA TurnsInvariance == Spec => []TurnsInv
<1>1. Init => TurnsInv
  <2> SUFFICES ASSUME Init PROVE TurnsInv
    OBVIOUS
  <2>1. job.op = "idle" /\ ids = <<>> /\ IsLog(log) /\ log.arb = <<>>
    BY DEF Init, Idle, IsLog
  <2>2. getCurrentPositions(ids) = <<>>
    BY <2>1 DEF getCurrentPositions, ListOf, Lookup
  <2>3. DOMAIN <<>> = {}
    OBVIOUS
  <2> QED BY <2>1, <2>2, <2>3 DEF TurnsInv, InProgress, BatchTurns, DiskPositions, Elems
<1>2. QueueInv /\ SortedInv /\ TurnsInv /\ [Next]_vars => TurnsInv'
  BY NextProgress, NextTurns, NextDisk DEF QueueInv, TurnsInv, SortedInv
<1> QED BY <1>1, <1>2, QueueInvariance, SortedInvariance, PTL DEF Spec

(* The positions of arbiters on disk are those of the blocks that were       *)
(* committed (arbiters.go:batchPut takes them from the database): what a     *)
(* block that was given up left in posCache never gets there, whatever       *)
(* blocks are put, fail, are rolled back or interrupted by a crash.          *)
THEOREM PositionsAlwaysCommitted == Spec => []PositionsCommitted
<1>1. TurnsInv => PositionsCommitted
  BY DEF TurnsInv, DiskPositions, PositionsCommitted, Elems
<1> QED BY <1>1, TurnsInvariance, PTL

-----------------------------------------------------------------------------
(* The arbiters that queries answer with.                                    *)

NotWrong == wrong \cap {"lost", "overwritten"} = {}

(* A list in memory has not been read yet, or is what the database will say  *)
(* once the batch is written.                                                *)
CacheOf(list, b, db, key) ==
  IF list = <<>> THEN key \notin DOMAIN b ELSE list = ListOf(Over(b, db), key)

(* The heights that have a set in full, on disk and in memory.               *)
InFull(d, h, set) ==
  /\ h \in Nat /\ Full(set) # None
  /\ Lookup(d, <<"arbdata", h>>) = Full(set)
Knows(db) == \A set : Lookup(db, <<"txheight", set>>) # None =>
                        InFull(db, Lookup(db, <<"txheight", set>>), set)
Remembers(m, d) == \A set \in DOMAIN m.sets : InFull(d, m.sets[set], set)

(* The set of a height is found in one step at most.                         *)
Resolves(d, at, set) ==
  /\ Full(set) # None
  /\ \/ Lookup(d, <<"arbdata", at>>) = Full(set)
     \/ \E h : Lookup(d, <<"arbdata", at>>) = Ref(h) /\ InFull(d, h, set)

(* A height that has a set in full is written again.                         *)
Covers(b, db) ==
  \E key \in DOMAIN b \cap DOMAIN db : key[1] = "arbdata" /\ ~db[key].ref

(* The turns among the first k transactions of a list can be looked up.      *)
TurnsResolve(d, list, k) ==
  \A i \in 1 .. k : Turns(list, i) => Resolves(d, Tx[list[i]].at, Tx[list[i]].set)

(* What holds of the caches, the known sets and the sets that were said.     *)
ArbState(m, b, db) ==
  /\ CacheOf(m.pos, b, db, <<"arbpts">>)
  /\ CacheOf(m.revertPos, b, db, <<"revertps">>)
  /\ Knows(db)
  /\ ~Covers(b, db) => Remembers(m, Over(b, db))
ArbInv ==
  NotWrong =>
    /\ ArbState(mem, batch.ids, ids)
    /\ job.op = "put" /\ ~Covers(batch.ids, ids) =>
         TurnsResolve(Over(batch.ids, ids), job.list, HowFar(job))
    /\ \A p \in DOMAIN log.arb : Resolves(ids, p, log.arb[p])
LastTurn ==
  DOMAIN log.arb # {} =>
    /\ Lookup(ids, <<"arbptn">>) \in DOMAIN log.arb
    /\ \A q \in DOMAIN log.arb : q <= Lookup(ids, <<"arbptn">>)

LEMMA LookupSame ==
  ASSUME NEW v, NEW w, NEW db, NEW key, Same(v, w, key)
  PROVE  Lookup(Over(v, db), key) = Lookup(Over(w, db), key)
BY LookupOver DEF Same

LEMMA CacheSame ==
  ASSUME NEW v, NEW w, NEW db, NEW key, NEW list, Same(v, w, key), CacheOf(list, w, db, key)
  PROVE  CacheOf(list, v, db, key)
BY LookupSame, ListOfLookup DEF CacheOf, Same

LEMMA CachePut ==
  ASSUME NEW v, NEW db, NEW key, NEW list, list # <<>>, list # None,
         key \in DOMAIN v, v[key] = list
  PROVE  CacheOf(list, v, db, key)
<1>1. Lookup(Over(v, db), key) = list
  BY LookupOver
<1> QED BY <1>1 DEF CacheOf, ListOf, Lookup

(* A database that says the same.                                            *)
LEMMA InFullSame ==
  ASSUME NEW d, NEW e, \A key : key[1] \in TurnTag => Lookup(e, key) = Lookup(d, key)
  PROVE  /\ \A h, set : InFull(e, h, set) <=> InFull(d, h, set)
         /\ \A at, set : Resolves(e, at, set) <=> Resolves(d, at, set)
         /\ Knows(e) <=> Knows(d)
         /\ \A m : Remembers(m, e) <=> Remembers(m, d)
         /\ \A list, k : TurnsResolve(e, list, k) <=> TurnsResolve(d, list, k)
<1>1. ASSUME NEW h PROVE Lookup(e, <<"arbdata", h>>) = Lookup(d, <<"arbdata", h>>)
  <2>1. <<"arbdata", h>>[1] \in TurnTag
    BY DEF TurnTag
  <2> QED BY <2>1
<1>2. ASSUME NEW set PROVE Lookup(e, <<"txheight", set>>) = Lookup(d, <<"txheight", set>>)
  <2>1. <<"txheight", set>>[1] \in TurnTag
    BY DEF TurnTag
  <2> QED BY <2>1
<1>3. \A h, set : InFull(e, h, set) <=> InFull(d, h, set)
  BY <1>1 DEF InFull
<1>4. ASSUME NEW at, NEW set PROVE Resolves(e, at, set) <=> Resolves(d, at, set)
  BY <1>1, <1>3 DEF Resolves
<1>5. Knows(e) <=> Knows(d)
  BY <1>2, <1>3 DEF Knows
<1>6. \A m : Remembers(m, e) <=> Remembers(m, d)
  BY <1>3 DEF Remembers
<1>7. \A list, k : TurnsResolve(e, list, k) <=> TurnsResolve(d, list, k)
  BY <1>4 DEF TurnsResolve
<1> QED BY <1>3, <1>4, <1>5, <1>6, <1>7

LEMMA CoversSame ==
  ASSUME NEW v, NEW w, NEW db, \A key : key[1] = "arbdata" => Same(v, w, key)
  PROVE  Covers(v, db) <=> Covers(w, db)
BY DEF Covers, Same

LEMMA NoTurnCovers ==
  ASSUME NEW b, NEW db, NoTurn(b)
  PROVE  ~Covers(b, db)
BY DEF Covers, NoTurn, TurnTag

(* A set in full that the batch does not write again is still there.         *)
LEMMA StaysInFull ==
  ASSUME NEW b, NEW db, NEW h, NEW set, InFull(db, h, set), ~Covers(b, db)
  PROVE  InFull(Over(b, db), h, set)
<1> DEFINE key == <<"arbdata", h>>
<1>1. key[1] = "arbdata"
  OBVIOUS
<1>2. key \in DOMAIN db /\ db[key] = Full(set)
  BY DEF InFull, Lookup
<1>3. ~db[key].ref
  BY <1>2 DEF Full
<1> HIDE DEF key
<1>4. key \notin DOMAIN b
  BY <1>1, <1>2, <1>3 DEF Covers
<1>5. Lookup(Over(b, db), key) = Lookup(db, key)
  BY <1>4, LookupOver
<1> QED BY <1>5 DEF InFull, key

(* A turn that is put: its set is written in full or refers to a height that *)
(* has it in full, unless it takes the place of one others refer to.         *)
LEMMA TurnArb ==
  ASSUME NEW w, NEW v, NEW db, NEW at \in Nat, NEW set, IsTurn(v, w, db, at, set),
         NoTurn(w.b), Full(set) # None, Formed(db), ArbState(w.mem, w.b, db)
  PROVE  /\ ArbState(v.mem, v.b, db)
         /\ ~Covers(v.b, db) => Resolves(Over(v.b, db), at, set)
<1> DEFINE new == Over(v.b, db)
           known == Known(db, w.mem, set)
           first == IF known = None THEN at ELSE known
           positions == PutHeight(getCurrentPositions(db), at)
<1>1. CacheOf(v.mem.pos, v.b, db, <<"arbpts">>)
  <2>1. Heights(positions) /\ positions # <<>>
    BY FormedLists, PutHeightFacts DEF getCurrentPositions
  <2>2. positions # None
    BY <2>1, NilAssumption DEF Heights
  <2>3. /\ v.mem.pos = positions /\ <<"arbpts">> \in DOMAIN v.b
        /\ v.b[<<"arbpts">>] = positions
    BY DEF IsTurn
  <2> HIDE DEF positions
  <2> QED BY <2>1, <2>2, <2>3, CachePut
<1>2. CacheOf(v.mem.revertPos, v.b, db, <<"revertps">>)
  <2>1. <<"revertps">> \notin TurnKeys(at, set)
    BY DEF TurnKeys
  <2>2. Same(v.b, w.b, <<"revertps">>) /\ v.mem.revertPos = w.mem.revertPos
    BY <2>1 DEF IsTurn
  <2> QED BY <2>2, CacheSame DEF ArbState
<1>3. Knows(db)
  BY DEF ArbState
<1>4. Remembers(w.mem, db)
  <2>1. ~Covers(w.b, db)
    BY NoTurnCovers
  <2>2. \A key : key[1] \in TurnTag => Lookup(Over(w.b, db), key) = Lookup(db, key)
    BY LookupOver DEF NoTurn
  <2> QED BY <2>1, <2>2, InFullSame DEF ArbState
<1>5. known # None => InFull(db, known, set)
  BY <1>3, <1>4 DEF Known, Knows, Remembers
<1> HIDE DEF known
<1>6. ASSUME ~Covers(v.b, db) PROVE Remembers(v.mem, new) /\ Resolves(new, at, set)
  <2>1. \A h, s : InFull(db, h, s) => InFull(new, h, s)
    BY <1>6, StaysInFull DEF InFull
  <2>2. Lookup(new, <<"arbdata", at>>) = IF known = None THEN Full(set) ELSE Ref(known)
    BY LookupOver DEF IsTurn, known
  <2> HIDE DEF new
  <2>3. InFull(new, first, set)
    BY <1>5, <2>1, <2>2 DEF InFull
  <2>4. Resolves(new, at, set)
    BY <2>2, <2>3 DEF Resolves
  <2>5. v.mem.sets = Over(Row(set, first), w.mem.sets)
    BY DEF IsTurn, known
  <2> HIDE DEF first
  <2>6. ASSUME NEW s \in DOMAIN v.mem.sets PROVE InFull(new, v.mem.sets[s], s)
    <3>1. CASE s = set
      <4>1. v.mem.sets[s] = first
        BY <2>5, <3>1 DEF Over, Row
      <4> QED BY <2>3, <3>1, <4>1
    <3>2. CASE s # set
      <4>1. s \in DOMAIN w.mem.sets /\ v.mem.sets[s] = w.mem.sets[s]
        BY <2>5, <3>2 DEF Over, Row
      <4> QED BY <1>4, <2>1, <4>1 DEF Remembers
    <3> QED BY <3>1, <3>2
  <2> QED BY <2>4, <2>6 DEF Remembers
<1> QED BY <1>1, <1>2, <1>3, <1>6 DEF ArbState

(* Any other transaction.                                                    *)
LEMMA OtherArb ==
  ASSUME NEW w, NEW v, NEW t \in Hash, NEW n \in Nat, IsPutIds(v, w, t, n),
         Tx[t].kind # "NextTurn", Formed(ids), ArbState(w.mem, w.b, ids)
  PROVE  /\ ArbState(v.mem, v.b, ids)
         /\ Covers(v.b, ids) <=> Covers(w.b, ids)
         /\ \A list, k : TurnsResolve(Over(w.b, ids), list, k) =>
                           TurnsResolve(Over(v.b, ids), list, k)
<1>1. /\ \A key : key[1] \in TurnTag => Same(v.b, w.b, key)
      /\ v.mem.pos = w.mem.pos /\ v.mem.sets = w.mem.sets
  BY PutIdsKeeps
<1>2. \A key : key[1] \in TurnTag =>
        Lookup(Over(v.b, ids), key) = Lookup(Over(w.b, ids), key)
  BY <1>1, LookupSame
<1>3. Covers(v.b, ids) <=> Covers(w.b, ids)
  BY <1>1, CoversSame DEF TurnTag
<1>4. \A list, k : TurnsResolve(Over(v.b, ids), list, k) <=>
                     TurnsResolve(Over(w.b, ids), list, k)
  BY <1>2, InFullSame
<1>5. Remembers(w.mem, Over(w.b, ids)) => Remembers(v.mem, Over(v.b, ids))
  <2>1. Remembers(w.mem, Over(w.b, ids)) => Remembers(w.mem, Over(v.b, ids))
    BY <1>2, InFullSame
  <2> QED BY <1>1, <2>1 DEF Remembers
<1>6. CacheOf(v.mem.pos, v.b, ids, <<"arbpts">>)
  <2>1. <<"arbpts">>[1] \in TurnTag
    BY DEF TurnTag
  <2> QED BY <1>1, <2>1, CacheSame DEF ArbState
<1>7. ASSUME NEW h \in Nat, NEW mode \in {"POW", "DPOS"}, IsRevert(v, w, ids, h, mode)
      PROVE  CacheOf(v.mem.revertPos, v.b, ids, <<"revertps">>)
  <2> DEFINE list == ChangesWith(ids, h, mode)
  <2>1. Changes(getCurrentRevertPositions(ids))
    BY FormedLists DEF getCurrentRevertPositions
  <2>2. Changes(list) /\ list # <<>>
    BY <2>1, PutChangeFacts DEF ChangesWith
  <2>3. list # None
    BY <2>2, NilAssumption DEF Changes, Change
  <2>4. CASE v.mem.revertPos = w.mem.revertPos /\ Same(v.b, w.b, <<"revertps">>)
    BY <2>4, CacheSame DEF ArbState
  <2>5. CASE /\ <<"revertps">> \in DOMAIN v.b /\ v.b[<<"revertps">>] = list
             /\ v.mem.revertPos = list
    <3> HIDE DEF list
    <3> QED BY <2>2, <2>3, <2>5, CachePut
  <2> QED BY <1>7, <2>4, <2>5 DEF IsRevert
<1>8. CacheOf(v.mem.revertPos, v.b, ids, <<"revertps">>)
  <2>1. CASE Tx[t].kind = "RevertToPOW"
    <3>1. Tx[t].at \in Nat
      BY <2>1, TurnAssumption DEF Hash
    <3>2. IsRevert(v, w, ids, Tx[t].at, "POW")
      BY <2>1 DEF IsPutIds
    <3> QED BY <1>7, <3>1, <3>2
  <2>2. CASE Tx[t].kind = "RevertToDPOS"
    <3>1. n + Tx[t].interval \in Nat
      BY <2>2, TurnAssumption DEF Hash
    <3>2. IsRevert(v, w, ids, n + Tx[t].interval, "DPOS")
      BY <2>2 DEF IsPutIds
    <3> QED BY <1>7, <3>1, <3>2
  <2>3. CASE Tx[t].kind \notin {"RevertToPOW", "RevertToDPOS"}
    <3>1. <<"revertps">>[1] \in RevertTag
      BY DEF RevertTag
    <3>2. Same(v.b, w.b, <<"revertps">>) /\ v.mem.revertPos = w.mem.revertPos
      BY <2>3, <3>1, PutIdsKeeps
    <3> QED BY <3>2, CacheSame DEF ArbState
  <2> QED BY <2>1, <2>2, <2>3
<1> QED BY <1>3, <1>4, <1>5, <1>6, <1>8 DEF ArbState

LEMMA ResolvesStays ==
  ASSUME NEW b, NEW db, NEW p, NEW set, Resolves(db, p, set), ~Covers(b, db),
         <<"arbdata", p>> \notin DOMAIN b
  PROVE  Resolves(Over(b, db), p, set)
<1> DEFINE new == Over(b, db)
<1>1. Lookup(new, <<"arbdata", p>>) = Lookup(db, <<"arbdata", p>>)
  BY LookupOver
<1>2. \A h : InFull(db, h, set) => InFull(new, h, set)
  BY StaysInFull
<1> HIDE DEF new
<1>3. Resolves(new, p, set)
  BY <1>1, <1>2 DEF Resolves
<1> QED BY <1>3 DEF new

LEMMA PutTxArb ==
  ASSUME Sound, SortedInv, InProgress(job), BatchTurns, ArbInv, PutTx
  PROVE  ArbInv'
<1> DEFINE t == Head(job.left)
           n == Height[job.at]
           v == PutIds(Collecting, t, n)
           far == HowFar(job)
<1>1. /\ t \in Hash /\ n \in Nat /\ IsPutIds(v, Collecting, t, n)
      /\ ids' = ids /\ log' = log /\ mem' = v.mem /\ job.op = "put" /\ job.left # <<>>
      /\ \/ wrong' = wrong \cup {"lost"}
         \/ /\ batch'.ids = v.b /\ wrong' = wrong
            /\ job' = [op |-> "put", at |-> job.at, list |-> job.list,
                       left |-> Tail(job.left), for |-> job.for, old |-> job.old]
  BY PutTxIds DEF SortedInv
<1>2. CASE wrong' = wrong \cup {"lost"}
  <2>1. "lost" \in wrong' \cap {"lost", "overwritten"}
    BY <1>2
  <2> QED BY <2>1 DEF ArbInv, NotWrong
<1>3. CASE /\ batch'.ids = v.b /\ wrong' = wrong
           /\ job' = [op |-> "put", at |-> job.at, list |-> job.list,
                      left |-> Tail(job.left), for |-> job.for, old |-> job.old]
  <2> SUFFICES ASSUME NotWrong' PROVE ArbInv'
    BY DEF ArbInv
  <2>1. /\ NotWrong /\ ArbState(Collecting.mem, Collecting.b, ids)
        /\ ~Covers(Collecting.b, ids) => TurnsResolve(Over(Collecting.b, ids), job.list, far)
        /\ \A p \in DOMAIN log.arb : Resolves(ids, p, log.arb[p])
    BY <1>1, <1>3 DEF ArbInv, NotWrong, Collecting
  <2>2. /\ HowFar(job') = far + 1 /\ job'.list = job.list
        /\ far \in Nat /\ far + 1 \in 1 .. Len(job.list) /\ t = job.list[far + 1]
    BY <1>1, <1>3, PutTxProgress
  <2>3. job.at \in Block /\ job.list \in {BlockTxs[job.at], <<>>} /\ Len(job.list) \in Nat
    BY <1>1, ListFacts DEF InProgress
  <2>4. TurnsIn(Collecting.b, ids, job.list, far)
    BY <1>1 DEF BatchTurns, Collecting
  <2> HIDE DEF v, t, n, far
  <2>5. \A i \in 1 .. far + 1 : i \in 1 .. far \/ i = far + 1
    BY <2>2
  <2>6. /\ ArbState(v.mem, v.b, ids)
        /\ ~Covers(v.b, ids) => TurnsResolve(Over(v.b, ids), job.list, far + 1)
    <3>1. CASE Tx[t].kind = "NextTurn"
      <4>1. \A i \in 1 .. far : ~Turns(job.list, i)
        <5>1. \A i \in 1 .. far : i \in 1 .. Len(job.list) /\ i # far + 1
          BY <2>2, <2>3
        <5>2. Turns(job.list, far + 1)
          BY <2>2, <3>1 DEF Turns
        <5> QED BY <2>2, <2>3, <5>1, <5>2, OneTurn
      <4>2. NoTurn(Collecting.b)
        BY <2>4, <4>1 DEF TurnsIn
      <4>3. Tx[t].at \in Nat /\ Full(Tx[t].set) # None
        BY <1>1, <3>1, TurnAssumption, NilAssumption DEF Hash
      <4>4. IsTurn(v, Collecting, ids, Tx[t].at, Tx[t].set)
        BY <1>1, <3>1 DEF IsPutIds
      <4>5. Formed(ids)
        BY DEF SortedInv
      <4>6. /\ ArbState(v.mem, v.b, ids)
            /\ ~Covers(v.b, ids) => Resolves(Over(v.b, ids), Tx[t].at, Tx[t].set)
        BY <2>1, <4>2, <4>3, <4>4, <4>5, TurnArb
      <4> QED BY <2>2, <2>5, <4>1, <4>6 DEF TurnsResolve
    <3>2. CASE Tx[t].kind # "NextTurn"
      <4>1. Formed(ids) /\ ~Turns(job.list, far + 1)
        BY <2>2, <3>2 DEF SortedInv, Turns
      <4>2. /\ ArbState(v.mem, v.b, ids)
            /\ Covers(v.b, ids) <=> Covers(Collecting.b, ids)
            /\ TurnsResolve(Over(Collecting.b, ids), job.list, far) =>
                 TurnsResolve(Over(v.b, ids), job.list, far)
        BY <1>1, <2>1, <3>2, <4>1, OtherArb
      <4>3. TurnsResolve(Over(v.b, ids), job.list, far) =>
              TurnsResolve(Over(v.b, ids), job.list, far + 1)
        BY <2>5, <4>1 DEF TurnsResolve
      <4> QED BY <2>1, <4>2, <4>3
    <3> QED BY <3>1, <3>2
  <2>7. ArbState(mem', batch'.ids, ids')
    BY <1>1, <1>3, <2>6 DEF v
  <2>8. ~Covers(batch'.ids, ids') =>
          TurnsResolve(Over(batch'.ids, ids'), job'.list, HowFar(job'))
    BY <1>1, <1>3, <2>2, <2>6 DEF v
  <2>9. \A p \in DOMAIN log'.arb : Resolves(ids', p, log'.arb[p])
    BY <1>1, <2>1
  <2> QED BY <2>7, <2>8, <2>9 DEF ArbInv, HowFar
<1> QED BY <1>1, <1>2, <1>3

(* A block is committed: what was said before can still be looked up.        *)
LEMMA CommitArb ==
  ASSUME Sound, SortedInv, TurnsInv, ArbInv, CommitTxs
  PROVE  ArbInv'
<1> DEFINE b == batch.ids
           new == Over(b, ids)
<1>1. /\ job.op = "put" /\ ids' = Write(ids, b) /\ mem' = mem
      /\ wrong' = IF Overwrites THEN wrong \cup {"overwritten"} ELSE wrong
  BY DEF CommitTxs, Working
<1>2. Begins
  BY CommitTxsBegins
<1> SUFFICES ASSUME NotWrong' PROVE ArbInv'
  BY DEF ArbInv
<1>3. NotWrong /\ ~Covers(b, ids)
  <2>1. ~Overwrites
    <3> SUFFICES ASSUME Overwrites PROVE FALSE
      OBVIOUS
    <3>1. "overwritten" \in wrong' \cap {"lost", "overwritten"}
      BY <1>1
    <3> QED BY <3>1 DEF NotWrong
  <2> QED BY <1>1, <2>1 DEF NotWrong, Overwrites, Covers
<1>4. /\ ArbState(mem, b, ids)
      /\ TurnsResolve(new, job.list, HowFar(job))
      /\ \A p \in DOMAIN log.arb : Resolves(ids, p, log.arb[p])
  BY <1>1, <1>3 DEF ArbInv
<1>5. \A key : Lookup(ids', key) = Lookup(new, key)
  BY <1>1, LookupWrite
<1> HIDE DEF new
<1>6. \A h, set : InFull(ids, h, set) => InFull(new, h, set)
  BY <1>3, StaysInFull DEF new
<1>7. \/ NoTurn(b) /\ log'.arb = log.arb
      \/ \E t \in Hash :
           /\ Tx[t].kind = "NextTurn"
           /\ \E i \in 1 .. HowFar(job) : job.list[i] = t
           /\ HasTurn(b, ids, Tx[t].at, Tx[t].set)
           /\ log'.arb = ArbAfter(log.arb, Tx[t].at, Tx[t].set)
  BY CommitTurns DEF TurnsInv, DiskPositions
<1>8. Knows(new) /\ \A p \in DOMAIN log'.arb : Resolves(new, p, log'.arb[p])
  <2>1. ASSUME NEW set, Lookup(new, <<"txheight", set>>) # None,
               <<"txheight", set>> \notin DOMAIN b
        PROVE  InFull(new, Lookup(new, <<"txheight", set>>), set)
    <3>1. Lookup(new, <<"txheight", set>>) = Lookup(ids, <<"txheight", set>>)
      BY <2>1, LookupOver DEF new
    <3>2. Knows(ids)
      BY <1>4 DEF ArbState
    <3> QED BY <1>6, <2>1, <3>1, <3>2 DEF Knows
  <2>2. CASE NoTurn(b) /\ log'.arb = log.arb
    <3>1. ASSUME NEW set PROVE <<"txheight", set>> \notin DOMAIN b
      <4>1. <<"txheight", set>>[1] \in TurnTag
        BY DEF TurnTag
      <4> QED BY <2>2, <4>1 DEF NoTurn
    <3>2. Knows(new)
      BY <2>1, <3>1 DEF Knows
    <3>3. ASSUME NEW p PROVE <<"arbdata", p>> \notin DOMAIN b
      <4>1. <<"arbdata", p>>[1] \in TurnTag
        BY DEF TurnTag
      <4> QED BY <2>2, <4>1 DEF NoTurn
    <3>4. \A p \in DOMAIN log'.arb : Resolves(new, p, log'.arb[p])
      BY <1>3, <1>4, <2>2, <3>3, ResolvesStays DEF new
    <3> QED BY <3>2, <3>4
  <2>3. ASSUME NEW t \in Hash, Tx[t].kind = "NextTurn",
               \E i \in 1 .. HowFar(job) : job.list[i] = t,
               HasTurn(b, ids, Tx[t].at, Tx[t].set),
               log'.arb = ArbAfter(log.arb, Tx[t].at, Tx[t].set)
        PROVE  Knows(new) /\ \A p \in DOMAIN log'.arb : Resolves(new, p, log'.arb[p])
    <3> DEFINE at == Tx[t].at
               turn == Tx[t].set
    <3>1. at \in Nat /\ Full(turn) # None
      BY <2>3, TurnAssumption, NilAssumption DEF Hash
    <3>2. Resolves(new, at, turn)
      BY <1>4, <2>3 DEF TurnsResolve, Turns
    <3> HIDE DEF at, turn
    <3>3. ASSUME NEW set, <<"txheight", set>> \in DOMAIN b
          PROVE  InFull(new, Lookup(new, <<"txheight", set>>), set)
      <4>1. <<"txheight", set>>[1] = "txheight"
        OBVIOUS
      <4>2. /\ <<"txheight", set>> = <<"txheight", turn>> /\ b[<<"txheight", set>>] = at
            /\ b[<<"arbdata", at>>] = Full(turn) /\ <<"arbdata", at>> \in DOMAIN b
        BY <2>3, <3>3, <4>1 DEF HasTurn, at, turn
      <4>3. set = turn
        BY <4>2
      <4>4. /\ Lookup(new, <<"txheight", set>>) = at
            /\ Lookup(new, <<"arbdata", at>>) = Full(turn)
        BY <3>3, <4>2, LookupOver DEF new
      <4> QED BY <3>1, <4>3, <4>4 DEF InFull
    <3>4. Knows(new)
      BY <2>1, <3>3 DEF Knows
    <3>5. ASSUME NEW p \in DOMAIN log'.arb PROVE Resolves(new, p, log'.arb[p])
      <4>1. CASE p = at
        <5>1. log'.arb[p] = turn
          BY <2>3, <4>1 DEF ArbAfter, Over, Row, at, turn
        <5> QED BY <3>2, <4>1, <5>1
      <4>2. CASE p # at
        <5>1. p \in DOMAIN log.arb /\ log'.arb[p] = log.arb[p]
          BY <2>3, <4>2 DEF ArbAfter, Over, Row, Without, at
        <5>2. <<"arbdata", p>> \notin DOMAIN b
          <6>1. <<"arbdata", p>>[1] = "arbdata" /\ <<"arbdata", p>> # <<"arbdata", at>>
            BY <4>2
          <6> QED BY <2>3, <6>1 DEF HasTurn, at
        <5>3. Resolves(Over(b, ids), p, log.arb[p])
          BY <1>3, <1>4, <5>1, <5>2, ResolvesStays
        <5> QED BY <5>1, <5>3 DEF new
      <4> QED BY <4>1, <4>2
    <3> QED BY <3>4, <3>5
  <2> QED BY <1>7, <2>2, <2>3
<1>9. Knows(ids') /\ \A p \in DOMAIN log'.arb : Resolves(ids', p, log'.arb[p])
  BY <1>5, <1>8, InFullSame
<1>10. \A key : Lookup(Over(<<>>, ids'), key) = Lookup(new, key)
  <2>1. DOMAIN <<>> = {}
    OBVIOUS
  <2> QED BY <1>5, <2>1, LookupOver
<1>11. Remembers(mem, Over(<<>>, ids'))
  <2>1. Remembers(mem, new)
    BY <1>3, <1>4 DEF ArbState, new
  <2> QED BY <1>10, <2>1, InFullSame
<1>12. ASSUME NEW list, NEW key, CacheOf(list, b, ids, key)
       PROVE  CacheOf(list, <<>>, ids', key)
  <2>1. key \notin DOMAIN <<>>
    OBVIOUS
  <2>2. ListOf(Over(<<>>, ids'), key) = ListOf(new, key)
    BY <1>10, ListOfLookup
  <2> QED BY <1>12, <2>1, <2>2 DEF CacheOf, new
<1>13. ArbState(mem, <<>>, ids')
  BY <1>4, <1>9, <1>11, <1>12 DEF ArbState
<1>14. ArbState(mem', batch'.ids, ids')
  BY <1>1, <1>2, <1>13 DEF Begins
<1>15. job'.op = "put" => TurnsResolve(Over(batch'.ids, ids'), job'.list, HowFar(job'))
  BY <1>2 DEF Begins, TurnsResolve
<1> QED BY <1>9, <1>14, <1>15 DEF ArbInv, HowFar

(* Nothing is collected, and the database says the same.                     *)
LEMMA EmptyArb ==
  ASSUME NEW m, NEW b, NEW db, NEW e, ArbState(m, b, db), DOMAIN b = {},
         \A key : Lookup(e, key) = Lookup(db, key)
  PROVE  ArbState(m, <<>>, e)
<1>0. DOMAIN <<>> = {}
  OBVIOUS
<1>1. \A key : Lookup(Over(<<>>, e), key) = Lookup(Over(b, db), key)
  BY <1>0, LookupOver
<1>2. ~Covers(b, db)
  BY DEF Covers
<1>3. Remembers(m, Over(<<>>, e))
  <2>1. Remembers(m, Over(b, db))
    BY <1>2 DEF ArbState
  <2> QED BY <1>1, <2>1, InFullSame
<1>4. Knows(e)
  <2>1. Knows(db)
    BY DEF ArbState
  <2> QED BY <2>1, InFullSame
<1>5. ASSUME NEW list, NEW key, CacheOf(list, b, db, key) PROVE CacheOf(list, <<>>, e, key)
  <2>1. ListOf(Over(<<>>, e), key) = ListOf(Over(b, db), key)
    BY <1>1, ListOfLookup
  <2> QED BY <1>0, <1>5, <2>1 DEF CacheOf
<1> QED BY <1>3, <1>4, <1>5 DEF ArbState

(* A query reads a list that has not been read yet.                          *)
LEMMA FillCache ==
  ASSUME NEW list, NEW b, NEW db, NEW key, CacheOf(list, b, db, key)
  PROVE  CacheOf(IF list = <<>> THEN ListOf(db, key) ELSE list, b, db, key)
<1>1. CASE list = <<>>
  <2>1. key \notin DOMAIN b
    BY <1>1 DEF CacheOf
  <2>2. Lookup(Over(b, db), key) = Lookup(db, key)
    BY <2>1, LookupOver
  <2>3. ListOf(Over(b, db), key) = ListOf(db, key)
    BY <2>2, ListOfLookup
  <2> QED BY <1>1, <2>1, <2>3 DEF CacheOf
<1>2. CASE list # <<>>
  BY <1>2
<1> QED BY <1>1, <1>2

LEMMA NextArb ==
  ASSUME Sound, SortedInv, TurnsInv, ArbInv, [Next]_vars
  PROVE  ArbInv'
<1>0. /\ DOMAIN <<>> = {} /\ NoBatch.ids = <<>>
  BY DEF NoBatch
<1>1. ASSUME NotWrong PROVE /\ ArbState(mem, batch.ids, ids)
                            /\ \A p \in DOMAIN log.arb : Resolves(ids, p, log.arb[p])
  BY <1>1 DEF ArbInv
<1>2. ASSUME CommitFails PROVE ArbInv'
  <2> SUFFICES ASSUME NotWrong' PROVE ArbInv'
    BY DEF ArbInv
  <2>1. /\ job'.op = "done" /\ batch'.ids = <<>> /\ UNCHANGED <<ids, mem, log>>
        /\ wrong' = IF DOMAIN batch.ids # {} THEN wrong \cup {"lost"} ELSE wrong
    BY <1>0, <1>2 DEF CommitFails, Done, data
  <2>2. DOMAIN batch.ids = {} /\ wrong' = wrong
    <3>1. CASE DOMAIN batch.ids # {}
      <4>1. "lost" \in wrong' \cap {"lost", "overwritten"}
        BY <2>1, <3>1
      <4> QED BY <4>1 DEF NotWrong
    <3> QED BY <2>1, <3>1
  <2>3. NotWrong
    BY <2>2 DEF NotWrong
  <2>4. ArbState(mem, <<>>, ids)
    BY <1>1, <2>2, <2>3, EmptyArb
  <2> QED BY <1>1, <2>1, <2>3, <2>4 DEF ArbInv
<1>3. ASSUME Detach PROVE ArbInv'
  <2> SUFFICES ASSUME NotWrong' PROVE ArbInv'
    BY DEF ArbInv
  <2>1. /\ ids' = Write(ids, <<>>) /\ mem' = mem /\ log' = log /\ wrong' = wrong
        /\ batch.ids = <<>> /\ batch'.ids = <<>>
    BY <1>0, <1>3, DetachIds
  <2>2. NotWrong
    BY <2>1 DEF NotWrong
  <2>3. \A key : Lookup(ids', key) = Lookup(ids, key)
    BY <1>0, <2>1, LookupWrite, LookupOver
  <2>4. ArbState(mem, <<>>, ids')
    BY <1>0, <1>1, <2>1, <2>2, <2>3, EmptyArb
  <2>5. \A p \in DOMAIN log.arb : Resolves(ids', p, log.arb[p])
    BY <1>1, <2>2, <2>3, InFullSame
  <2>6. job'.op = "put" => HowFar(job') = 0
    BY <1>3, DetachBegins DEF Begins
  <2>7. job'.op = "put" => TurnsResolve(Over(batch'.ids, ids'), job'.list, HowFar(job'))
    BY <2>6 DEF TurnsResolve
  <2> QED BY <2>1, <2>4, <2>5, <2>7 DEF ArbInv, HowFar
<1>4. ASSUME Restart PROVE ArbInv'
  <2> SUFFICES ASSUME NotWrong' PROVE ArbInv'
    BY DEF ArbInv
  <2>1. /\ job'.op = "idle" /\ batch'.ids = <<>> /\ mem' = FreshMem
        /\ UNCHANGED <<ids, log, wrong>>
    BY <1>0, <1>4 DEF Restart, Idle, data, past
  <2>2. NotWrong
    BY <2>1 DEF NotWrong
  <2>3. Knows(ids)
    BY <1>1, <2>2 DEF ArbState
  <2>4. FreshMem.pos = <<>> /\ FreshMem.revertPos = <<>> /\ FreshMem.sets = <<>>
    BY FreshMemory
  <2>5. ArbState(FreshMem, <<>>, ids)
    BY <1>0, <2>3, <2>4 DEF ArbState, CacheOf, Remembers
  <2> QED BY <1>1, <2>1, <2>2, <2>5 DEF ArbInv
<1>5. ASSUME Query PROVE ArbInv'
  <2> SUFFICES ASSUME NotWrong' PROVE ArbInv'
    BY DEF ArbInv
  <2>1. /\ UNCHANGED <<ids, batch, job, log, wrong>> /\ mem'.sets = mem.sets
        /\ mem'.pos = IF mem.pos = <<>> THEN ListOf(ids, <<"arbpts">>) ELSE mem.pos
        /\ mem'.revertPos = IF mem.revertPos = <<>> THEN ListOf(ids, <<"revertps">>)
                            ELSE mem.revertPos
    <3>1. IsMem(mem)
      BY DEF SortedInv
    <3>2. /\ UNCHANGED <<ids, batch, job, log, wrong>> /\ mem'.sets = mem.sets
          /\ mem'.pos = FillPos(ids, mem).pos
          /\ mem'.revertPos = FillRevertPos(ids, mem).revertPos
      BY <1>5, <3>1, QueryMem
    <3> QED BY <3>1, <3>2 DEF FillPos, FillRevertPos, getCurrentPositions,
               getCurrentRevertPositions, IsMem
  <2>2. NotWrong
    BY <2>1 DEF NotWrong
  <2>3. /\ CacheOf(mem'.pos, batch.ids, ids, <<"arbpts">>)
        /\ CacheOf(mem'.revertPos, batch.ids, ids, <<"revertps">>)
    BY <1>1, <2>1, <2>2, FillCache DEF ArbState
  <2>4. ArbState(mem', batch.ids, ids)
    BY <1>1, <2>1, <2>2, <2>3 DEF ArbState, Remembers
  <2> QED BY <2>1, <2>2, <2>4 DEF ArbInv, HowFar
<1>6. ASSUME UNCHANGED <<ids, batch, mem, log>>, wrong \subseteq wrong',
             \/ UNCHANGED job \/ BlockProcessed
             \/ \E b \in Block \ {Genesis}, h \in Handler : CommitBlock(b, h)
      PROVE  ArbInv'
  <2> SUFFICES ASSUME NotWrong' PROVE ArbInv'
    BY DEF ArbInv
  <2>1. NotWrong
    BY <1>6 DEF NotWrong
  <2>2. \/ UNCHANGED job
        \/ job'.op = "put" => HowFar(job') = 0
    BY <1>6, CommitBlockBegins DEF BlockProcessed, Idle, Begins
  <2>3. CASE UNCHANGED job
    BY <1>6, <2>1, <2>3 DEF ArbInv, HowFar
  <2>4. CASE job'.op = "put" => HowFar(job') = 0
    <3>1. job'.op = "put" => TurnsResolve(Over(batch'.ids, ids'), job'.list, HowFar(job'))
      BY <2>4 DEF TurnsResolve
    <3> QED BY <1>1, <1>6, <2>1, <3>1 DEF ArbInv, HowFar
  <2> QED BY <2>2, <2>3, <2>4
<1>7. PutTx => ArbInv'
  BY PutTxArb DEF TurnsInv
<1> QED BY <1>2, <1>3, <1>4, <1>5, <1>6, <1>7, CommitArb, OtherSteps

LEMMA NextLast ==
  ASSUME Sound, SortedInv, TurnsInv, LastTurn, [Next]_vars
  PROVE  LastTurn'
<1>1. ASSUME UNCHANGED log, Lookup(ids', <<"arbptn">>) = Lookup(ids, <<"arbptn">>)
      PROVE  LastTurn'
  BY <1>1 DEF LastTurn
<1>2. ASSUME PutTx \/ CommitFails \/ Query \/ Restart PROVE LastTurn'
  BY <1>1, <1>2 DEF PutTx, CommitFails, Query, Restart, data, past
<1>3. ASSUME Detach PROVE LastTurn'
  <2>1. DOMAIN <<>> = {}
    OBVIOUS
  <2>2. ids' = Write(ids, <<>>) /\ log' = log
    BY <1>3, DetachIds
  <2>3. Lookup(ids', <<"arbptn">>) = Lookup(ids, <<"arbptn">>)
    BY <2>1, <2>2, LookupWrite, LookupOver
  <2> QED BY <1>1, <2>2, <2>3
<1>4. ASSUME CommitTxs PROVE LastTurn'
  <2> DEFINE b == batch.ids
  <2>1. Lookup(ids', <<"arbptn">>) =
          IF <<"arbptn">> \in DOMAIN b THEN b[<<"arbptn">>] ELSE Lookup(ids, <<"arbptn">>)
    <3>1. ids' = Write(ids, b)
      BY <1>4 DEF CommitTxs
    <3> HIDE DEF b
    <3>2. Lookup(ids', <<"arbptn">>) = Lookup(Over(b, ids), <<"arbptn">>)
      BY <3>1, LookupWrite
    <3> QED BY <3>2, LookupOver
  <2>2. \/ NoTurn(b) /\ log'.arb = log.arb
        \/ \E t \in Hash : /\ Tx[t].kind = "NextTurn"
                           /\ HasTurn(b, ids, Tx[t].at, Tx[t].set)
                           /\ log'.arb = ArbAfter(log.arb, Tx[t].at, Tx[t].set)
    BY <1>4, CommitTurns DEF TurnsInv, DiskPositions
  <2>3. CASE NoTurn(b) /\ log'.arb = log.arb
    <3>1. <<"arbptn">>[1] \in TurnTag
      BY DEF TurnTag
    <3>2. <<"arbptn">> \notin DOMAIN b
      BY <2>3, <3>1 DEF NoTurn
    <3> QED BY <2>1, <2>3, <3>2 DEF LastTurn
  <2>4. ASSUME NEW t \in Hash, Tx[t].kind = "NextTurn",
               HasTurn(b, ids, Tx[t].at, Tx[t].set),
               log'.arb = ArbAfter(log.arb, Tx[t].at, Tx[t].set)
        PROVE  LastTurn'
    <3> DEFINE at == Tx[t].at
    <3>1. at \in Nat
      BY <2>4, TurnAssumption DEF Hash
    <3>2. Lookup(ids', <<"arbptn">>) = at
      BY <2>1, <2>4 DEF HasTurn
    <3>3. DOMAIN log'.arb = {at} \cup {p \in DOMAIN log.arb : ~(p >= at)}
      BY <2>4 DEF ArbAfter, Over, Row, Without
    <3> HIDE DEF at
    <3>4. DOMAIN log.arb \subseteq Nat
      BY DEF TurnsInv, DiskPositions
    <3>5. \A q \in DOMAIN log'.arb : q <= at
      BY <3>1, <3>3, <3>4
    <3> QED BY <3>2, <3>3, <3>5 DEF LastTurn
  <2> QED BY <2>2, <2>3, <2>4
<1> QED BY <1>1, <1>2, <1>3, <1>4, OtherSteps

LEMMA ArbInvariance == Spec => [](ArbInv /\ LastTurn)
<1>1. Init => ArbInv /\ LastTurn
  <2> SUFFICES ASSUME Init PROVE ArbInv /\ LastTurn
    OBVIOUS
  <2>1. /\ job.op = "idle" /\ ids = <<>> /\ batch.ids = <<>> /\ mem = FreshMem
        /\ log.arb = <<>> /\ DOMAIN <<>> = {}
    BY DEF Init, Idle, NoBatch
  <2>2. FreshMem.pos = <<>> /\ FreshMem.revertPos = <<>> /\ FreshMem.sets = <<>>
    BY FreshMemory
  <2>3. Knows(<<>>)
    BY <2>1 DEF Knows, Lookup
  <2>4. ArbState(FreshMem, <<>>, <<>>)
    BY <2>1, <2>2, <2>3 DEF ArbState, CacheOf, Remembers
  <2>5. ArbState(mem, batch.ids, ids)
    BY <2>1, <2>4
  <2> QED BY <2>1, <2>5 DEF ArbInv, LastTurn
<1>2. QueueInv /\ SortedInv /\ TurnsInv /\ ArbInv /\ LastTurn /\ [Next]_vars
        => ArbInv' /\ LastTurn'
  BY NextArb, NextLast DEF QueueInv
<1> QED BY <1>1, <1>2, QueueInvariance, SortedInvariance, TurnsInvariance, PTL DEF Spec

LEMMA TopIs ==
  ASSUME NEW S \in SUBSET Nat, NEW m \in S, \A q \in S : q <= m
  PROVE  Top(S) = m
<1>1. Top(S) \in S /\ \A q \in S : q <= Top(S)
  BY DEF Top
<1> HIDE DEF Top
<1>2. Top(S) \in Nat /\ m \in Nat /\ m <= Top(S) /\ Top(S) <= m
  BY <1>1
<1> QED BY <1>2

(* The highest of the first elements of a sorted list.                       *)
LEMMA HighestOf ==
  ASSUME NEW pos, Heights(pos), NEW S \in SUBSET DOMAIN pos, S # {}
  PROVE  LET i == CHOOSE x \in S : \A y \in S : y <= x
         IN i \in S /\ \A j \in S : j <= i /\ pos[j] <= pos[i]
<1> DEFINE i == CHOOSE x \in S : \A y \in S : y <= x
<1>0. DOMAIN pos = 1 .. Len(pos) /\ Len(pos) \in Nat /\ pos \in Seq(Nat)
  BY LenProperties DEF Heights
<1>1. S \in SUBSET (1 .. Len(pos))
  BY <1>0
<1>2. Kept!Largest(S) \in S /\ \A y \in S : Kept!Largest(S) >= y
  BY <1>0, <1>1, Kept!LargestIn
<1>3. \E x \in S : \A y \in S : y <= x
  BY <1>0, <1>2
<1>4. i \in S /\ \A y \in S : y <= i
  BY <1>3
<1> HIDE DEF i
<1>5. ASSUME NEW j \in S PROVE pos[j] <= pos[i]
  <2>1. i \in DOMAIN pos /\ j \in DOMAIN pos /\ j <= i /\ i \in Nat /\ j \in Nat
    BY <1>0, <1>4
  <2>2. pos[i] \in Nat /\ pos[j] \in Nat
    BY <1>0, <2>1
  <2>3. j < i => pos[j] < pos[i]
    BY <2>1 DEF Heights
  <2>4. j = i \/ j < i
    BY <2>1
  <2>5. CASE j = i
    BY <2>2, <2>5
  <2>6. CASE j < i
    BY <2>2, <2>3, <2>6
  <2> QED BY <2>4, <2>5, <2>6
<1> QED BY <1>4, <1>5 DEF i

(* findSlot finds the last position before a height.                         *)
LEMMA SlotFound ==
  ASSUME NEW pos, Heights(pos), NEW n \in Nat
  PROVE  LET under == {p \in Elems(pos) : p < n} IN
         /\ pos = <<>> <=> Elems(pos) = {}
         /\ pos # <<>> => pos[Len(pos)] = Top(Elems(pos)) /\ Top(Elems(pos)) \in Nat
         /\ pos # <<>> /\ ~(Top(Elems(pos)) + ArbitersCount < n) =>
              findSlot(pos, n) = IF under = {} THEN 0 ELSE Top(under)
         /\ under # {} => Top(under) \in under
         /\ pos = <<>> \/ Top(Elems(pos)) + ArbitersCount < n =>
              findSlot(pos, n) = Error
         /\ findCustomIDWorkingHeightByCurrentHeight(pos, n) =
              IF under = {} THEN 0 ELSE Top(under)
<1> DEFINE all == Elems(pos)
           under == {p \in all : p < n}
           below == {i \in DOMAIN pos : pos[i] < n}
           top == CHOOSE i \in below : \A j \in below : j <= i
<1>0. DOMAIN pos = 1 .. Len(pos) /\ Len(pos) \in Nat /\ pos \in Seq(Nat)
  BY LenProperties DEF Heights
<1>1. all \in SUBSET Nat /\ under \in SUBSET Nat
  BY <1>0 DEF Elems
<1>2. pos = <<>> <=> all = {}
  <2>1. pos = <<>> => DOMAIN pos = {}
    OBVIOUS
  <2>2. pos # <<>> => 1 \in DOMAIN pos
    BY <1>0, EmptySeq
  <2> QED BY <2>1, <2>2 DEF Elems
<1>3. ASSUME pos # <<>> PROVE pos[Len(pos)] = Top(all) /\ Top(all) \in Nat
  <2>1. Len(pos) \in DOMAIN pos
    BY <1>0, <1>3, EmptySeq
  <2>2. pos[Len(pos)] \in all /\ pos[Len(pos)] \in Nat
    BY <1>0, <2>1 DEF Elems
  <2>3. ASSUME NEW q \in all PROVE q <= pos[Len(pos)]
    <3>1. PICK j \in DOMAIN pos : q = pos[j]
      BY DEF Elems
    <3>2. j \in Nat /\ (j = Len(pos) \/ j < Len(pos)) /\ pos[j] \in Nat
      BY <1>0
    <3>3. j < Len(pos) => pos[j] < pos[Len(pos)]
      BY <2>1 DEF Heights
    <3> QED BY <2>2, <3>1, <3>2, <3>3
  <2> HIDE DEF all
  <2>4. Top(all) = pos[Len(pos)]
    BY <1>1, <2>2, <2>3, TopIs
  <2> QED BY <2>2, <2>4
<1>4. below = {} <=> under = {}
  BY DEF Elems
<1>5. ASSUME below # {} PROVE pos[top] = Top(under) /\ Top(under) \in under
  <2>1. top \in below /\ \A j \in below : pos[j] <= pos[top]
    BY <1>5, HighestOf
  <2> HIDE DEF top
  <2>2. pos[top] \in under
    BY <2>1 DEF Elems
  <2>3. ASSUME NEW q \in under PROVE q <= pos[top]
    <3>1. PICK j \in DOMAIN pos : q = pos[j]
      BY DEF Elems
    <3>2. j \in below
      BY <3>1
    <3> QED BY <2>1, <3>1, <3>2
  <2> HIDE DEF under
  <2>4. Top(under) = pos[top]
    BY <1>1, <2>2, <2>3, TopIs
  <2> QED BY <2>2, <2>4
<1>6. pos # <<>> /\ ~(pos[Len(pos)] + ArbitersCount < n) =>
        findSlot(pos, n) = IF below = {} THEN 0 ELSE pos[top]
  BY DEF findSlot
<1>7. pos = <<>> \/ pos[Len(pos)] + ArbitersCount < n => findSlot(pos, n) = Error
  BY DEF findSlot
<1>9. findCustomIDWorkingHeightByCurrentHeight(pos, n) = IF below = {} THEN 0 ELSE pos[top]
  BY DEF findCustomIDWorkingHeightByCurrentHeight
<1> HIDE DEF all, under, below, top
<1>8. /\ pos # <<>> /\ ~(Top(all) + ArbitersCount < n) =>
           findSlot(pos, n) = IF under = {} THEN 0 ELSE Top(under)
      /\ under # {} => Top(under) \in under
      /\ pos = <<>> \/ Top(all) + ArbitersCount < n => findSlot(pos, n) = Error
  BY <1>3, <1>4, <1>5, <1>6, <1>7
<1>10. findCustomIDWorkingHeightByCurrentHeight(pos, n) =
         IF under = {} THEN 0 ELSE Top(under)
  BY <1>4, <1>5, <1>9
<1> QED BY <1>2, <1>3, <1>8, <1>10 DEF all, under

LEMMA ResolvesAnswers ==
  ASSUME NEW d, NEW at, NEW set, Resolves(d, at, set)
  PROVE  getArbiters(d, at) = set
<1>1. Full(set) # None /\ ~Full(set).ref /\ Full(set).val = set
  BY DEF Resolves, Full
<1>2. CASE Lookup(d, <<"arbdata", at>>) = Full(set)
  BY <1>1, <1>2 DEF getArbiters
<1>3. ASSUME NEW h, Lookup(d, <<"arbdata", at>>) = Ref(h), InFull(d, h, set)
      PROVE  getArbiters(d, at) = set
  <2>0. Ref(h).ref /\ Ref(h).val = h /\ Ref(h) \in [ref : {TRUE}, val : Nat]
    BY <1>3 DEF Ref, InFull
  <2>1. Ref(h) # None
    BY <2>0, NilAssumption, Zenon
  <2>2. Lookup(d, <<"arbdata", h>>) = Full(set)
    BY <1>3 DEF InFull
  <2> QED BY <1>1, <1>3, <2>0, <2>1, <2>2 DEF getArbiters
<1> QED BY <1>2, <1>3 DEF Resolves

Filled(list, db, key) == IF list = <<>> THEN ListOf(db, key) ELSE list

LEMMA QuietCache ==
  ASSUME NEW list, NEW b, NEW db, NEW key, CacheOf(list, b, db, key), DOMAIN b = {}
  PROVE  Filled(list, db, key) = ListOf(db, key)
<1>1. Lookup(Over(b, db), key) = Lookup(db, key)
  BY LookupOver
<1>2. ListOf(Over(b, db), key) = ListOf(db, key)
  BY <1>1, ListOfLookup
<1> QED BY <1>2 DEF CacheOf, Filled

(* The loop over the changes of consensus stops at the first one that is     *)
(* still to come; as they are sorted it has seen all that have passed.       *)
LEMMA ModeFound ==
  ASSUME NEW info, Changes(info), info = getCurrentRevertPositions(ids), NEW m, NEW n,
         n \in Nat, GetRevertInfo(ids, m) = info
  PROVE  GetConsensusAlgorithmByHeight(ids, m, n) = ModeAt(n)
<1> DEFINE passed == {i \in DOMAIN info : \A j \in 1 .. i : info[j].workingHeight <= n}
           over == {i \in DOMAIN info : info[i].workingHeight <= n}
<1>0. info \in Seq(Change) /\ DOMAIN info = 1 .. Len(info) /\ Len(info) \in Nat
  BY LenProperties DEF Changes
<1>1. ASSUME NEW i \in over, NEW j \in 1 .. i PROVE info[j].workingHeight <= n
  <2>1. i \in Nat /\ j \in Nat /\ j \in DOMAIN info /\ i \in DOMAIN info /\ (j = i \/ j < i)
    BY <1>0
  <2>2. info[i].workingHeight \in Nat /\ info[j].workingHeight \in Nat
    <3>1. info[i] \in Change /\ info[j] \in Change
      BY <1>0, <2>1
    <3> QED BY <3>1 DEF Change
  <2>3. j < i => info[j].workingHeight < info[i].workingHeight
    BY <2>1 DEF Changes
  <2>4. info[i].workingHeight <= n
    BY Zenon
  <2> QED BY <2>1, <2>2, <2>3, <2>4
<1>2. \A i \in passed : i \in 1 .. i
  BY <1>0
<1>3. passed = over
  BY <1>1, <1>2
<1>4. GetConsensusAlgorithmByHeight(ids, m, n) =
        IF passed = {} THEN "DPOS"
        ELSE info[CHOOSE i \in passed : \A j \in passed : j <= i].mode
  BY DEF GetConsensusAlgorithmByHeight
<1>5. ModeAt(n) = IF over = {} THEN "DPOS"
                  ELSE info[CHOOSE i \in over : \A j \in over : j <= i].mode
  BY DEF ModeAt, Top
<1> HIDE DEF passed, over
<1> QED BY <1>3, <1>4, <1>5

(* GetArbiters, GetNextArbiters and GetConsensusAlgorithm (arbiters.go)      *)
(* answer what the committed blocks said last, across restarts, failed       *)
(* writes of blocks without side chain data and rollbacks, from memory as    *)
(* from disk, and references between sets of arbiters lead to the set: as    *)
(* long as no batch was given up and no height with a full set was replaced. *)
THEOREM ArbitersAlwaysAnswer == Spec => []ArbitersAnswer
<1>1. SortedInv /\ TurnsInv /\ ArbInv /\ LastTurn => ArbitersAnswer
  <2> SUFFICES ASSUME SortedInv, TurnsInv, ArbInv, LastTurn, Quiet, NotWrong
               PROVE  /\ \A n \in 0 .. MaxHeight + ArbitersCount + 2 :
                           /\ GetByHeight(ids, mem, n) = ArbitersAt(n)
                           /\ GetConsensusAlgorithmByHeight(ids, mem, n) = ModeAt(n)
                      /\ DOMAIN log.arb # {} =>
                           GetNext(ids) = [workingHeight |-> Top(DOMAIN log.arb),
                                           arbiters |-> log.arb[Top(DOMAIN log.arb)]]
    BY DEF ArbitersAnswer, NotWrong
  <2> DEFINE pos == getCurrentPositions(ids)
             all == DOMAIN log.arb
  <2>1. /\ FillPos(ids, mem).pos = pos
        /\ GetRevertInfo(ids, mem) = getCurrentRevertPositions(ids)
    <3>1. /\ FillPos(ids, mem).pos = Filled(mem.pos, ids, <<"arbpts">>)
          /\ GetRevertInfo(ids, mem) = Filled(mem.revertPos, ids, <<"revertps">>)
      BY DEF FillPos, GetRevertInfo, FillRevertPos, SortedInv, IsMem, Filled,
         getCurrentPositions, getCurrentRevertPositions
    <3>2. /\ CacheOf(mem.pos, batch.ids, ids, <<"arbpts">>)
          /\ CacheOf(mem.revertPos, batch.ids, ids, <<"revertps">>)
          /\ DOMAIN batch.ids = {}
      BY DEF ArbInv, ArbState, Quiet
    <3>3. Filled(mem.pos, ids, <<"arbpts">>) = ListOf(ids, <<"arbpts">>)
      BY <3>2, QuietCache
    <3>4. Filled(mem.revertPos, ids, <<"revertps">>) = ListOf(ids, <<"revertps">>)
      BY <3>2, QuietCache
    <3> QED BY <3>1, <3>3, <3>4 DEF getCurrentPositions, getCurrentRevertPositions
  <2>2. Heights(pos) /\ Changes(getCurrentRevertPositions(ids))
    BY FormedLists DEF SortedInv, getCurrentPositions, getCurrentRevertPositions
  <2>3. Elems(pos) = all /\ all \subseteq Nat \ {0}
    BY DEF TurnsInv, DiskPositions
  <2>4. \A p \in all : getArbiters(ids, p) = log.arb[p]
    BY ResolvesAnswers DEF ArbInv
  <2> HIDE DEF pos, all
  <2>5. ASSUME NEW n \in Nat PROVE GetByHeight(ids, mem, n) = ArbitersAt(n)
    <3> DEFINE under == {p \in all : p < n}
               slot == findSlot(pos, n)
    <3>1. GetByHeight(ids, mem, n) = IF slot = Error THEN Error
                                     ELSE IF slot = 0 THEN OriginArbiters
                                     ELSE getArbiters(ids, slot)
      BY <2>1 DEF GetByHeight
    <3>2. ArbitersAt(n) = IF all = {} \/ (all # {} /\ Top(all) + ArbitersCount < n)
                          THEN Error
                          ELSE IF under = {} THEN OriginArbiters ELSE log.arb[Top(under)]
      BY DEF ArbitersAt, all
    <3>3. /\ pos = <<>> <=> all = {}
          /\ pos # <<>> /\ ~(Top(all) + ArbitersCount < n) =>
               slot = IF under = {} THEN 0 ELSE Top(under)
          /\ under # {} => Top(under) \in under
          /\ pos = <<>> \/ Top(all) + ArbitersCount < n => slot = Error
      BY <2>2, <2>3, SlotFound
    <3> HIDE DEF slot
    <3>4. under # {} => Top(under) \in all /\ Top(under) # 0 /\ Top(under) # Error
      BY <2>3, <3>3, NilAssumption
    <3>5. 0 # Error
      BY NilAssumption
    <3> HIDE DEF under
    <3> QED BY <2>4, <3>1, <3>2, <3>3, <3>4, <3>5
  <2>6. ASSUME NEW n \in Nat PROVE GetConsensusAlgorithmByHeight(ids, mem, n) = ModeAt(n)
    BY <2>1, <2>2, ModeFound
  <2>7. ASSUME all # {}
        PROVE  GetNext(ids) = [workingHeight |-> Top(all), arbiters |-> log.arb[Top(all)]]
    <3> DEFINE last == Lookup(ids, <<"arbptn">>)
    <3>1. last \in all /\ \A q \in all : q <= last
      BY <2>7 DEF LastTurn, all
    <3> HIDE DEF last
    <3>2. all \in SUBSET Nat /\ last \in Nat /\ last # None
      BY <2>3, <3>1, NilAssumption
    <3>3. Top(all) = last
      BY <3>1, <3>2, TopIs
    <3>4. getCurrentPosition(ids) = last
      BY <3>2 DEF getCurrentPosition, Lookup, last
    <3> QED BY <2>4, <3>1, <3>3, <3>4 DEF GetNext
  <2>8. \A n \in 0 .. MaxHeight + ArbitersCount + 2 : n \in Nat
    OBVIOUS
  <2> QED BY <2>5, <2>6, <2>7, <2>8 DEF all
<1> QED BY <1>1, SortedInvariance, TurnsInvariance, ArbInvariance, PTL

-----------------------------------------------------------------------------
(* The loop of isProposalConfirmed.                                          *)

ConfirmBase(c) == [mode |-> "DPOS", from |-> 0, ended |-> FALSE,
                   began |-> FALSE, yes |-> FALSE]
ConfirmTurn(c, v, r) == ConfirmStep(c[1], c[2], v, r)
Confirming == INSTANCE FoldProofs WITH Base <- ConfirmBase, Step <- ConfirmTurn

(* The stretches between the changes of consensus: where one begins, its     *)
(* mode, where it ends for somebody who asks at a height, and whether a      *)
(* proposal is confirmed in it.                                              *)
From(info, i) == IF i = 0 THEN 0 ELSE info[i].workingHeight
ModeOf(info, i) == IF i = 0 THEN "DPOS" ELSE info[i].mode
Until(info, i, current) ==
  IF i < Len(info) /\ info[i + 1].workingHeight < current
  THEN info[i + 1].workingHeight ELSE current
Later(p, q) == IF p > q THEN p ELSE q
Confirms(info, i, current, proposal) ==
  /\ ModeOf(info, i) = "DPOS"
  /\ Until(info, i, current) - Later(proposal, From(info, i)) >= DefaultConfirmations

(* After k changes the loop has found a stretch that confirms, has gone past *)
(* the height asked about, or is in stretch k and no one before it confirms. *)
Walked(v, info, current, proposal, k) ==
  /\ v.yes \in BOOLEAN /\ v.ended \in BOOLEAN /\ v.began \in BOOLEAN
  /\ \/ v.yes /\ \E i \in 0 .. Len(info) : Confirms(info, i, current, proposal)
     \/ /\ ~v.yes /\ v.ended /\ v.began
        /\ \A i \in 0 .. Len(info) : ~Confirms(info, i, current, proposal)
     \/ /\ ~v.yes /\ ~v.ended
        /\ v.mode = ModeOf(info, k) /\ v.from = From(info, k)
        /\ v.began <=> From(info, k) > proposal
        /\ \A i \in 0 .. k - 1 : ~Confirms(info, i, current, proposal)

LEMMA Stretches ==
  ASSUME NEW info, Changes(info)
  PROVE  /\ Len(info) \in Nat
         /\ \A i \in 0 .. Len(info) : From(info, i) \in Nat
         /\ \A i \in 1 .. Len(info) : From(info, i) = info[i].workingHeight
         /\ \A i, j \in 1 .. Len(info) : i < j => From(info, i) < From(info, j)
         /\ \A i, j \in 0 .. Len(info) : i <= j => From(info, i) <= From(info, j)
<1>0. info \in Seq(Change) /\ DOMAIN info = 1 .. Len(info) /\ Len(info) \in Nat
  BY LenProperties DEF Changes
<1>1. ASSUME NEW i \in 1 .. Len(info)
      PROVE  From(info, i) = info[i].workingHeight /\ From(info, i) \in Nat
  <2>1. info[i] \in Change /\ i # 0
    BY <1>0
  <2> QED BY <2>1 DEF Change, From
<1>2. From(info, 0) = 0
  BY DEF From
<1>3. ASSUME NEW i \in 0 .. Len(info) PROVE From(info, i) \in Nat
  <2>1. i = 0 \/ i \in 1 .. Len(info)
    BY <1>0
  <2> QED BY <1>1, <1>2, <2>1
<1>4. ASSUME NEW i \in 1 .. Len(info), NEW j \in 1 .. Len(info), i < j
      PROVE  From(info, i) < From(info, j)
  BY <1>0, <1>1, <1>4 DEF Changes
<1>5. ASSUME NEW i \in 0 .. Len(info), NEW j \in 0 .. Len(info), i <= j
      PROVE  From(info, i) <= From(info, j)
  <2>1. i = 0 \/ i = j \/ (i \in 1 .. Len(info) /\ j \in 1 .. Len(info) /\ i < j)
    BY <1>0, <1>5
  <2>2. From(info, i) \in Nat /\ From(info, j) \in Nat
    BY <1>3
  <2>3. CASE i = 0
    BY <1>2, <2>2, <2>3
  <2>4. CASE i = j
    BY <2>2, <2>4
  <2>5. CASE i \in 1 .. Len(info) /\ j \in 1 .. Len(info) /\ i < j
    BY <1>4, <2>2, <2>5
  <2> QED BY <2>1, <2>3, <2>4, <2>5
<1> QED BY <1>0, <1>1, <1>3, <1>4, <1>5

(* A stretch that begins above the height asked about confirms nothing.      *)
LEMMA TooLate ==
  ASSUME NEW info, Changes(info), NEW current \in Nat, NEW proposal \in Nat,
         NEW i \in 0 .. Len(info), From(info, i) > current
  PROVE  ~Confirms(info, i, current, proposal)
<1> DEFINE from == From(info, i)
           until == Until(info, i, current)
           later == Later(proposal, from)
<1>1. from \in Nat
  BY Stretches
<1>2. until \in Nat /\ until <= current
  <2>1. CASE i < Len(info) /\ info[i + 1].workingHeight < current
    <3>1. i + 1 \in 1 .. Len(info)
      BY <2>1, Stretches
    <3>2. info[i + 1].workingHeight \in Nat
      <4>1. i + 1 \in 0 .. Len(info)
        BY <2>1, Stretches
      <4> QED BY <3>1, <4>1, Stretches
    <3> QED BY <2>1, <3>2 DEF Until
  <2>2. CASE ~(i < Len(info) /\ info[i + 1].workingHeight < current)
    BY <2>2 DEF Until
  <2> QED BY <2>1, <2>2
<1> HIDE DEF from, until
<1>3. later \in Nat /\ later >= from
  BY <1>1 DEF Later
<1> HIDE DEF later
<1>4. from > current
  BY DEF from
<1>5. ~(until - later >= DefaultConfirmations)
  BY <1>1, <1>2, <1>3, <1>4, ConfirmationsAssumption
<1> QED BY <1>5 DEF Confirms, until, later, from

LEMMA WalkOn ==
  ASSUME NEW info, Changes(info), NEW current \in Nat, NEW proposal \in Nat,
         proposal < current, NEW k \in Nat, k + 1 \in 1 .. Len(info), NEW v,
         Walked(v, info, current, proposal, k)
  PROVE  Walked(ConfirmStep(current, proposal, v, info[k + 1]), info, current, proposal, k + 1)
<1> DEFINE r == info[k + 1]
           n == ConfirmStep(current, proposal, v, r)
           at == r.workingHeight
           from == From(info, k)
           until == Until(info, k, current)
           later == Later(proposal, from)
<1>0. /\ Len(info) \in Nat /\ k \in 0 .. Len(info) /\ k + 1 \in 0 .. Len(info)
      /\ k < Len(info) /\ k + 1 # 0
  BY Stretches
<1>1. from \in Nat /\ at \in Nat /\ From(info, k + 1) = at
  BY <1>0, Stretches
<1>2. CASE v.ended \/ v.yes
  <2>1. n = v
    BY <1>2 DEF ConfirmStep
  <2> QED BY <1>2, <2>1 DEF Walked
<1>3. CASE ~v.ended /\ ~v.yes
  <2>1. /\ v.mode = ModeOf(info, k) /\ v.from = from
        /\ v.began <=> from > proposal
        /\ \A i \in 0 .. k - 1 : ~Confirms(info, i, current, proposal)
        /\ v.began \in BOOLEAN
    BY <1>3 DEF Walked
  <2>2. until = IF current < at THEN current ELSE at
    <3>1. until = IF at < current THEN at ELSE current
      BY <1>0 DEF Until
    <3> QED BY <1>1, <3>1
  <2> DEFINE above == proposal < at
  <2>3. n = [mode |-> r.mode, from |-> at, ended |-> above /\ current < at,
             began |-> v.began \/ above,
             yes |-> /\ above /\ v.mode = "DPOS"
                     /\ until - later >= DefaultConfirmations]
    BY <1>3, <2>1, <2>2 DEF ConfirmStep, Later
  <2>4. ModeOf(info, k + 1) = r.mode
    BY <1>0 DEF ModeOf
  <2> HIDE DEF n, until, from, r
  <2>5. until \in Nat /\ until <= at /\ until <= current
    BY <1>1, <2>2
  <2>6. later \in Nat /\ later >= proposal
    BY <1>1 DEF Later
  <2> HIDE DEF later, at
  <2>7. until - later >= DefaultConfirmations => above
    BY <1>1, <2>5, <2>6, ConfirmationsAssumption
  <2>8. n.yes <=> Confirms(info, k, current, proposal)
    BY <2>1, <2>3, <2>7 DEF Confirms, until, later, from
  <2>9. n.yes \in BOOLEAN /\ n.ended \in BOOLEAN /\ n.began \in BOOLEAN
    BY <2>1, <2>3
  <2>10. CASE n.yes
    <3>1. \E i \in 0 .. Len(info) : Confirms(info, i, current, proposal)
      BY <1>0, <2>8, <2>10
    <3> QED BY <2>9, <2>10, <3>1 DEF Walked, n, r
  <2>11. CASE ~n.yes
    <3>1. \A i \in 0 .. k : ~Confirms(info, i, current, proposal)
      <4>1. \A i \in 0 .. k : i = k \/ i \in 0 .. k - 1
        OBVIOUS
      <4> QED BY <2>1, <2>8, <2>11, <4>1
    <3>2. CASE n.ended
      <4>1. above /\ current < at /\ n.began
        BY <2>3, <3>2
      <4>2. ASSUME NEW i \in 0 .. Len(info) PROVE ~Confirms(info, i, current, proposal)
        <5>1. CASE i \in 0 .. k
          BY <3>1, <5>1
        <5>2. CASE i \notin 0 .. k
          <6>1. k + 1 <= i
            BY <1>0, <5>2
          <6>2. From(info, k + 1) <= From(info, i) /\ From(info, i) \in Nat
            BY <1>0, <6>1, Stretches
          <6>3. From(info, i) > current
            BY <1>1, <4>1, <6>2
          <6> QED BY <6>3, TooLate
        <5> QED BY <5>1, <5>2
      <4> QED BY <2>9, <2>11, <3>2, <4>1, <4>2 DEF Walked, n, r
    <3>3. CASE ~n.ended
      <4>1. n.mode = ModeOf(info, k + 1) /\ n.from = From(info, k + 1)
        BY <1>1, <2>3, <2>4
      <4>2. n.began <=> From(info, k + 1) > proposal
        <5>1. from <= at
          BY <1>0, <1>1, Stretches DEF from
        <5>2. n.began <=> (from > proposal \/ proposal < at)
          BY <2>1, <2>3
        <5> QED BY <1>1, <5>1, <5>2
      <4>3. (k + 1) - 1 = k
        OBVIOUS
      <4>4. \A i \in 0 .. (k + 1) - 1 : ~Confirms(info, i, current, proposal)
        BY <3>1, <4>3
      <4> QED BY <2>9, <2>11, <3>3, <4>1, <4>2, <4>4 DEF Walked, n, r
    <3> QED BY <3>2, <3>3
  <2> QED BY <2>10, <2>11
<1> QED BY <1>2, <1>3

(* isProposalConfirmed (customid.go) says whether some stretch of DPOS has   *)
(* DefaultConfirmations blocks above the proposal and below the height asked *)
(* about, for every sorted list of changes of consensus: the loop, which     *)
(* stops early and remembers one stretch only, misses none and counts none   *)
(* twice.                                                                    *)
THEOREM ConfirmationLoop ==
  ASSUME NEW info, Changes(info), NEW current \in Nat, NEW proposal \in Nat
  PROVE  isProposalConfirmed(current, proposal, info)
           <=> Confirmed(current, proposal, info)
<1> DEFINE c == <<current, proposal>>
           L == Len(info)
<1>0. info \in Seq(Change) /\ L \in Nat /\ c[1] = current /\ c[2] = proposal
  BY LenProperties DEF Changes
<1>1. Confirmed(current, proposal, info) <=>
        \E i \in 0 .. L : Confirms(info, i, current, proposal)
  BY DEF Confirmed, Confirms, From, ModeOf, Until, Later
<1>2. PICK s : /\ Confirming!IsRun(c, info, s)
               /\ FoldLeft(LAMBDA acc, r : ConfirmStep(current, proposal, acc, r),
                           [mode |-> "DPOS", from |-> 0, ended |-> FALSE,
                            began |-> FALSE, yes |-> FALSE], info) = s[L]
  <2>1. FoldLeft(LAMBDA acc, r : ConfirmStep(current, proposal, acc, r),
                 [mode |-> "DPOS", from |-> 0, ended |-> FALSE,
                  began |-> FALSE, yes |-> FALSE], info)
          = Confirming!Folded(c, info)
    BY DEF FoldLeft, MapThenFoldSet, Max, Confirming!Folded, Confirming!Solves,
       Confirming!Largest, ConfirmBase, ConfirmTurn
  <2> QED BY <1>0, <2>1, Confirming!FoldRun
<1>3. isProposalConfirmed(current, proposal, info) <=>
        /\ current > proposal
        /\ \/ s[L].yes
           \/ /\ s[L].mode = "DPOS" /\ ~s[L].began
              /\ current - proposal >= DefaultConfirmations
           \/ /\ s[L].mode = "DPOS" /\ s[L].began /\ ~s[L].ended
              /\ current - s[L].from >= DefaultConfirmations
  BY <1>2 DEF isProposalConfirmed
<1>4. CASE ~(current > proposal)
  <2>1. ASSUME NEW i \in 0 .. L PROVE ~Confirms(info, i, current, proposal)
    <3> DEFINE until == Until(info, i, current)
               later == Later(proposal, From(info, i))
    <3>1. From(info, i) \in Nat
      BY Stretches
    <3>2. later \in Nat /\ later >= proposal
      BY <3>1 DEF Later
    <3>3. until \in Nat /\ until <= current
      <4>1. CASE i < L /\ info[i + 1].workingHeight < current
        <5>1. i + 1 \in 1 .. L /\ i + 1 \in 0 .. L
          BY <1>0, <4>1
        <5>2. info[i + 1].workingHeight \in Nat
          BY <5>1, Stretches
        <5> QED BY <4>1, <5>2 DEF Until
      <4>2. CASE ~(i < L /\ info[i + 1].workingHeight < current)
        BY <4>2 DEF Until
      <4> QED BY <4>1, <4>2
    <3> HIDE DEF until, later
    <3>4. ~(until - later >= DefaultConfirmations)
      BY <1>4, <3>2, <3>3, ConfirmationsAssumption
    <3> QED BY <3>4 DEF Confirms, until, later
  <2> QED BY <1>1, <1>3, <1>4, <2>1
<1>5. CASE current > proposal
  <2> DEFINE R == {k \in 0 .. L : Walked(s[k], info, current, proposal, k)}
  <2>1. 0 \in R
    <3>1. s[0] = [mode |-> "DPOS", from |-> 0, ended |-> FALSE,
                  began |-> FALSE, yes |-> FALSE]
      BY <1>2 DEF Confirming!IsRun, ConfirmBase
    <3>2. /\ s[0].yes = FALSE /\ s[0].ended = FALSE /\ s[0].began = FALSE
          /\ s[0].mode = ModeOf(info, 0) /\ s[0].from = From(info, 0)
          /\ ~(From(info, 0) > proposal)
      BY <3>1 DEF ModeOf, From
    <3>3. \A i \in 0 .. 0 - 1 : FALSE
      OBVIOUS
    <3>4. Walked(s[0], info, current, proposal, 0)
      BY <3>2, <3>3 DEF Walked
    <3> QED BY <1>0, <3>4
  <2>2. ASSUME NEW k \in 0 .. L - 1, k \in R PROVE k + 1 \in R
    <3>1. k + 1 \in 0 .. L /\ k + 1 \in 1 .. L /\ (k + 1) - 1 = k /\ k \in Nat
      BY <1>0
    <3>2. s[k + 1] = ConfirmStep(current, proposal, s[k], info[k + 1])
      <4>1. s[k + 1] = ConfirmTurn(c, s[(k + 1) - 1], info[k + 1])
        BY <1>2, <3>1 DEF Confirming!IsRun
      <4> QED BY <1>0, <3>1, <4>1 DEF ConfirmTurn
    <3>3. Walked(s[k], info, current, proposal, k) /\ proposal < current
      BY <1>5, <2>2
    <3>4. Walked(ConfirmStep(current, proposal, s[k], info[k + 1]),
                 info, current, proposal, k + 1)
      BY <3>1, <3>3, WalkOn
    <3> QED BY <3>1, <3>2, <3>4
  <2>3. L \in R
    <3> HIDE DEF R, L
    <3>1. 0 .. L \subseteq R
      BY <1>0, <2>1, <2>2, Confirming!CountUp
    <3> QED BY <1>0, <3>1
  <2> DEFINE v == s[L]
  <2>4. Walked(v, info, current, proposal, L)
    BY <2>3
  <2> HIDE DEF v
  <2>5. CASE v.yes /\ \E i \in 0 .. L : Confirms(info, i, current, proposal)
    BY <1>1, <1>3, <1>5, <2>5 DEF v
  <2>6. CASE /\ ~v.yes /\ v.ended /\ v.began
             /\ \A i \in 0 .. L : ~Confirms(info, i, current, proposal)
    BY <1>1, <1>3, <2>6 DEF v
  <2>7. CASE /\ ~v.yes /\ ~v.ended
             /\ v.mode = ModeOf(info, L) /\ v.from = From(info, L)
             /\ v.began <=> From(info, L) > proposal
             /\ \A i \in 0 .. L - 1 : ~Confirms(info, i, current, proposal)
    <3>1. L \in 0 .. L /\ \A i \in 0 .. L : i = L \/ i \in 0 .. L - 1
      BY <1>0
    <3>2. Confirmed(current, proposal, info) <=> Confirms(info, L, current, proposal)
      BY <1>1, <2>7, <3>1
    <3>3. Until(info, L, current) = current /\ From(info, L) \in Nat
      BY <1>0, <3>1, Stretches DEF Until
    <3>4. Confirms(info, L, current, proposal) <=>
            /\ v.mode = "DPOS"
            /\ current - Later(proposal, v.from) >= DefaultConfirmations
      BY <2>7, <3>3 DEF Confirms
    <3>5. Later(proposal, v.from) = IF v.began THEN v.from ELSE proposal
      BY <2>7, <3>3 DEF Later
    <3>6. isProposalConfirmed(current, proposal, info) <=>
            /\ v.mode = "DPOS"
            /\ current - (IF v.began THEN v.from ELSE proposal) >= DefaultConfirmations
      BY <1>3, <1>5, <2>7 DEF v
    <3> QED BY <3>2, <3>4, <3>5, <3>6
  <2> QED BY <2>4, <2>5, <2>6, <2>7 DEF Walked
<1> QED BY <1>4, <1>5

-----------------------------------------------------------------------------
(* The custom IDs, the fee and the deposits that queries answer with.        *)

(* The results of a transaction that approve a fee, and what the answers     *)
(* about the fee need: a block approves one at most.  The batch takes the    *)
(* list of heights from the database, not from what it collected, so that of *)
(* two fees in a block the first would be written over.                      *)
FeeResults(t) ==
  IF Tx[t].kind # "Result" THEN {}
  ELSE {x \in DOMAIN Tx[t].results :
          Tx[t].results[x].about = "Fee" /\ Tx[t].results[x].approved}

OneFeePerBlock ==
  \A b \in Block : \A i, j \in DOMAIN BlockTxs[b] :
    \A x \in FeeResults(BlockTxs[b][i]), y \in FeeResults(BlockTxs[b][j]) :
      i = j /\ x = y

(* Two maps with the same rows.                                              *)
Alike(f, g) == DOMAIN f = DOMAIN g /\ \A x \in DOMAIN f : f[x] = g[x]

(* A map as a query reads it: from the database when the one in memory is    *)
(* empty.                                                                    *)
MapRead(g, db, key) == IF DOMAIN g = {} THEN ListOf(db, key) ELSE g

(* f is what was said, g the map in memory: a query finds f, the database    *)
(* will have f once the batch is written, and has nothing else before.       *)
MapMirrors(f, g, b, db, key, V) ==
  /\ DOMAIN f \subseteq NamedIDs /\ \A x \in DOMAIN f : f[x] \in V
  /\ Alike(f, MapRead(g, db, key)) /\ Alike(f, ListOf(Over(b, db), key))
  /\ DOMAIN ListOf(db, key) \subseteq DOMAIN f

LEMMA MapSame ==
  ASSUME NEW f, NEW g, NEW b, NEW c, NEW db, NEW key, NEW V,
         MapMirrors(f, g, b, db, key, V), Same(c, b, key)
  PROVE  MapMirrors(f, g, c, db, key, V)
<1>1. ListOf(Over(c, db), key) = ListOf(Over(b, db), key)
  BY LookupSame, ListOfLookup
<1> QED BY <1>1 DEF MapMirrors

(* A query, or a result that was rejected, reads the map.                    *)
LEMMA MapFills ==
  ASSUME NEW f, NEW g, NEW b, NEW db, NEW key, NEW V,
         MapMirrors(f, g, b, db, key, V)
  PROVE  MapMirrors(f, MapRead(g, db, key), b, db, key, V)
<1>1. MapRead(MapRead(g, db, key), db, key) = MapRead(g, db, key)
  BY DEF MapRead
<1> QED BY <1>1 DEF MapMirrors

(* Rows are added to the map, in memory and in the batch.                    *)
LEMMA MapPuts ==
  ASSUME NEW f, NEW g, NEW b, NEW c, NEW db, NEW key, NEW V, NEW rows,
         MapMirrors(f, g, b, db, key, V),
         DOMAIN rows \subseteq NamedIDs, \A x \in DOMAIN rows : rows[x] \in V,
         \A S \in SUBSET NamedIDs : None \notin [S -> V],
         key \in DOMAIN c, c[key] = Over(rows, MapRead(g, db, key))
  PROVE  MapMirrors(Over(rows, f), Over(rows, MapRead(g, db, key)), c, db, key, V)
<1> DEFINE old == MapRead(g, db, key)
           new == Over(rows, f)
           all == Over(rows, old)
<1>1. DOMAIN f \subseteq NamedIDs /\ \A x \in DOMAIN f : f[x] \in V
  BY DEF MapMirrors
<1>2. DOMAIN new = DOMAIN rows \cup DOMAIN f
  BY DEF Over
<1>3. \A x \in DOMAIN new : new[x] = IF x \in DOMAIN rows THEN rows[x] ELSE f[x]
  BY DEF Over
<1>4. DOMAIN old = DOMAIN f /\ \A x \in DOMAIN f : f[x] = old[x]
  BY DEF MapMirrors, Alike
<1> HIDE DEF old
<1>5. all = [x \in DOMAIN rows \cup DOMAIN old |->
               IF x \in DOMAIN rows THEN rows[x] ELSE old[x]]
  BY DEF Over
<1> HIDE DEF new, all
<1>6. DOMAIN new \subseteq NamedIDs /\ \A x \in DOMAIN new : new[x] \in V
  BY <1>1, <1>2, <1>3
<1>7. Alike(new, all)
  BY <1>2, <1>3, <1>4, <1>5 DEF Alike
<1>8. all # None
  <2>1. all \in [DOMAIN rows \cup DOMAIN old -> V]
    BY <1>1, <1>4, <1>5
  <2>2. DOMAIN rows \cup DOMAIN old \in SUBSET NamedIDs
    BY <1>1, <1>4
  <2> QED BY <2>1, <2>2
<1>9. ListOf(Over(c, db), key) = all
  <2>1. c[key] = all
    BY DEF all, old
  <2>2. Lookup(Over(c, db), key) = all
    BY <2>1, LookupOver
  <2> QED BY <1>8, <2>2 DEF ListOf, Lookup
<1>10. DOMAIN ListOf(db, key) \subseteq DOMAIN new
  BY <1>2 DEF MapMirrors
<1>11. Alike(new, MapRead(all, db, key))
  <2>1. CASE DOMAIN all = {}
    <3>1. MapRead(all, db, key) = ListOf(db, key) /\ DOMAIN new = {}
      BY <1>7, <2>1 DEF MapRead, Alike
    <3> QED BY <1>10, <3>1 DEF Alike
  <2>2. CASE DOMAIN all # {}
    BY <1>7, <2>2 DEF MapRead
  <2> QED BY <2>1, <2>2
<1>12. MapMirrors(new, all, c, db, key, V)
  BY <1>6, <1>7, <1>9, <1>10, <1>11 DEF MapMirrors
<1> QED BY <1>12 DEF new, all, old

(* The batch is written: a map in memory, read or not, still mirrors.        *)
LEMMA MapCommits ==
  ASSUME NEW f, NEW g, NEW b, NEW db, NEW e, NEW key, NEW V,
         MapMirrors(f, g, b, db, key, V),
         Lookup(e, key) = Lookup(Over(b, db), key)
  PROVE  MapMirrors(f, g, <<>>, e, key, V) /\ MapMirrors(f, <<>>, <<>>, e, key, V)
<1>0. DOMAIN <<>> = {}
  OBVIOUS
<1>1. Lookup(Over(<<>>, e), key) = Lookup(e, key)
  BY <1>0, LookupOver
<1>2. ListOf(Over(<<>>, e), key) = ListOf(e, key) /\ ListOf(e, key) = ListOf(Over(b, db), key)
  BY <1>1, ListOfLookup
<1>3. Alike(f, ListOf(e, key))
  BY <1>2 DEF MapMirrors
<1>4. Alike(f, MapRead(g, e, key)) /\ Alike(f, MapRead(<<>>, e, key))
  BY <1>0, <1>3 DEF MapMirrors, MapRead
<1>5. DOMAIN ListOf(e, key) \subseteq DOMAIN f
  BY <1>3 DEF Alike
<1> QED BY <1>2, <1>3, <1>4, <1>5 DEF MapMirrors

(* The deposits that were returned, and the fee by its working height.       *)
DepositsMirror(said, b, db) ==
  \A x : Lookup(Over(b, db), <<"deposit", x>>) # None <=> x \in said
FeeMirrors(fee, pos, b, db) ==
  /\ Elems(ListOf(Over(b, db), <<"cidfps">>)) = DOMAIN fee
  /\ \A p \in DOMAIN fee : /\ p \in Nat \ {0} /\ fee[p] # None
                           /\ Lookup(Over(b, db), <<"ccidfh", p>>) = fee[p]
  /\ CacheOf(pos, b, db, <<"cidfps">>)

FeeAfter(fee, at, rate) ==
  Over(Row(at, rate), Without(fee, {g \in DOMAIN fee : g >= at}))

LEMMA FeeSame ==
  ASSUME NEW fee, NEW pos, NEW b, NEW c, NEW db, FeeMirrors(fee, pos, b, db),
         Same(c, b, <<"cidfps">>), \A p : Same(c, b, <<"ccidfh", p>>)
  PROVE  FeeMirrors(fee, pos, c, db)
<1>1. CacheOf(pos, c, db, <<"cidfps">>)
  BY CacheSame DEF FeeMirrors
<1>2. ASSUME NEW p
      PROVE  Lookup(Over(c, db), <<"ccidfh", p>>) = Lookup(Over(b, db), <<"ccidfh", p>>)
  <2>1. Same(c, b, <<"ccidfh", p>>)
    OBVIOUS
  <2> QED BY <2>1, LookupSame
<1>3. Lookup(Over(c, db), <<"cidfps">>) = Lookup(Over(b, db), <<"cidfps">>)
  BY LookupSame
<1>4. ListOf(Over(c, db), <<"cidfps">>) = ListOf(Over(b, db), <<"cidfps">>)
  BY <1>3, ListOfLookup
<1> QED BY <1>1, <1>2, <1>4 DEF FeeMirrors

(* A fee is approved, the first one of the batch.                            *)
LEMMA FeePuts ==
  ASSUME NEW fee, NEW pos, NEW b, NEW c, NEW db, FeeMirrors(fee, pos, b, db),
         <<"cidfps">> \notin DOMAIN b, Heights(ListOf(db, <<"cidfps">>)),
         NEW at \in Nat \ {0}, NEW rate, rate # None,
         NEW list, list = PutHeight(ListOf(db, <<"cidfps">>), at),
         <<"cidfps">> \in DOMAIN c, c[<<"cidfps">>] = list,
         <<"ccidfh", at>> \in DOMAIN c, c[<<"ccidfh", at>>] = rate,
         \A p : p # at => Same(c, b, <<"ccidfh", p>>)
  PROVE  FeeMirrors(FeeAfter(fee, at, rate), list, c, db)
<1> DEFINE old == ListOf(db, <<"cidfps">>)
           new == FeeAfter(fee, at, rate)
<1>1. Heights(list) /\ list # <<>> /\ Elems(list) = {at} \cup {p \in Elems(old) : p < at}
  <2>1. at \in Nat
    OBVIOUS
  <2> QED BY <2>1, PutHeightFacts
<1>2. list # None
  BY <1>1, NilAssumption DEF Heights
<1>3. CacheOf(list, c, db, <<"cidfps">>)
  BY <1>1, <1>2, CachePut
<1>4. ListOf(Over(c, db), <<"cidfps">>) = list
  BY <1>1, <1>3 DEF CacheOf
<1>5. ListOf(Over(b, db), <<"cidfps">>) = old
  <2>1. Lookup(Over(b, db), <<"cidfps">>) = Lookup(db, <<"cidfps">>)
    BY LookupOver
  <2> QED BY <2>1, ListOfLookup
<1>6. Elems(old) = DOMAIN fee
  BY <1>5 DEF FeeMirrors
<1>7. DOMAIN fee \subseteq Nat \ {0}
  BY DEF FeeMirrors
<1> HIDE DEF old
<1>8. DOMAIN new = {at} \cup {p \in DOMAIN fee : ~(p >= at)}
  BY DEF FeeAfter, Over, Row, Without
<1>9. \A p \in DOMAIN new : new[p] = IF p = at THEN rate ELSE fee[p]
  BY DEF FeeAfter, Over, Row, Without
<1> HIDE DEF new
<1>10. DOMAIN new = {at} \cup {p \in DOMAIN fee : p < at}
  BY <1>7, <1>8
<1>11. Elems(list) = DOMAIN new
  BY <1>1, <1>6, <1>10
<1>12. ASSUME NEW p \in DOMAIN new
       PROVE  /\ p \in Nat \ {0} /\ new[p] # None
              /\ Lookup(Over(c, db), <<"ccidfh", p>>) = new[p]
  <2>1. CASE p = at
    <3>1. Lookup(Over(c, db), <<"ccidfh", at>>) = rate
      BY LookupOver
    <3> QED BY <1>9, <2>1, <3>1
  <2>2. CASE p # at
    <3>1. p \in DOMAIN fee /\ new[p] = fee[p]
      BY <1>9, <1>10, <2>2
    <3>2. Lookup(Over(c, db), <<"ccidfh", p>>) = Lookup(Over(b, db), <<"ccidfh", p>>)
      BY <2>2, LookupSame
    <3> QED BY <3>1, <3>2 DEF FeeMirrors
  <2> QED BY <2>1, <2>2
<1>13. FeeMirrors(new, list, c, db)
  BY <1>3, <1>4, <1>11, <1>12 DEF FeeMirrors
<1> QED BY <1>13 DEF new

(* A database that says what the batch and the old one say together.         *)
LEMMA FeeCommits ==
  ASSUME NEW fee, NEW pos, NEW b, NEW db, NEW e, FeeMirrors(fee, pos, b, db),
         \A key : Lookup(e, key) = Lookup(Over(b, db), key)
  PROVE  /\ FeeMirrors(fee, <<>>, <<>>, e)
         /\ FeeMirrors(fee, pos, <<>>, e)
<1>0. DOMAIN <<>> = {}
  OBVIOUS
<1>1. \A key : Lookup(Over(<<>>, e), key) = Lookup(Over(b, db), key)
  BY <1>0, LookupOver
<1>2. ListOf(Over(<<>>, e), <<"cidfps">>) = ListOf(Over(b, db), <<"cidfps">>)
  BY <1>1, ListOfLookup
<1>3. CacheOf(pos, <<>>, e, <<"cidfps">>) /\ CacheOf(<<>>, <<>>, e, <<"cidfps">>)
  BY <1>0, <1>2 DEF FeeMirrors, CacheOf
<1> QED BY <1>1, <1>2, <1>3 DEF FeeMirrors

LEMMA DepositsSame ==
  ASSUME NEW said, NEW b, NEW c, NEW db, DepositsMirror(said, b, db),
         \A x : Same(c, b, <<"deposit", x>>)
  PROVE  DepositsMirror(said, c, db)
<1>1. ASSUME NEW x
      PROVE  Lookup(Over(c, db), <<"deposit", x>>) = Lookup(Over(b, db), <<"deposit", x>>)
  <2>1. Same(c, b, <<"deposit", x>>)
    OBVIOUS
  <2> QED BY <2>1, LookupSame
<1> QED BY <1>1 DEF DepositsMirror

LEMMA DepositsPut ==
  ASSUME NEW said, NEW w, NEW v, NEW db, NEW deposits,
         DepositsMirror(said, w.b, db), IsDeposit(v, w, deposits)
  PROVE  DepositsMirror(said \cup deposits, v.b, db)
<1> SUFFICES ASSUME NEW x
             PROVE  Lookup(Over(v.b, db), <<"deposit", x>>) # None <=>
                      x \in said \cup deposits
  BY DEF DepositsMirror
<1>1. CASE x \in deposits
  <2>1. Lookup(Over(v.b, db), <<"deposit", x>>) = TRUE
    BY <1>1, LookupOver DEF IsDeposit
  <2> QED BY <1>1, <2>1, NilAssumption
<1>2. CASE x \notin deposits
  <2>1. \A d \in deposits : <<"deposit", x>> # <<"deposit", d>>
    BY <1>2
  <2>2. Same(v.b, w.b, <<"deposit", x>>)
    BY <2>1 DEF IsDeposit
  <2> QED BY <1>2, <2>2, LookupSame DEF DepositsMirror
<1> QED BY <1>1, <1>2

(* What is said, in memory, in the batch and in the database.                *)
Holding == [did : NamedDIDs, height : Nat]
Mirrors(l, m, b, db) ==
  /\ IsLog(l)
  /\ MapMirrors(l.reserved, m.reserved, b, db, <<"rscid">>, Nat)
  /\ MapMirrors(l.received, m.received, b, db, <<"rccid">>, Holding)
  /\ FeeMirrors(l.fee, m.feePos, b, db)
  /\ DepositsMirror(l.deposits, b, db)

(* The proposals on file.                                                    *)
OnFile(d) ==
  /\ \A p : <<"rscid", p>> \in DOMAIN d =>
       p \in Hash /\ Tx[p].kind = "Reserve" /\ d[<<"rscid", p>>] = Tx[p].ids
  /\ \A p : <<"rccid", p>> \in DOMAIN d =>
       /\ p \in Hash /\ Tx[p].kind = "Receive"
       /\ d[<<"rccid", p>>] = [id \in Tx[p].ids |-> Tx[p].did]
  /\ \A p : <<"ccidf", p>> \in DOMAIN d =>
       /\ p \in Hash /\ Tx[p].kind = "Fee"
       /\ d[<<"ccidf", p>>] = [rate |-> Tx[p].rate, workingHeight |-> Tx[p].at]
  /\ <<"ccidfh", 0>> \notin DOMAIN d

LEMMA OnFileSame ==
  ASSUME NEW d, NEW e, OnFile(d),
         \A p : /\ Same(e, d, <<"rscid", p>>) /\ Same(e, d, <<"rccid", p>>)
                /\ Same(e, d, <<"ccidf", p>>),
         Same(e, d, <<"ccidfh", 0>>)
  PROVE  OnFile(e)
BY DEF OnFile, Same

LEMMA OnFileWrite ==
  ASSUME NEW db, NEW b, OnFile(db), OnFile(b)
  PROVE  OnFile(Write(db, b))
<1>1. ASSUME NEW k \in DOMAIN Write(db, b)
      PROVE  \/ k \in DOMAIN b /\ Write(db, b)[k] = b[k]
             \/ k \in DOMAIN db /\ Write(db, b)[k] = db[k]
  BY DEF Write, Over
<1> QED BY <1>1 DEF OnFile

LEMMA FillsRead ==
  ASSUME NEW m, IsMem(m), NEW db
  PROVE  /\ FillReserved(db, m).reserved = MapRead(m.reserved, db, <<"rscid">>)
         /\ FillReceived(db, m).received = MapRead(m.received, db, <<"rccid">>)
BY DEF IsMem, FillReserved, FillReceived, MapRead, IsEmpty, getReservedCustomIDsFromDB,
       getReceivedCustomIDsFromDB

LEMMA KeysDiffer ==
  /\ <<"rscid">> # <<"rccid">> /\ <<"rscid">> # <<"cidfps">> /\ <<"rccid">> # <<"cidfps">>
  /\ \A k \in {<<"rscid">>, <<"rccid">>, <<"cidfps">>} :
       \A x : <<"deposit", x>> # k /\ <<"ccidfh", x>> # k
  /\ \A x, y : <<"deposit", x>> # <<"ccidfh", y>>
OBVIOUS

(* What an approved result adds to what was said.                            *)
ReservedSaid(l, p, n) == [l EXCEPT !.reserved = Over([id \in Tx[p].ids |-> n], @)]
ReceivedSaid(l, p, n) ==
  [l EXCEPT !.received =
     Over([id \in Tx[p].ids |-> [did |-> Tx[p].did, height |-> n]], @)]
FeeSaid(l, p) == [l EXCEPT !.fee = FeeAfter(@, Tx[p].at, Tx[p].rate)]

(* A reservation is approved.                                                *)
LEMMA ReservedMirrors ==
  ASSUME NEW l, NEW w, NEW v, NEW db, NEW p, NEW n \in Nat, IsMem(w.mem), OnFile(db),
         Mirrors(l, w.mem, w.b, db), IsReserved(v, w, db, p, n), ~v.err
  PROVE  Mirrors(ReservedSaid(l, p, n), v.mem, v.b, db)
<1> DEFINE key == <<"rscid">>
           named == Lookup(db, <<"rscid", p>>)
           read == MapRead(w.mem.reserved, db, key)
           rows == [id \in Tx[p].ids |-> n]
           r == Over(rows, l.reserved)
           new == [l EXCEPT !.reserved = r]
<1>1. FillReserved(db, w.mem).reserved = read
  BY FillsRead
<1>2. /\ named # None /\ v.mem.reserved = Over([id \in named |-> n], read)
      /\ key \in DOMAIN v.b /\ v.b[key] = Over([id \in named |-> n], read)
      /\ \A k : k # key => Same(v.b, w.b, k)
      /\ v.mem.received = w.mem.received /\ v.mem.feePos = w.mem.feePos
  BY <1>1 DEF IsReserved
<1>3. p \in Hash /\ Tx[p].kind = "Reserve" /\ named = Tx[p].ids
  BY <1>2 DEF Lookup, OnFile
<1> HIDE DEF named, read
<1>4. /\ v.mem.reserved = Over(rows, read) /\ v.b[key] = Over(rows, read)
  BY <1>2, <1>3
<1>5. DOMAIN rows \subseteq NamedIDs /\ \A x \in DOMAIN rows : rows[x] \in Nat
  BY <1>3 DEF NamedIDs, Hash
<1> HIDE DEF rows
<1>6. MapMirrors(r, v.mem.reserved, v.b, db, key, Nat)
  <2>1. MapMirrors(l.reserved, w.mem.reserved, w.b, db, key, Nat)
    BY DEF Mirrors
  <2>2. \A S \in SUBSET NamedIDs : None \notin [S -> Nat]
    BY NilAssumption
  <2>3. MapMirrors(r, Over(rows, read), v.b, db, key, Nat)
    BY <1>2, <1>4, <1>5, <2>1, <2>2, MapPuts DEF read
  <2> QED BY <1>4, <2>3
<1>7. MapMirrors(l.received, v.mem.received, v.b, db, <<"rccid">>, Holding)
  BY <1>2, MapSame, KeysDiffer DEF Mirrors
<1>8. FeeMirrors(l.fee, v.mem.feePos, v.b, db)
  BY <1>2, FeeSame, KeysDiffer DEF Mirrors
<1>9. DepositsMirror(l.deposits, v.b, db)
  BY <1>2, DepositsSame, KeysDiffer DEF Mirrors
<1> HIDE DEF r
<1>10. /\ IsLog(new) /\ new.reserved = r /\ new.received = l.received
       /\ new.fee = l.fee /\ new.deposits = l.deposits
  BY DEF Mirrors, IsLog
<1> HIDE DEF new
<1>11. Mirrors(new, v.mem, v.b, db)
  BY <1>6, <1>7, <1>8, <1>9, <1>10 DEF Mirrors
<1> QED BY <1>11 DEF new, r, rows, ReservedSaid

(* A name is received.                                                       *)
LEMMA ReceivedMirrors ==
  ASSUME NEW l, NEW w, NEW v, NEW db, NEW p, NEW n \in Nat, IsMem(w.mem), OnFile(db),
         Mirrors(l, w.mem, w.b, db), IsReceived(v, w, db, p, n), ~v.err
  PROVE  Mirrors(ReceivedSaid(l, p, n), v.mem, v.b, db)
<1> DEFINE key == <<"rccid">>
           named == Lookup(db, <<"rccid", p>>)
           read == MapRead(w.mem.received, db, key)
           found == [id \in DOMAIN named |-> [did |-> named[id], height |-> n]]
           rows == [id \in Tx[p].ids |-> [did |-> Tx[p].did, height |-> n]]
           r == Over(rows, l.received)
           new == [l EXCEPT !.received = r]
<1>1. FillReceived(db, w.mem).received = read
  BY FillsRead
<1>2. /\ named # None /\ v.mem.received = Over(found, read)
      /\ key \in DOMAIN v.b /\ v.b[key] = Over(found, read)
      /\ \A k : k # key => Same(v.b, w.b, k)
      /\ v.mem.reserved = w.mem.reserved /\ v.mem.feePos = w.mem.feePos
  BY <1>1 DEF IsReceived
<1>3. p \in Hash /\ Tx[p].kind = "Receive" /\ named = [id \in Tx[p].ids |-> Tx[p].did]
  BY <1>2 DEF Lookup, OnFile
<1>4. found = rows
  <2> HIDE DEF named
  <2>1. DOMAIN named = Tx[p].ids /\ \A id \in Tx[p].ids : named[id] = Tx[p].did
    BY <1>3
  <2> QED BY <2>1
<1> HIDE DEF named, read, found
<1>5. /\ v.mem.received = Over(rows, read) /\ v.b[key] = Over(rows, read)
  BY <1>2, <1>4, Zenon
<1>6. DOMAIN rows \subseteq NamedIDs /\ \A x \in DOMAIN rows : rows[x] \in Holding
  BY <1>3 DEF NamedIDs, NamedDIDs, Holding, Hash
<1> HIDE DEF rows
<1>7. MapMirrors(r, v.mem.received, v.b, db, key, Holding)
  <2>1. MapMirrors(l.received, w.mem.received, w.b, db, key, Holding)
    BY DEF Mirrors
  <2>2. \A S \in SUBSET NamedIDs : None \notin [S -> Holding]
    BY NilAssumption DEF Holding
  <2>3. MapMirrors(r, Over(rows, read), v.b, db, key, Holding)
    BY <1>2, <1>5, <1>6, <2>1, <2>2, MapPuts DEF read
  <2> QED BY <1>5, <2>3
<1>8. MapMirrors(l.reserved, v.mem.reserved, v.b, db, <<"rscid">>, Nat)
  BY <1>2, MapSame, KeysDiffer DEF Mirrors
<1>9. FeeMirrors(l.fee, v.mem.feePos, v.b, db)
  BY <1>2, FeeSame, KeysDiffer DEF Mirrors
<1>10. DepositsMirror(l.deposits, v.b, db)
  BY <1>2, DepositsSame, KeysDiffer DEF Mirrors
<1> HIDE DEF r
<1>11. /\ IsLog(new) /\ new.received = r /\ new.reserved = l.reserved
       /\ new.fee = l.fee /\ new.deposits = l.deposits
  BY DEF Mirrors, IsLog
<1> HIDE DEF new
<1>12. Mirrors(new, v.mem, v.b, db)
  BY <1>7, <1>8, <1>9, <1>10, <1>11 DEF Mirrors
<1> QED BY <1>12 DEF new, r, rows, ReceivedSaid

(* A fee is approved.                                                        *)
LEMMA FeeResultMirrors ==
  ASSUME NEW l, NEW w, NEW v, NEW db, NEW p, OnFile(db),
         Heights(ListOf(db, <<"cidfps">>)), <<"cidfps">> \notin DOMAIN w.b,
         Mirrors(l, w.mem, w.b, db), IsFee(v, w, db, p), ~v.err
  PROVE  Mirrors(FeeSaid(l, p), v.mem, v.b, db)
<1> DEFINE fee == Lookup(db, <<"ccidf", p>>)
           at == fee.workingHeight
           list == PutHeight(ListOf(db, <<"cidfps">>), at)
           f == FeeAfter(l.fee, at, fee.rate)
           new == [l EXCEPT !.fee = f]
<1>1. /\ v.mem.reserved = w.mem.reserved /\ v.mem.received = w.mem.received
      /\ fee # None /\ v.mem.feePos = list
      /\ <<"cidfps">> \in DOMAIN v.b /\ v.b[<<"cidfps">>] = list
      /\ <<"ccidfh", at>> \in DOMAIN v.b /\ v.b[<<"ccidfh", at>>] = fee.rate
      /\ \A k : k \notin {<<"cidfps">>, <<"ccidfh", at>>} => Same(v.b, w.b, k)
  BY DEF IsFee
<1>2. /\ p \in Hash /\ Tx[p].kind = "Fee"
      /\ fee = [rate |-> Tx[p].rate, workingHeight |-> Tx[p].at]
  BY <1>1 DEF Lookup, OnFile
<1> HIDE DEF fee
<1>3. at = Tx[p].at /\ fee.rate = Tx[p].rate
  BY <1>2
<1>4. at \in Nat \ {0} /\ fee.rate # None
  BY <1>2, <1>3, TurnAssumption, NilAssumption DEF Hash
<1> HIDE DEF at, list
<1>5. FeeMirrors(f, list, v.b, db)
  <2>1. FeeMirrors(l.fee, w.mem.feePos, w.b, db)
    BY DEF Mirrors
  <2>2. ASSUME NEW x, x # at PROVE Same(v.b, w.b, <<"ccidfh", x>>)
    <3>1. <<"ccidfh", x>> # <<"cidfps">> /\ <<"ccidfh", x>> # <<"ccidfh", at>>
      BY <2>2
    <3> QED BY <1>1, <3>1
  <2> DEFINE rate == fee.rate
  <2> HIDE DEF rate
  <2>3. rate # None /\ v.b[<<"ccidfh", at>>] = rate
    BY <1>1, <1>4 DEF rate
  <2>4. list = PutHeight(ListOf(db, <<"cidfps">>), at)
    BY DEF list
  <2>5. FeeMirrors(FeeAfter(l.fee, at, rate), list, v.b, db)
    BY <1>1, <1>4, <2>1, <2>2, <2>3, <2>4, FeePuts
  <2> QED BY <2>5 DEF rate
<1>6. MapMirrors(l.reserved, v.mem.reserved, v.b, db, <<"rscid">>, Nat)
  BY <1>1, MapSame, KeysDiffer DEF Mirrors
<1>7. MapMirrors(l.received, v.mem.received, v.b, db, <<"rccid">>, Holding)
  BY <1>1, MapSame, KeysDiffer DEF Mirrors
<1>8. DepositsMirror(l.deposits, v.b, db)
  BY <1>1, DepositsSame, KeysDiffer DEF Mirrors
<1> HIDE DEF f
<1>9. /\ IsLog(new) /\ new.received = l.received /\ new.reserved = l.reserved
      /\ new.fee = f /\ new.deposits = l.deposits
  BY DEF Mirrors, IsLog
<1>10. new = FeeSaid(l, p)
  BY <1>3 DEF f, FeeSaid
<1> HIDE DEF new
<1>11. Mirrors(new, v.mem, v.b, db)
  BY <1>1, <1>5, <1>6, <1>7, <1>8, <1>9 DEF Mirrors
<1> QED BY <1>10, <1>11

(* One result, of whatever kind.                                             *)
LEMMA ResultMirrors ==
  ASSUME NEW l, NEW w, NEW v, NEW db, NEW r \in Verdict, NEW n \in Nat, IsMem(w.mem),
         OnFile(db), Heights(ListOf(db, <<"cidfps">>)), Mirrors(l, w.mem, w.b, db),
         IsResult(v, w, db, r, n), ~v.err,
         r.approved /\ r.about = "Fee" => <<"cidfps">> \notin DOMAIN w.b
  PROVE  Mirrors(SaysResult(l, r, n), v.mem, v.b, db)
<1> DEFINE p == r.proposal
           m == SaysResult(l, r, n)
<1>1. CASE r.approved /\ r.about = "Reserve" /\ IsReserved(v, w, db, p, n)
  <2>1. m = ReservedSaid(l, p, n)
    BY <1>1 DEF SaysResult, ReservedSaid
  <2> HIDE DEF p
  <2> QED BY <1>1, <2>1, ReservedMirrors
<1>2. CASE r.approved /\ r.about = "Receive" /\ IsReceived(v, w, db, p, n)
  <2>1. m = ReceivedSaid(l, p, n)
    BY <1>2 DEF SaysResult, ReceivedSaid
  <2> HIDE DEF p
  <2> QED BY <1>2, <2>1, ReceivedMirrors
<1>3. CASE r.approved /\ r.about = "Fee" /\ IsFee(v, w, db, p)
  <2>1. m = FeeSaid(l, p)
    BY <1>3 DEF SaysResult, FeeAfter, FeeSaid
  <2> HIDE DEF p
  <2> QED BY <1>3, <2>1, FeeResultMirrors
<1>4. CASE /\ ~r.approved /\ v.b = w.b /\ v.mem.feePos = w.mem.feePos
           /\ v.mem.reserved \in {w.mem.reserved, FillReserved(db, w.mem).reserved}
           /\ v.mem.received \in {w.mem.received, FillReceived(db, w.mem).received}
  <2>1. m = l
    BY <1>4 DEF SaysResult
  <2>2. MapMirrors(l.reserved, v.mem.reserved, v.b, db, <<"rscid">>, Nat)
    BY <1>4, FillsRead, MapFills DEF Mirrors
  <2>3. MapMirrors(l.received, v.mem.received, v.b, db, <<"rccid">>, Holding)
    BY <1>4, FillsRead, MapFills DEF Mirrors
  <2> QED BY <1>4, <2>1, <2>2, <2>3 DEF Mirrors
<1>5. CASE w.err /\ v = w
  BY <1>5
<1> QED BY <1>1, <1>2, <1>3, <1>4, <1>5 DEF IsResult

(* A batch has a list of fees once a fee was approved.                       *)
LEMMA ResultFee ==
  ASSUME NEW w, NEW v, NEW db, NEW r \in Verdict, NEW n, IsResult(v, w, db, r, n),
         <<"cidfps">> \in DOMAIN v.b
  PROVE  <<"cidfps">> \in DOMAIN w.b \/ (r.approved /\ r.about = "Fee")
<1>1. <<"cidfps">> # <<"rscid">> /\ <<"cidfps">> # <<"rccid">>
  BY KeysDiffer
<1>2. ASSUME NEW p, IsReserved(v, w, db, p, n) PROVE <<"cidfps">> \in DOMAIN w.b
  BY <1>1, <1>2 DEF IsReserved, Same
<1>3. ASSUME NEW p, IsReceived(v, w, db, p, n) PROVE <<"cidfps">> \in DOMAIN w.b
  BY <1>1, <1>3 DEF IsReceived, Same
<1> QED BY <1>2, <1>3, Zenon DEF IsResult

(* All results of a transaction.                                             *)
LEMMA ResultsMirror ==
  ASSUME NEW l, NEW w, NEW v, NEW t \in Hash, NEW n \in Nat, NEW r,
         Tx[t].kind = "Result", IsW(w), OnFile(ids), Heights(ListOf(ids, <<"cidfps">>)),
         Mirrors(l, w.mem, w.b, ids),
         IsResults(r, w, ids, Tx[t].results, n), v = r[Len(Tx[t].results)], ~v.err,
         \A x, y \in FeeResults(t) : x = y,
         FeeResults(t) # {} => <<"cidfps">> \notin DOMAIN w.b
  PROVE  /\ Mirrors(Says(l, t, n), v.mem, v.b, ids)
         /\ <<"cidfps">> \in DOMAIN v.b =>
              <<"cidfps">> \in DOMAIN w.b \/ FeeResults(t) # {}
<1> DEFINE list == Tx[t].results
           m == Len(list)
<1>0. list \in Seq(Verdict) /\ m \in Nat
  BY TurnAssumption, LenProperties DEF Hash, Verdict
<1>1. PICK s : IsVerdicts(s, l, list, n) /\ Says(l, t, n) = s[m]
  BY VerdictsRun
<1>2. FeeResults(t) = {x \in 1 .. m : list[x].about = "Fee" /\ list[x].approved}
  BY <1>0, LenProperties DEF FeeResults
<1>3. /\ r[0] = w
      /\ \A k \in 0 .. m : IsW(r[k])
      /\ \A k \in 1 .. m : IsResult(r[k], r[k - 1], ids, list[k], n)
  BY DEF IsResults
<1> DEFINE Good(k) == /\ Mirrors(s[k], r[k].mem, r[k].b, ids)
                      /\ <<"cidfps">> \in DOMAIN r[k].b =>
                           \/ <<"cidfps">> \in DOMAIN w.b
                           \/ \E x \in FeeResults(t) : x <= k
           R == {k \in 0 .. m : r[k].err \/ Good(k)}
<1> HIDE DEF list, m
<1>4. 0 \in R
  BY <1>0, <1>1, <1>3 DEF IsVerdicts
<1>5. ASSUME NEW k \in 0 .. m - 1, k \in R PROVE k + 1 \in R
  <2>1. k + 1 \in 0 .. m /\ k + 1 \in 1 .. m /\ (k + 1) - 1 = k /\ k \in 0 .. m
    BY <1>0
  <2>2. s[k + 1] = SaysResult(s[k], list[k + 1], n)
    <3>1. s[k + 1] = SaysResult(s[(k + 1) - 1], list[k + 1], n)
      BY <1>1, <2>1 DEF IsVerdicts, m
    <3> QED BY <2>1, <3>1
  <2>3. IsResult(r[k + 1], r[k], ids, list[k + 1], n)
    <3>1. IsResult(r[k + 1], r[(k + 1) - 1], ids, list[k + 1], n)
      BY <1>3, <2>1
    <3> QED BY <2>1, <3>1
  <2>4. list[k + 1] \in Verdict
    BY <1>0, <2>1, ElementOfSeq DEF m
  <2>5. CASE r[k + 1].err
    BY <2>1, <2>5
  <2>6. CASE ~r[k + 1].err
    <3>1. ~r[k].err
      BY <2>3, <2>6 DEF IsResult
    <3>2. Good(k)
      BY <1>5, <3>1
    <3>3. list[k + 1].approved /\ list[k + 1].about = "Fee" =>
            k + 1 \in FeeResults(t) /\ <<"cidfps">> \notin DOMAIN r[k].b
      <4> SUFFICES ASSUME list[k + 1].approved, list[k + 1].about = "Fee"
                   PROVE  k + 1 \in FeeResults(t) /\ <<"cidfps">> \notin DOMAIN r[k].b
        OBVIOUS
      <4>1. k + 1 \in FeeResults(t)
        BY <1>2, <2>1
      <4>2. \A x \in FeeResults(t) : ~(x <= k)
        BY <1>0, <4>1
      <4>3. <<"cidfps">> \notin DOMAIN w.b
        BY <4>1
      <4> QED BY <3>2, <4>1, <4>2, <4>3
    <3>4. IsMem(r[k].mem)
      BY <1>3, <2>1 DEF IsW
    <3>5. Mirrors(s[k + 1], r[k + 1].mem, r[k + 1].b, ids)
      BY <2>2, <2>3, <2>4, <2>6, <3>2, <3>3, <3>4, ResultMirrors
    <3>6. ASSUME <<"cidfps">> \in DOMAIN r[k + 1].b
          PROVE  \/ <<"cidfps">> \in DOMAIN w.b
                 \/ \E x \in FeeResults(t) : x <= k + 1
      <4>1. <<"cidfps">> \in DOMAIN r[k].b
              \/ (list[k + 1].approved /\ list[k + 1].about = "Fee")
        BY <2>3, <2>4, <3>6, ResultFee
      <4>2. CASE <<"cidfps">> \in DOMAIN r[k].b
        <5>1. \A x \in FeeResults(t) : x <= k => x <= k + 1
          BY <1>0, <1>2
        <5> QED BY <3>2, <4>2, <5>1
      <4>3. CASE list[k + 1].approved /\ list[k + 1].about = "Fee"
        <5>1. k + 1 <= k + 1
          BY <1>0
        <5> QED BY <3>3, <4>3, <5>1
      <4> QED BY <4>1, <4>2, <4>3
    <3> QED BY <2>1, <3>5, <3>6
  <2> QED BY <2>5, <2>6
<1>6. m \in R
  <2> HIDE DEF R
  <2>1. 0 .. m \subseteq R
    BY <1>0, <1>4, <1>5, Verdicts!CountUp
  <2> QED BY <1>0, <2>1
<1>7. v = r[m]
  BY DEF m, list
<1>8. Good(m)
  BY <1>6, <1>7
<1> QED BY <1>1, <1>7, <1>8

(* A transaction that is none of the four.                                   *)
LEMMA OtherMirrors ==
  ASSUME NEW l, NEW m, NEW w, NEW v, NEW db, Mirrors(l, w.mem, w.b, db), IsLog(m),
         m.reserved = l.reserved, m.received = l.received, m.fee = l.fee,
         m.deposits = l.deposits, v.mem.reserved = w.mem.reserved,
         v.mem.received = w.mem.received, v.mem.feePos = w.mem.feePos,
         Same(v.b, w.b, <<"rscid">>), Same(v.b, w.b, <<"rccid">>),
         Same(v.b, w.b, <<"cidfps">>), \A x : Same(v.b, w.b, <<"ccidfh", x>>),
         \A x : Same(v.b, w.b, <<"deposit", x>>)
  PROVE  Mirrors(m, v.mem, v.b, db)
<1>1. MapMirrors(m.reserved, v.mem.reserved, v.b, db, <<"rscid">>, Nat)
  BY MapSame DEF Mirrors
<1>2. MapMirrors(m.received, v.mem.received, v.b, db, <<"rccid">>, Holding)
  BY MapSame DEF Mirrors
<1>3. FeeMirrors(m.fee, v.mem.feePos, v.b, db)
  BY FeeSame DEF Mirrors
<1>4. DepositsMirror(m.deposits, v.b, db)
  BY DepositsSame DEF Mirrors
<1> QED BY <1>1, <1>2, <1>3, <1>4 DEF Mirrors

(* The keys under which the answers are kept.                                *)
CidKey(k) == k \in {<<"rscid">>, <<"rccid">>, <<"cidfps">>} \/ k[1] \in {"ccidfh", "deposit"}

LEMMA PutIdsMirror ==
  ASSUME NEW l, NEW w, NEW v, NEW t \in Hash, NEW n \in Nat, IsW(w), OnFile(ids),
         Heights(ListOf(ids, <<"cidfps">>)), Mirrors(l, w.mem, w.b, ids),
         IsPutIds(v, w, t, n), ~v.err,
         \A x, y \in FeeResults(t) : x = y,
         FeeResults(t) # {} => <<"cidfps">> \notin DOMAIN w.b
  PROVE  /\ Mirrors(Says(l, t, n), v.mem, v.b, ids)
         /\ <<"cidfps">> \in DOMAIN v.b =>
              <<"cidfps">> \in DOMAIN w.b \/ FeeResults(t) # {}
<1> DEFINE m == Says(l, t, n)
           kind == Tx[t].kind
           Goal == /\ Mirrors(m, v.mem, v.b, ids)
                   /\ <<"cidfps">> \in DOMAIN v.b =>
                        <<"cidfps">> \in DOMAIN w.b \/ FeeResults(t) # {}
<1>0. IsLog(l)
  BY DEF Mirrors
<1>1. CidKey(<<"rscid">>) /\ CidKey(<<"rccid">>) /\ CidKey(<<"cidfps">>)
      /\ \A x : CidKey(<<"ccidfh", x>>) /\ CidKey(<<"deposit", x>>)
  BY DEF CidKey
<1>2. ASSUME \A k : CidKey(k) => Same(v.b, w.b, k), kind \notin {"Deposit", "Result"},
             v.mem.reserved = w.mem.reserved, v.mem.received = w.mem.received,
             v.mem.feePos = w.mem.feePos
      PROVE  Goal
  <2>1. /\ IsLog(m) /\ m.reserved = l.reserved /\ m.received = l.received
        /\ m.fee = l.fee /\ m.deposits = l.deposits
    <3>1. CASE kind = "NextTurn"
      <4>1. \E x : m = [l EXCEPT !.arb = x]
        BY <3>1 DEF Says
      <4> QED BY <1>0, <4>1 DEF IsLog
    <3>2. CASE kind # "NextTurn"
      <4>1. m = l
        BY <1>2, <3>2 DEF Says
      <4> QED BY <1>0, <4>1
    <3> QED BY <3>1, <3>2
  <2>2. Same(v.b, w.b, <<"cidfps">>)
    BY <1>1, <1>2
  <2> HIDE DEF m
  <2>3. Mirrors(m, v.mem, v.b, ids)
    BY <1>1, <1>2, <2>1, OtherMirrors
  <2> QED BY <2>2, <2>3 DEF Same
<1>3. CASE kind \in {"RevertToPOW", "RevertToDPOS"}
  <2>1. PICK h, mode : IsRevert(v, w, ids, h, mode)
    BY <1>3 DEF IsPutIds
  <2>2. \A k : CidKey(k) => k \notin {<<"revertp">>, <<"revertps">>}
    BY DEF CidKey
  <2>3. \A k : CidKey(k) => Same(v.b, w.b, k)
    BY <2>1, <2>2 DEF IsRevert
  <2> QED BY <1>2, <1>3, <2>1, <2>3 DEF IsRevert
<1>4. CASE kind = "NextTurn"
  <2>1. IsTurn(v, w, ids, Tx[t].at, Tx[t].set)
    BY <1>4 DEF IsPutIds
  <2>2. \A k : CidKey(k) => k \notin TurnKeys(Tx[t].at, Tx[t].set)
    BY DEF CidKey, TurnKeys
  <2>3. \A k : CidKey(k) => Same(v.b, w.b, k)
    BY <2>1, <2>2 DEF IsTurn
  <2> QED BY <1>2, <1>4, <2>1, <2>3 DEF IsTurn
<1>5. CASE kind = "Deposit"
  <2>1. IsDeposit(v, w, Tx[t].deposits)
    BY <1>5 DEF IsPutIds
  <2>2. ASSUME NEW k, CidKey(k), k[1] # "deposit" PROVE Same(v.b, w.b, k)
    <3>1. \A d \in Tx[t].deposits : k # <<"deposit", d>>
      BY <2>2
    <3> QED BY <2>1, <3>1 DEF IsDeposit
  <2>3. /\ <<"rscid">>[1] # "deposit" /\ <<"rccid">>[1] # "deposit"
        /\ <<"cidfps">>[1] # "deposit" /\ \A x : <<"ccidfh", x>>[1] # "deposit"
    OBVIOUS
  <2>4. /\ Same(v.b, w.b, <<"rscid">>) /\ Same(v.b, w.b, <<"rccid">>)
        /\ Same(v.b, w.b, <<"cidfps">>) /\ \A x : Same(v.b, w.b, <<"ccidfh", x>>)
    BY <1>1, <2>2, <2>3
  <2>5. v.mem = w.mem
    BY <2>1 DEF IsDeposit
  <2>6. /\ IsLog(m) /\ m.reserved = l.reserved /\ m.received = l.received
        /\ m.fee = l.fee /\ m.deposits = l.deposits \cup Tx[t].deposits
    <3>1. m = [l EXCEPT !.deposits = @ \cup Tx[t].deposits]
      BY <1>5 DEF Says
    <3> QED BY <1>0, <3>1 DEF IsLog
  <2> HIDE DEF m
  <2>7. DepositsMirror(m.deposits, v.b, ids)
    <3>1. DepositsMirror(l.deposits \cup Tx[t].deposits, v.b, ids)
      BY <2>1, DepositsPut DEF Mirrors
    <3> QED BY <2>6, <3>1
  <2>8. MapMirrors(m.reserved, v.mem.reserved, v.b, ids, <<"rscid">>, Nat)
    BY <2>4, <2>5, <2>6, MapSame DEF Mirrors
  <2>9. MapMirrors(m.received, v.mem.received, v.b, ids, <<"rccid">>, Holding)
    BY <2>4, <2>5, <2>6, MapSame DEF Mirrors
  <2>10. FeeMirrors(m.fee, v.mem.feePos, v.b, ids)
    BY <2>4, <2>5, <2>6, FeeSame DEF Mirrors
  <2>11. Mirrors(m, v.mem, v.b, ids)
    BY <2>6, <2>7, <2>8, <2>9, <2>10 DEF Mirrors
  <2> QED BY <2>4, <2>11 DEF Same, m
<1>6. CASE kind \in {"Reserve", "Receive", "Fee"}
  <2>1. PICK tag \in {"rscid", "rccid", "ccidf"} : \E value : IsPut(v, w, <<tag, t>>, value)
    <3>1. CASE kind = "Reserve"
      BY <3>1 DEF IsPutIds
    <3>2. CASE kind = "Receive"
      BY <3>2 DEF IsPutIds
    <3>3. CASE kind = "Fee"
      <4>1. \E value : IsPut(v, w, <<"ccidf", t>>, value)
        BY <3>3 DEF IsPutIds
      <4> QED BY <4>1
    <3> QED BY <1>6, <3>1, <3>2, <3>3
  <2>2. \A k : CidKey(k) => k # <<tag, t>>
    BY <2>1 DEF CidKey
  <2>3. \A k : CidKey(k) => Same(v.b, w.b, k)
    BY <2>1, <2>2 DEF IsPut
  <2> QED BY <1>2, <1>6, <2>1, <2>3 DEF IsPut
<1>7. CASE kind = "Result"
  <2>1. PICK r : IsResults(r, w, ids, Tx[t].results, n) /\ v = r[Len(Tx[t].results)]
    BY <1>7 DEF IsPutIds
  <2> QED BY <1>7, <2>1, ResultsMirror
<1>8. CASE kind \notin {"RevertToPOW", "RevertToDPOS", "NextTurn", "Deposit",
                        "Reserve", "Receive", "Fee", "Result"}
  <2>1. v = w
    BY <1>8 DEF IsPutIds
  <2> QED BY <1>2, <1>8, <2>1 DEF Same
<1> QED BY <1>3, <1>4, <1>5, <1>6, <1>7, <1>8

(* Proposals are filed as they are.  No fee is filed under height 0, which   *)
(* stands for no fee at all.                                                 *)
FileKey(k) == \/ \E p : k \in {<<"rscid", p>>, <<"rccid", p>>, <<"ccidf", p>>}
              \/ k = <<"ccidfh", 0>>

LEMMA OnFileKeeps ==
  ASSUME NEW d, NEW e, OnFile(d), \A k : FileKey(k) => Same(e, d, k)
  PROVE  OnFile(e)
<1>1. ASSUME NEW p PROVE /\ Same(e, d, <<"rscid", p>>) /\ Same(e, d, <<"rccid", p>>)
                         /\ Same(e, d, <<"ccidf", p>>)
  <2>1. FileKey(<<"rscid", p>>) /\ FileKey(<<"rccid", p>>) /\ FileKey(<<"ccidf", p>>)
    BY DEF FileKey
  <2> QED BY <2>1
<1>2. Same(e, d, <<"ccidfh", 0>>)
  BY DEF FileKey
<1> QED BY <1>1, <1>2, OnFileSame

LEMMA ResultsOnFile ==
  ASSUME NEW w, NEW results \in Seq(Verdict), NEW n, NEW r, OnFile(ids), OnFile(w.b),
         IsResults(r, w, ids, results, n)
  PROVE  OnFile(r[Len(results)].b)
<1> DEFINE m == Len(results)
           R == {k \in 0 .. m : <<"ccidfh", 0>> \notin DOMAIN r[k].b}
<1>0. m \in Nat
  BY LenProperties
<1>1. 0 \in R
  BY <1>0 DEF IsResults, OnFile
<1>2. ASSUME NEW k \in 0 .. m - 1, k \in R PROVE k + 1 \in R
  <2>1. k + 1 \in 0 .. m /\ k + 1 \in 1 .. m /\ (k + 1) - 1 = k
    BY <1>0
  <2>2. IsResult(r[k + 1], r[k], ids, results[k + 1], n)
    <3>1. IsResult(r[k + 1], r[(k + 1) - 1], ids, results[k + 1], n)
      BY <2>1 DEF IsResults
    <3> QED BY <2>1, <3>1
  <2> DEFINE v == r[k + 1]
             u == r[k]
  <2>3. <<"ccidfh", 0>> # <<"rscid">> /\ <<"ccidfh", 0>> # <<"rccid">>
        /\ <<"ccidfh", 0>> # <<"cidfps">>
    BY KeysDiffer
  <2> HIDE DEF v, u
  <2>4. ASSUME NEW p, IsReserved(v, u, ids, p, n) PROVE v.b = u.b \/ Same(v.b, u.b, <<"ccidfh", 0>>)
    BY <2>3, <2>4 DEF IsReserved
  <2>5. ASSUME NEW p, IsReceived(v, u, ids, p, n) PROVE v.b = u.b \/ Same(v.b, u.b, <<"ccidfh", 0>>)
    BY <2>3, <2>5 DEF IsReceived
  <2>6. ASSUME NEW p, IsFee(v, u, ids, p) PROVE v.b = u.b \/ Same(v.b, u.b, <<"ccidfh", 0>>)
    <3> DEFINE fee == Lookup(ids, <<"ccidf", p>>)
    <3>1. CASE fee = None
      BY <2>6, <3>1 DEF IsFee
    <3>2. CASE fee # None
      <4>1. /\ p \in Hash /\ Tx[p].kind = "Fee"
            /\ fee = [rate |-> Tx[p].rate, workingHeight |-> Tx[p].at]
        BY <3>2 DEF Lookup, OnFile
      <4>2. fee.workingHeight # 0
        BY <4>1, TurnAssumption DEF Hash
      <4>3. <<"ccidfh", 0>> # <<"ccidfh", fee.workingHeight>>
        BY <4>2
      <4> QED BY <2>3, <2>6, <3>2, <4>3 DEF IsFee
    <3> QED BY <3>1, <3>2
  <2>7. v.b = u.b \/ Same(v.b, u.b, <<"ccidfh", 0>>)
    BY <2>2, <2>4, <2>5, <2>6, Zenon DEF IsResult, v, u
  <2>8. <<"ccidfh", 0>> \notin DOMAIN v.b
    BY <1>2, <2>7 DEF Same, u
  <2> QED BY <2>1, <2>8 DEF v
<1>3. m \in R
  <2> HIDE DEF R, m
  <2>1. 0 .. m \subseteq R
    BY <1>0, <1>1, <1>2, Verdicts!CountUp
  <2> QED BY <1>0, <2>1
<1>4. OnlyResults(r[m], w)
  BY <1>0 DEF IsResults
<1>5. ASSUME NEW k, FileKey(k) PROVE Same(r[m].b, w.b, k)
  <2>1. CASE k = <<"ccidfh", 0>>
    BY <1>3, <2>1 DEF Same, OnFile
  <2>2. CASE \E p : k \in {<<"rscid", p>>, <<"rccid", p>>, <<"ccidf", p>>}
    <3>1. PICK p : k \in {<<"rscid", p>>, <<"rccid", p>>, <<"ccidf", p>>}
      BY <2>2
    <3>2. ~ResultKey(<<"rscid", p>>) /\ ~ResultKey(<<"rccid", p>>) /\ ~ResultKey(<<"ccidf", p>>)
      BY DEF ResultKey
    <3> QED BY <1>4, <3>1, <3>2 DEF OnlyResults
  <2> QED BY <1>5, <2>1, <2>2 DEF FileKey
<1> QED BY <1>5, OnFileKeeps

LEMMA PutIdsOnFile ==
  ASSUME NEW w, NEW v, NEW t \in Hash, NEW n, OnFile(ids), OnFile(w.b),
         IsPutIds(v, w, t, n)
  PROVE  OnFile(v.b)
<1> DEFINE kind == Tx[t].kind
<1>1. CASE kind \in {"RevertToPOW", "RevertToDPOS"}
  <2>1. PICK h, mode : IsRevert(v, w, ids, h, mode)
    BY <1>1 DEF IsPutIds
  <2>2. \A k : FileKey(k) => k \notin {<<"revertp">>, <<"revertps">>}
    BY DEF FileKey
  <2> QED BY <2>1, <2>2, OnFileKeeps DEF IsRevert
<1>2. CASE kind = "NextTurn"
  <2>1. IsTurn(v, w, ids, Tx[t].at, Tx[t].set)
    BY <1>2 DEF IsPutIds
  <2>2. \A k : FileKey(k) => k \notin TurnKeys(Tx[t].at, Tx[t].set)
    BY DEF FileKey, TurnKeys
  <2>3. \A k : FileKey(k) => Same(v.b, w.b, k)
    BY <2>1, <2>2 DEF IsTurn
  <2> QED BY <2>3, OnFileKeeps
<1>3. CASE kind = "Deposit"
  <2>1. IsDeposit(v, w, Tx[t].deposits)
    BY <1>3 DEF IsPutIds
  <2>2. ASSUME NEW k, FileKey(k) PROVE Same(v.b, w.b, k)
    <3>1. \A d \in Tx[t].deposits : k # <<"deposit", d>>
      BY <2>2 DEF FileKey
    <3> QED BY <2>1, <3>1 DEF IsDeposit
  <2> QED BY <2>2, OnFileKeeps
<1>4. CASE kind = "Reserve"
  <2>1. IsPut(v, w, <<"rscid", t>>, Tx[t].ids)
    BY <1>4 DEF IsPutIds
  <2> QED BY <1>4, <2>1 DEF IsPut, OnFile, Same
<1>5. CASE kind = "Receive"
  <2>1. IsPut(v, w, <<"rccid", t>>, [id \in Tx[t].ids |-> Tx[t].did])
    BY <1>5 DEF IsPutIds
  <2> QED BY <1>5, <2>1 DEF IsPut, OnFile, Same
<1>6. CASE kind = "Fee"
  <2>1. IsPut(v, w, <<"ccidf", t>>, [rate |-> Tx[t].rate, workingHeight |-> Tx[t].at])
    BY <1>6 DEF IsPutIds
  <2> QED BY <1>6, <2>1 DEF IsPut, OnFile, Same
<1>7. CASE kind = "Result"
  <2>1. PICK r : IsResults(r, w, ids, Tx[t].results, n) /\ v = r[Len(Tx[t].results)]
    BY <1>7 DEF IsPutIds
  <2>2. Tx[t].results \in Seq(Verdict)
    BY <1>7, TurnAssumption DEF Hash, Verdict
  <2> QED BY <2>1, <2>2, ResultsOnFile
<1>8. CASE kind \notin {"RevertToPOW", "RevertToDPOS", "NextTurn", "Deposit",
                        "Reserve", "Receive", "Fee", "Result"}
  BY <1>8 DEF IsPutIds
<1> QED BY <1>1, <1>2, <1>3, <1>4, <1>5, <1>6, <1>7, <1>8

(* The batch is written; the next queries read the database or the maps.     *)
LEMMA MirrorsCommit ==
  ASSUME NEW l, NEW m, NEW b, NEW db, NEW e, Mirrors(l, m, b, db),
         \A key : Lookup(e, key) = Lookup(Over(b, db), key)
  PROVE  Mirrors(l, m, <<>>, e) /\ Mirrors(l, FreshMem, <<>>, e)
<1>1. FreshMem.reserved = <<>> /\ FreshMem.received = <<>> /\ FreshMem.feePos = <<>>
  BY FreshMemory
<1>2. /\ MapMirrors(l.reserved, m.reserved, <<>>, e, <<"rscid">>, Nat)
      /\ MapMirrors(l.reserved, <<>>, <<>>, e, <<"rscid">>, Nat)
  BY MapCommits DEF Mirrors
<1>3. /\ MapMirrors(l.received, m.received, <<>>, e, <<"rccid">>, Holding)
      /\ MapMirrors(l.received, <<>>, <<>>, e, <<"rccid">>, Holding)
  BY MapCommits DEF Mirrors
<1>4. FeeMirrors(l.fee, m.feePos, <<>>, e) /\ FeeMirrors(l.fee, <<>>, <<>>, e)
  BY FeeCommits DEF Mirrors
<1>5. DepositsMirror(l.deposits, <<>>, e)
  <2>1. DOMAIN <<>> = {}
    OBVIOUS
  <2>2. \A key : Lookup(Over(<<>>, e), key) = Lookup(Over(b, db), key)
    BY <2>1, LookupOver
  <2> QED BY <2>2 DEF Mirrors, DepositsMirror
<1>6. IsLog(l)
  BY DEF Mirrors
<1> QED BY <1>1, <1>2, <1>3, <1>4, <1>5, <1>6 DEF Mirrors

(* Nothing is collected: what was said before the block is what was said up  *)
(* to here.                                                                  *)
LEMMA MapQuiet ==
  ASSUME NEW f, NEW h, NEW g, NEW g0, NEW b, NEW db, NEW key, NEW V, DOMAIN b = {},
         MapMirrors(f, g, b, db, key, V), MapMirrors(h, g0, <<>>, db, key, V)
  PROVE  MapMirrors(h, g, <<>>, db, key, V)
<1>0. DOMAIN <<>> = {}
  OBVIOUS
<1>1. Lookup(Over(b, db), key) = Lookup(Over(<<>>, db), key)
  BY <1>0, LookupOver
<1>2. ListOf(Over(b, db), key) = ListOf(Over(<<>>, db), key)
  BY <1>1, ListOfLookup
<1>3. Alike(h, MapRead(g, db, key))
  BY <1>2 DEF MapMirrors, Alike
<1> QED BY <1>3 DEF MapMirrors

LEMMA MirrorsQuiet ==
  ASSUME NEW l, NEW h, NEW m, NEW b, NEW db, DOMAIN b = {}, Mirrors(l, m, b, db),
         Mirrors(h, FreshMem, <<>>, db)
  PROVE  Mirrors(h, m, <<>>, db)
<1>0. DOMAIN <<>> = {}
  OBVIOUS
<1>1. MapMirrors(h.reserved, m.reserved, <<>>, db, <<"rscid">>, Nat)
  BY MapQuiet DEF Mirrors
<1>2. MapMirrors(h.received, m.received, <<>>, db, <<"rccid">>, Holding)
  BY MapQuiet DEF Mirrors
<1>3. CacheOf(m.feePos, <<>>, db, <<"cidfps">>)
  <2>1. Same(<<>>, b, <<"cidfps">>)
    BY <1>0 DEF Same
  <2> QED BY <2>1, CacheSame DEF Mirrors, FeeMirrors
<1>4. FeeMirrors(h.fee, m.feePos, <<>>, db)
  BY <1>3 DEF Mirrors, FeeMirrors
<1> QED BY <1>1, <1>2, <1>4 DEF Mirrors

(* A query fills the maps and the list in memory.                            *)
LEMMA MirrorsFill ==
  ASSUME NEW l, NEW m, NEW k, NEW b, NEW db, IsMem(m), Mirrors(l, m, b, db),
         k.reserved = FillReserved(db, m).reserved,
         k.received = FillReceived(db, m).received,
         k.feePos = FillFeePos(db, m).feePos
  PROVE  Mirrors(l, k, b, db)
<1>1. MapMirrors(l.reserved, k.reserved, b, db, <<"rscid">>, Nat)
  BY FillsRead, MapFills DEF Mirrors
<1>2. MapMirrors(l.received, k.received, b, db, <<"rccid">>, Holding)
  BY FillsRead, MapFills DEF Mirrors
<1>3. k.feePos = IF m.feePos = <<>> THEN ListOf(db, <<"cidfps">>) ELSE m.feePos
  BY DEF FillFeePos, getCurrentCustomIDFeePositions, IsMem
<1>4. CacheOf(k.feePos, b, db, <<"cidfps">>)
  BY <1>3, FillCache DEF Mirrors, FeeMirrors
<1>5. FeeMirrors(l.fee, k.feePos, b, db)
  BY <1>4 DEF Mirrors, FeeMirrors
<1> QED BY <1>1, <1>2, <1>5 DEF Mirrors

-----------------------------------------------------------------------------
(* The invariant: what is filed; and as long as no batch was given up, what  *)
(* the transactions of committed blocks and of the one in progress said.     *)

FileInv == OnFile(ids) /\ OnFile(batch.ids)

(* The fee list is in the batch only when one of the transactions put so far *)
(* approves a fee.                                                           *)
FeeOnce(b, list, k) ==
  <<"cidfps">> \in DOMAIN b => \E i \in 1 .. k : FeeResults(list[i]) # {}

SaidSoFar(l, j, m, b, db) ==
  IF j.op = "put"
  THEN /\ FeeOnce(b, j.list, HowFar(j))
       /\ \A r : IsSaid(r, l, j.list, Height[j.at]) => Mirrors(r[HowFar(j)], m, b, db)
  ELSE Mirrors(l, m, b, db)
CidInv ==
  "lost" \notin wrong =>
    Mirrors(log, FreshMem, <<>>, ids) /\ SaidSoFar(log, job, mem, batch.ids, ids)

(* A block begins, or there is none.                                         *)
LEMMA SaidAtFirst ==
  ASSUME NEW l, NEW j, NEW m, NEW db, Mirrors(l, m, <<>>, db),
         j.op = "put" => HowFar(j) = 0
  PROVE  SaidSoFar(l, j, m, <<>>, db)
<1>1. DOMAIN <<>> = {}
  OBVIOUS
<1>2. \A r : IsSaid(r, l, j.list, Height[j.at]) => r[0] = l
  BY DEF IsSaid
<1>3. j.op = "put" => FeeOnce(<<>>, j.list, HowFar(j))
  BY <1>1 DEF FeeOnce
<1> QED BY <1>2, <1>3 DEF SaidSoFar

FeesApart(list) ==
  \A i, j \in 1 .. Len(list) :
    \A x \in FeeResults(list[i]), y \in FeeResults(list[j]) : i = j /\ x = y

LEMMA OneFee ==
  ASSUME OneFeePerBlock, NEW b \in Block, NEW list \in {BlockTxs[b], <<>>}
  PROVE  FeesApart(list)
<1>1. CASE list = BlockTxs[b]
  <2>1. DOMAIN BlockTxs[b] = 1 .. Len(list)
    BY <1>1, ListFacts
  <2>2. ASSUME NEW i \in 1 .. Len(list), NEW j \in 1 .. Len(list),
               NEW x \in FeeResults(list[i]), NEW y \in FeeResults(list[j])
        PROVE  i = j /\ x = y
    <3>1. i \in DOMAIN BlockTxs[b] /\ j \in DOMAIN BlockTxs[b]
      BY <2>1
    <3>2. x \in FeeResults(BlockTxs[b][i]) /\ y \in FeeResults(BlockTxs[b][j])
      BY <1>1, <2>2, Zenon
    <3> QED BY <3>1, <3>2, Zenon DEF OneFeePerBlock
  <2> QED BY <2>2 DEF FeesApart
<1>2. CASE list = <<>>
  BY <1>2 DEF FeesApart
<1> QED BY <1>1, <1>2

LEMMA PutTxCid ==
  ASSUME OneFeePerBlock, Sound, SortedInv, InProgress(job), FileInv, CidInv, PutTx
  PROVE  FileInv' /\ CidInv'
<1> DEFINE t == Head(job.left)
           n == Height[job.at]
           v == PutIds(Collecting, t, n)
           far == HowFar(job)
<1>1. /\ t \in Hash /\ n \in Nat /\ IsW(Collecting) /\ IsPutIds(v, Collecting, t, n)
      /\ ids' = ids /\ log' = log /\ mem' = v.mem /\ job.op = "put" /\ job.left # <<>>
      /\ \/ wrong' = wrong \cup {"lost"} /\ batch' = NoBatch
         \/ /\ ~v.err /\ batch'.ids = v.b /\ wrong' = wrong
            /\ job' = [op |-> "put", at |-> job.at, list |-> job.list,
                       left |-> Tail(job.left), for |-> job.for, old |-> job.old]
  BY PutTxIds DEF SortedInv
<1>2. OnFile(ids) /\ OnFile(Collecting.b) /\ Collecting.b = batch.ids
      /\ Collecting.mem = mem
  BY DEF FileInv, Collecting
<1>3. OnFile(v.b)
  BY <1>1, <1>2, PutIdsOnFile
<1>4. CASE wrong' = wrong \cup {"lost"} /\ batch' = NoBatch
  <2>1. OnFile(<<>>) /\ batch'.ids = <<>>
    <3>1. DOMAIN <<>> = {}
      OBVIOUS
    <3> QED BY <1>4, <3>1 DEF OnFile, NoBatch
  <2> QED BY <1>1, <1>2, <1>4, <2>1 DEF FileInv, CidInv
<1>5. CASE /\ ~v.err /\ batch'.ids = v.b /\ wrong' = wrong
           /\ job' = [op |-> "put", at |-> job.at, list |-> job.list,
                      left |-> Tail(job.left), for |-> job.for, old |-> job.old]
  <2>1. FileInv'
    BY <1>1, <1>2, <1>3, <1>5 DEF FileInv
  <2> SUFFICES ASSUME "lost" \notin wrong PROVE CidInv'
    BY <1>5, <2>1 DEF CidInv
  <2>2. /\ Mirrors(log, FreshMem, <<>>, ids)
        /\ FeeOnce(Collecting.b, job.list, far)
        /\ \A r : IsSaid(r, log, job.list, n) =>
                    Mirrors(r[far], Collecting.mem, Collecting.b, ids)
    BY <1>1, <1>2 DEF CidInv, SaidSoFar
  <2>3. /\ HowFar(job') = far + 1 /\ job'.list = job.list /\ job'.at = job.at
        /\ far \in Nat /\ far + 1 \in 1 .. Len(job.list) /\ t = job.list[far + 1]
    BY <1>1, <1>5, PutTxProgress
  <2>4. job.at \in Block /\ job.list \in {BlockTxs[job.at], <<>>} /\ Len(job.list) \in Nat
    BY <1>1, ListFacts DEF InProgress
  <2>5. FeesApart(job.list)
    BY <2>4, OneFee
  <2>6. \A i \in 1 .. far + 1 : i \in 1 .. far \/ i = far + 1
    BY <2>3
  <2>7. \A i \in 1 .. far : i \in 1 .. Len(job.list) /\ i # far + 1 /\ i \in 1 .. far + 1
    BY <2>3, <2>4
  <2> HIDE DEF v, t, n, far
  <2>8. \A x, y \in FeeResults(t) : x = y
    BY <2>3, <2>5 DEF FeesApart
  <2>9. FeeResults(t) # {} => <<"cidfps">> \notin DOMAIN Collecting.b
    <3> SUFFICES ASSUME FeeResults(t) # {}, <<"cidfps">> \in DOMAIN Collecting.b
                 PROVE  FALSE
      OBVIOUS
    <3>1. PICK i \in 1 .. far : FeeResults(job.list[i]) # {}
      BY <2>2 DEF FeeOnce
    <3>2. i \in 1 .. Len(job.list) /\ i # far + 1
      BY <2>7
    <3> QED BY <2>3, <2>5, <3>1, <3>2 DEF FeesApart
  <2>10. OnFile(ids) /\ Heights(ListOf(ids, <<"cidfps">>))
    BY <1>2, FormedLists DEF SortedInv
  <2>11. ASSUME NEW l, Mirrors(l, Collecting.mem, Collecting.b, ids)
         PROVE  /\ Mirrors(Says(l, t, n), v.mem, v.b, ids)
                /\ <<"cidfps">> \in DOMAIN v.b =>
                     <<"cidfps">> \in DOMAIN Collecting.b \/ FeeResults(t) # {}
    BY <1>1, <1>5, <2>8, <2>9, <2>10, <2>11, PutIdsMirror
  <2>12. ASSUME NEW r, IsSaid(r, log, job.list, n)
         PROVE  /\ Mirrors(r[far + 1], v.mem, v.b, ids)
                /\ <<"cidfps">> \in DOMAIN v.b =>
                     <<"cidfps">> \in DOMAIN Collecting.b \/ FeeResults(t) # {}
    <3>1. r[far + 1] = Says(r[far], t, n)
      <4>1. (far + 1) - 1 = far
        BY <2>3
      <4>2. r[far + 1] = Says(r[(far + 1) - 1], job.list[far + 1], n)
        BY <2>3, <2>12 DEF IsSaid
      <4> QED BY <2>3, <4>1, <4>2
    <3>2. Mirrors(r[far], Collecting.mem, Collecting.b, ids)
      BY <2>2, <2>12
    <3> QED BY <2>11, <3>1, <3>2
  <2>13. FeeOnce(v.b, job.list, far + 1)
    <3> SUFFICES ASSUME <<"cidfps">> \in DOMAIN v.b
                 PROVE  \E i \in 1 .. far + 1 : FeeResults(job.list[i]) # {}
      BY DEF FeeOnce
    <3>1. \E r : IsSaid(r, log, job.list, n)
      BY <2>4, ListFacts, SaidRun
    <3>2. <<"cidfps">> \in DOMAIN Collecting.b \/ FeeResults(t) # {}
      BY <2>12, <3>1
    <3>3. CASE <<"cidfps">> \in DOMAIN Collecting.b
      BY <2>2, <2>7, <3>3 DEF FeeOnce
    <3>4. CASE FeeResults(t) # {}
      <4>1. far + 1 \in 1 .. far + 1
        BY <2>3
      <4> QED BY <2>3, <3>4, <4>1
    <3> QED BY <3>2, <3>3, <3>4
  <2>14. SaidSoFar(log, job', v.mem, v.b, ids)
    <3>1. job'.op = "put"
      BY <1>5
    <3> QED BY <2>3, <2>12, <2>13, <3>1 DEF SaidSoFar, n
  <2>15. SaidSoFar(log', job', mem', batch'.ids, ids')
    BY <1>1, <1>5, <2>14, Zenon DEF v
  <2> QED BY <1>1, <2>2, <2>15 DEF CidInv, SaidSoFar, HowFar
<1> QED BY <1>1, <1>4, <1>5

LEMMA CommitCid ==
  ASSUME Sound, InProgress(job), FileInv, CidInv, CommitTxs
  PROVE  FileInv' /\ CidInv'
<1> DEFINE list == job.list
           n == Height[job.at]
           b == batch.ids
<1>1. /\ job.op = "put" /\ job.left = <<>> /\ ids' = Write(ids, b) /\ mem' = mem
      /\ log' = SaysAll(log, list, n)
      /\ wrong' = IF Overwrites THEN wrong \cup {"overwritten"} ELSE wrong
  BY DEF CommitTxs, Working, SaysAll
<1>2. HowFar(job) = Len(list) /\ list \in Seq(Hash) /\ Len(list) \in Nat
  BY <1>1, AllProgress
<1>3. batch'.ids = <<>> /\ (job'.op = "put" => HowFar(job') = 0)
  BY CommitTxsBegins DEF Begins
<1>4. FileInv'
  <2>1. OnFile(<<>>)
    <3>1. DOMAIN <<>> = {}
      OBVIOUS
    <3> QED BY <3>1 DEF OnFile
  <2>2. OnFile(ids')
    BY <1>1, OnFileWrite DEF FileInv
  <2> QED BY <1>3, <2>1, <2>2 DEF FileInv
<1> SUFFICES ASSUME "lost" \notin wrong' PROVE CidInv'
  BY <1>4 DEF CidInv
<1>5. "lost" \notin wrong
  BY <1>1
<1> HIDE DEF list, n, b
<1>6. PICK r : IsSaid(r, log, list, n) /\ log' = r[Len(list)]
  BY <1>1, <1>2, SaidRun
<1>7. Mirrors(log', mem, b, ids)
  <2>1. Mirrors(r[HowFar(job)], mem, b, ids)
    BY <1>1, <1>5, <1>6 DEF CidInv, SaidSoFar, list, n, b
  <2>2. log' = r[HowFar(job)]
    BY <1>2, <1>6
  <2> QED BY <2>1, <2>2, Zenon
<1>8. \A key : Lookup(ids', key) = Lookup(Over(b, ids), key)
  BY <1>1, LookupWrite
<1>9. Mirrors(log', mem, <<>>, ids') /\ Mirrors(log', FreshMem, <<>>, ids')
  BY <1>7, <1>8, MirrorsCommit
<1>10. SaidSoFar(log', job', mem, <<>>, ids')
  BY <1>3, <1>9, SaidAtFirst
<1>11. SaidSoFar(log', job', mem', batch'.ids, ids')
  BY <1>1, <1>3, <1>10, Zenon
<1> QED BY <1>9, <1>11 DEF CidInv, SaidSoFar, HowFar

LEMMA NextCid ==
  ASSUME OneFeePerBlock, Sound, SortedInv, InProgress(job), FileInv, CidInv, [Next]_vars
  PROVE  FileInv' /\ CidInv'
<1>0. /\ DOMAIN <<>> = {} /\ NoBatch.ids = <<>> /\ OnFile(<<>>)
  <2>1. DOMAIN <<>> = {}
    OBVIOUS
  <2> QED BY <2>1 DEF NoBatch, OnFile
<1>1. OnFile(ids) /\ OnFile(batch.ids)
  BY DEF FileInv
<1>2. ASSUME "lost" \notin wrong
      PROVE  /\ Mirrors(log, FreshMem, <<>>, ids)
             /\ SaidSoFar(log, job, mem, batch.ids, ids)
  BY <1>2 DEF CidInv
<1>3. ASSUME SaidSoFar(log', job', mem', batch'.ids, ids'), Mirrors(log', FreshMem, <<>>, ids')
      PROVE  CidInv'
  BY <1>3 DEF CidInv, SaidSoFar, HowFar
<1>4. ASSUME CommitFails PROVE FileInv' /\ CidInv'
  <2>1. /\ job'.op = "done" /\ batch'.ids = <<>> /\ UNCHANGED <<ids, mem, log>>
        /\ job.op = "put" /\ job.left = <<>>
        /\ wrong' = IF DOMAIN batch.ids # {} THEN wrong \cup {"lost"} ELSE wrong
    BY <1>0, <1>4 DEF CommitFails, Done, data, Working
  <2>2. FileInv'
    BY <1>0, <1>1, <2>1 DEF FileInv
  <2> SUFFICES ASSUME "lost" \notin wrong' PROVE CidInv'
    BY <2>2 DEF CidInv
  <2>3. DOMAIN batch.ids = {} /\ wrong' = wrong
    BY <2>1
  <2>4. job.list \in Seq(Hash)
    BY <2>1, AllProgress
  <2>5. PICK r : IsSaid(r, log, job.list, Height[job.at])
    BY <2>4, SaidRun
  <2>6. Mirrors(r[HowFar(job)], mem, batch.ids, ids) /\ Mirrors(log, FreshMem, <<>>, ids)
    BY <1>2, <2>1, <2>3, <2>5 DEF SaidSoFar
  <2>7. Mirrors(log, mem, <<>>, ids)
    BY <2>3, <2>6, MirrorsQuiet
  <2>8. SaidSoFar(log, job', mem, <<>>, ids)
    BY <2>1, <2>7, SaidAtFirst
  <2> QED BY <1>3, <2>1, <2>6, <2>8
<1>5. ASSUME Detach PROVE FileInv' /\ CidInv'
  <2>1. /\ ids' = Write(ids, <<>>) /\ mem' = mem /\ log' = log /\ wrong' = wrong
        /\ batch.ids = <<>> /\ batch'.ids = <<>> /\ job.op = "detach"
    BY <1>0, <1>5, DetachIds DEF Detach
  <2>2. FileInv'
    BY <1>0, <1>1, <2>1, OnFileWrite DEF FileInv
  <2> SUFFICES ASSUME "lost" \notin wrong' PROVE CidInv'
    BY <2>2 DEF CidInv
  <2>3. Mirrors(log, mem, <<>>, ids)
    BY <1>2, <2>1 DEF SaidSoFar
  <2>4. \A key : Lookup(ids', key) = Lookup(Over(<<>>, ids), key)
    BY <2>1, LookupWrite
  <2>5. Mirrors(log, mem, <<>>, ids') /\ Mirrors(log, FreshMem, <<>>, ids')
    BY <2>3, <2>4, MirrorsCommit
  <2>6. job'.op = "put" => HowFar(job') = 0
    BY <1>5, DetachBegins DEF Begins
  <2>7. SaidSoFar(log, job', mem, <<>>, ids')
    BY <2>5, <2>6, SaidAtFirst
  <2> QED BY <1>3, <2>1, <2>5, <2>7
<1>6. ASSUME Restart PROVE FileInv' /\ CidInv'
  <2>1. /\ job'.op = "idle" /\ batch'.ids = <<>> /\ mem' = FreshMem
        /\ UNCHANGED <<ids, log, wrong>>
    BY <1>0, <1>6 DEF Restart, Idle, data, past
  <2>2. FileInv'
    BY <1>0, <1>1, <2>1 DEF FileInv
  <2> SUFFICES ASSUME "lost" \notin wrong' PROVE CidInv'
    BY <2>2 DEF CidInv
  <2>3. Mirrors(log, FreshMem, <<>>, ids)
    BY <1>2, <2>1
  <2>4. SaidSoFar(log, job', FreshMem, <<>>, ids)
    BY <2>1, <2>3, SaidAtFirst
  <2> QED BY <1>3, <2>1, <2>3, <2>4
<1>7. ASSUME Query PROVE FileInv' /\ CidInv'
  <2>1. /\ UNCHANGED <<ids, batch, job, log, wrong>>
        /\ mem'.reserved = FillReserved(ids, mem).reserved
        /\ mem'.received = FillReceived(ids, mem).received
        /\ mem'.feePos = FillFeePos(ids, mem).feePos /\ IsMem(mem)
    BY <1>7, QueryMem DEF SortedInv
  <2>2. FileInv'
    BY <1>1, <2>1 DEF FileInv
  <2> SUFFICES ASSUME "lost" \notin wrong' PROVE CidInv'
    BY <2>2 DEF CidInv
  <2>3. /\ Mirrors(log, FreshMem, <<>>, ids)
        /\ SaidSoFar(log, job, mem, batch.ids, ids)
    BY <1>2, <2>1
  <2>4. \A l : Mirrors(l, mem, batch.ids, ids) => Mirrors(l, mem', batch.ids, ids)
    BY <2>1, MirrorsFill
  <2>5. SaidSoFar(log, job, mem', batch.ids, ids)
    BY <2>3, <2>4 DEF SaidSoFar
  <2> QED BY <1>3, <2>1, <2>3, <2>5
<1>8. ASSUME UNCHANGED <<ids, batch, mem, log>>, wrong \subseteq wrong',
             \/ UNCHANGED job \/ BlockProcessed
             \/ \E b \in Block \ {Genesis}, h \in Handler : CommitBlock(b, h)
      PROVE  FileInv' /\ CidInv'
  <2>1. FileInv'
    BY <1>1, <1>8 DEF FileInv
  <2> SUFFICES ASSUME "lost" \notin wrong' PROVE CidInv'
    BY <2>1 DEF CidInv
  <2>2. /\ Mirrors(log, FreshMem, <<>>, ids)
        /\ SaidSoFar(log, job, mem, batch.ids, ids)
    BY <1>2, <1>8
  <2>3. CASE UNCHANGED job
    BY <1>3, <1>8, <2>2, <2>3
  <2>4. CASE BlockProcessed
    <3>1. job.op = "done" /\ job'.op = "idle"
      BY <2>4 DEF BlockProcessed, Idle
    <3>2. SaidSoFar(log, job', mem, batch.ids, ids)
      BY <2>2, <3>1 DEF SaidSoFar
    <3> QED BY <1>3, <1>8, <2>2, <3>2
  <2>5. CASE \E b \in Block \ {Genesis}, h \in Handler : CommitBlock(b, h)
    <3>1. job.op = "idle"
      BY <2>5 DEF CommitBlock, Idle
    <3>2. batch'.ids = <<>> /\ (job'.op = "put" => HowFar(job') = 0)
      BY <2>5, CommitBlockBegins DEF Begins
    <3>3. Mirrors(log, mem, <<>>, ids)
      BY <1>8, <2>2, <3>1, <3>2 DEF SaidSoFar
    <3>4. SaidSoFar(log, job', mem, <<>>, ids)
      BY <3>2, <3>3, SaidAtFirst
    <3> QED BY <1>3, <1>8, <2>2, <3>2, <3>4
  <2> QED BY <1>8, <2>3, <2>4, <2>5
<1> QED BY <1>4, <1>5, <1>6, <1>7, <1>8, PutTxCid, CommitCid, OtherSteps

LEMMA CidInvariance ==
  ASSUME OneFeePerBlock
  PROVE  Spec => [](FileInv /\ CidInv)
<1>1. Init => FileInv /\ CidInv
  <2> SUFFICES ASSUME Init PROVE FileInv /\ CidInv
    OBVIOUS
  <2>1. /\ job.op = "idle" /\ ids = <<>> /\ batch.ids = <<>> /\ mem = FreshMem
        /\ log = [arb |-> <<>>, reserved |-> <<>>, received |-> <<>>, fee |-> <<>>,
                  deposits |-> {}]
    BY DEF Init, Idle, NoBatch
  <2>2. DOMAIN <<>> = {} /\ OnFile(<<>>)
    <3>1. DOMAIN <<>> = {}
      OBVIOUS
    <3> QED BY <3>1 DEF OnFile
  <2>3. /\ FreshMem.reserved = <<>> /\ FreshMem.received = <<>> /\ FreshMem.feePos = <<>>
    BY FreshMemory
  <2>4. \A key : Lookup(Over(<<>>, <<>>), key) = None /\ Lookup(<<>>, key) = None
    BY <2>2, LookupOver DEF Lookup
  <2>5. \A key : ListOf(Over(<<>>, <<>>), key) = <<>> /\ ListOf(<<>>, key) = <<>>
    BY <2>4 DEF ListOf
  <2>6. /\ IsLog(log) /\ log.reserved = <<>> /\ log.received = <<>> /\ log.fee = <<>>
        /\ log.deposits = {}
    BY <2>1 DEF IsLog
  <2>7. ASSUME NEW key, NEW V PROVE MapMirrors(<<>>, <<>>, <<>>, <<>>, key, V)
    BY <2>2, <2>5 DEF MapMirrors, MapRead, Alike
  <2>8. FeeMirrors(<<>>, <<>>, <<>>, <<>>)
    BY <2>2, <2>5 DEF FeeMirrors, CacheOf, Elems
  <2>9. DepositsMirror({}, <<>>, <<>>)
    BY <2>4 DEF DepositsMirror
  <2>10. Mirrors(log, FreshMem, <<>>, <<>>)
    BY <2>3, <2>6, <2>7, <2>8, <2>9 DEF Mirrors
  <2>11. SaidSoFar(log, job, FreshMem, <<>>, <<>>)
    BY <2>1, <2>10, SaidAtFirst
  <2> QED BY <2>1, <2>2, <2>10, <2>11 DEF FileInv, CidInv
<1>2. QueueInv /\ SortedInv /\ TurnsInv /\ FileInv /\ CidInv /\ [Next]_vars
        => FileInv' /\ CidInv'
  BY NextCid DEF QueueInv, TurnsInv
<1> QED BY <1>1, <1>2, QueueInvariance, SortedInvariance, TurnsInvariance, PTL DEF Spec

(* Names that count, by whatever height each was granted at.                 *)
LEMMA ConfirmedNames ==
  ASSUME NEW info, Changes(info), NEW n \in Nat, NEW f, NEW g, Alike(f, g)
  PROVE  /\ (\A x \in DOMAIN f : f[x] \in Nat) =>
              {x \in DOMAIN g : isProposalConfirmed(n, g[x], info)} =
                {x \in DOMAIN f : Confirmed(n, f[x], info)}
         /\ (\A x \in DOMAIN f : f[x] \in Holding) =>
              [x \in {i \in DOMAIN g : isProposalConfirmed(n, g[i].height, info)}
                 |-> g[x].did] =
                [x \in {i \in DOMAIN f : Confirmed(n, f[i].height, info)} |-> f[x].did]
<1>0. DOMAIN g = DOMAIN f /\ \A x \in DOMAIN f : f[x] = g[x]
  BY DEF Alike
<1>1. ASSUME \A x \in DOMAIN f : f[x] \in Nat
      PROVE  {x \in DOMAIN g : isProposalConfirmed(n, g[x], info)} =
               {x \in DOMAIN f : Confirmed(n, f[x], info)}
  <2>1. ASSUME NEW x \in DOMAIN f
        PROVE  isProposalConfirmed(n, g[x], info) <=> Confirmed(n, f[x], info)
    <3>1. isProposalConfirmed(n, f[x], info) <=> Confirmed(n, f[x], info)
      BY <1>1, ConfirmationLoop
    <3>2. g[x] = f[x]
      BY <1>0
    <3> QED BY <3>1, <3>2, Zenon
  <2> QED BY <1>0, <2>1
<1>2. ASSUME \A x \in DOMAIN f : f[x] \in Holding
      PROVE  [x \in {i \in DOMAIN g : isProposalConfirmed(n, g[i].height, info)}
                |-> g[x].did] =
               [x \in {i \in DOMAIN f : Confirmed(n, f[i].height, info)} |-> f[x].did]
  <2>1. ASSUME NEW x \in DOMAIN f
        PROVE  isProposalConfirmed(n, g[x].height, info) <=> Confirmed(n, f[x].height, info)
    <3>1. f[x].height \in Nat
      BY <1>2 DEF Holding
    <3>2. isProposalConfirmed(n, f[x].height, info) <=> Confirmed(n, f[x].height, info)
      BY <3>1, ConfirmationLoop
    <3>3. g[x] = f[x]
      BY <1>0
    <3> QED BY <3>2, <3>3, Zenon
  <2> DEFINE S == {i \in DOMAIN g : isProposalConfirmed(n, g[i].height, info)}
             T == {i \in DOMAIN f : Confirmed(n, f[i].height, info)}
  <2>2. S = T /\ T \subseteq DOMAIN f
    BY <1>0, <2>1
  <2> HIDE DEF S, T
  <2>3. [x \in S |-> g[x].did] = [x \in T |-> f[x].did]
    BY <1>0, <2>2
  <2> QED BY <2>3 DEF S, T
<1> QED BY <1>1, <1>2

(* The fee at a height, from what was said.                                  *)
LEMMA FeeFound ==
  ASSUME IsMem(mem), Heights(ListOf(ids, <<"cidfps">>)), OnFile(ids),
         FeeMirrors(log.fee, mem.feePos, <<>>, ids), NEW n \in Nat
  PROVE  GetCustomIDFeeRate(ids, mem, n) = FeeAt(n)
<1> DEFINE pos == ListOf(ids, <<"cidfps">>)
           fee == log.fee
           under == {p \in DOMAIN fee : p < n}
           at == findCustomIDWorkingHeightByCurrentHeight(pos, n)
<1>0. DOMAIN <<>> = {}
  OBVIOUS
<1>1. \A key : Lookup(Over(<<>>, ids), key) = Lookup(ids, key)
  BY <1>0, LookupOver
<1>2. ListOf(Over(<<>>, ids), <<"cidfps">>) = pos
  BY <1>1, ListOfLookup
<1>3. FillFeePos(ids, mem).feePos = pos
  <2>1. FillFeePos(ids, mem).feePos = Filled(mem.feePos, ids, <<"cidfps">>)
    BY DEF FillFeePos, IsMem, Filled, getCurrentCustomIDFeePositions
  <2>2. CacheOf(mem.feePos, <<>>, ids, <<"cidfps">>)
    BY DEF FeeMirrors
  <2>3. Filled(mem.feePos, ids, <<"cidfps">>) = pos
    BY <1>0, <2>2, QuietCache
  <2> QED BY <2>1, <2>3
<1>4. /\ Elems(pos) = DOMAIN fee
      /\ \A p \in DOMAIN fee : /\ p \in Nat \ {0} /\ fee[p] # None
                               /\ Lookup(ids, <<"ccidfh", p>>) = fee[p]
  BY <1>1, <1>2 DEF FeeMirrors
<1>5. GetCustomIDFeeRate(ids, mem, n) =
        IF pos = <<>> THEN Error
        ELSE getControversialCustomIDFeeRateByHeight(ids, at)
  BY <1>3 DEF GetCustomIDFeeRate
<1>6. FeeAt(n) = IF under = {} THEN Error ELSE fee[Top(under)]
  BY DEF FeeAt
<1> HIDE DEF pos, fee
<1>7. /\ pos = <<>> <=> DOMAIN fee = {}
      /\ at = IF under = {} THEN 0 ELSE Top(under)
      /\ under # {} => Top(under) \in under
  <2>1. Heights(pos)
    BY DEF pos
  <2>2. /\ pos = <<>> <=> Elems(pos) = {}
        /\ at = IF {p \in Elems(pos) : p < n} = {} THEN 0 ELSE Top({p \in Elems(pos) : p < n})
        /\ {p \in Elems(pos) : p < n} # {} =>
             Top({p \in Elems(pos) : p < n}) \in {p \in Elems(pos) : p < n}
    BY <2>1, SlotFound
  <2> QED BY <1>4, <2>2
<1> HIDE DEF at
<1>8. CASE under = {}
  <2>1. at = 0
    BY <1>7, <1>8
  <2>2. Lookup(ids, <<"ccidfh", 0>>) = None
    BY DEF OnFile, Lookup
  <2>3. getControversialCustomIDFeeRateByHeight(ids, at) = Error
    BY <2>1, <2>2 DEF getControversialCustomIDFeeRateByHeight
  <2> QED BY <1>5, <1>6, <1>8, <2>3
<1>9. CASE under # {}
  <2>1. at = Top(under) /\ at \in under
    BY <1>7, <1>9
  <2>2. at \in DOMAIN fee /\ pos # <<>>
    BY <1>7, <2>1
  <2>3. Lookup(ids, <<"ccidfh", at>>) = fee[at] /\ fee[at] # None
    BY <1>4, <2>2
  <2>4. getControversialCustomIDFeeRateByHeight(ids, at) = fee[at]
    BY <2>3 DEF getControversialCustomIDFeeRateByHeight, Lookup
  <2> QED BY <1>5, <1>6, <1>9, <2>1, <2>2, <2>4
<1> QED BY <1>8, <1>9

(* A side chain is answered with the IDs, their owners, the fee and the      *)
(* deposits that the results of committed blocks granted, across restarts,   *)
(* caches that were or were not read, and reorganisations, as long as no     *)
(* batch was given up and no block approves two fees: the maps in memory,    *)
(* written as a whole by batchPutReservedCustomIDs and its like, never       *)
(* differ from what the database will say.                                   *)
THEOREM CustomIDsAlwaysAnswer ==
  ASSUME OneFeePerBlock
  PROVE  Spec => []CustomIDsAnswer
<1>1. SortedInv /\ TurnsInv /\ FileInv /\ CidInv => CustomIDsAnswer
  <2> SUFFICES ASSUME SortedInv, TurnsInv, FileInv, CidInv, Quiet, "lost" \notin wrong
               PROVE  CustomIDsAnswer
    BY DEF CustomIDsAnswer
  <2>1. Mirrors(log, mem, <<>>, ids)
    <3>1. Mirrors(log, FreshMem, <<>>, ids) /\ SaidSoFar(log, job, mem, batch.ids, ids)
      BY DEF CidInv
    <3>2. \E l : Mirrors(l, mem, batch.ids, ids)
      <4>1. CASE job.op = "put"
        <5>1. job.list \in Seq(Hash)
          BY <4>1, ListFacts DEF TurnsInv, InProgress
        <5>2. PICK r : IsSaid(r, log, job.list, Height[job.at])
          BY <5>1, SaidRun
        <5> QED BY <3>1, <4>1, <5>2 DEF SaidSoFar
      <4>2. CASE job.op # "put"
        BY <3>1, <4>2 DEF SaidSoFar
      <4> QED BY <4>1, <4>2
    <3>3. DOMAIN batch.ids = {}
      BY DEF Quiet
    <3> QED BY <3>1, <3>2, <3>3, MirrorsQuiet
  <2> DEFINE info == GetRevertInfo(ids, mem)
  <2>2. IsMem(mem) /\ Changes(info) /\ Heights(ListOf(ids, <<"cidfps">>)) /\ OnFile(ids)
    <3>1. /\ IsMem(mem) /\ Changes(mem.revertPos) /\ Changes(ListOf(ids, <<"revertps">>))
          /\ Heights(ListOf(ids, <<"cidfps">>)) /\ OnFile(ids)
      BY FormedLists DEF SortedInv, MemSorted, FileInv
    <3>2. info \in {mem.revertPos, ListOf(ids, <<"revertps">>)}
      BY <3>1 DEF GetRevertInfo, FillRevertPos, IsMem, getCurrentRevertPositions
    <3> QED BY <3>1, <3>2
  <2>3. ASSUME NEW d PROVE HaveRetSideChainDepositCoinTx(ids, d) = (d \in log.deposits)
    <3>1. DOMAIN <<>> = {}
      OBVIOUS
    <3>2. Lookup(Over(<<>>, ids), <<"deposit", d>>) = Lookup(ids, <<"deposit", d>>)
      BY <3>1, LookupOver
    <3>3. (Lookup(ids, <<"deposit", d>>) # None) <=> d \in log.deposits
      BY <2>1, <3>2 DEF Mirrors, DepositsMirror
    <3> QED BY <3>3 DEF HaveRetSideChainDepositCoinTx
  <2> HIDE DEF info
  <2>4. ASSUME NEW n \in Nat
        PROVE  /\ GetReservedCustomIDs(ids, mem, n, info) =
                    {id \in DOMAIN log.reserved : Confirmed(n, log.reserved[id], info)}
               /\ GetReceivedCustomIDs(ids, mem, n, info) =
                    [id \in {i \in DOMAIN log.received :
                               Confirmed(n, log.received[i].height, info)}
                       |-> log.received[id].did]
    <3> DEFINE reserved == FillReserved(ids, mem).reserved
               received == FillReceived(ids, mem).received
    <3>1. /\ Alike(log.reserved, reserved)
          /\ \A x \in DOMAIN log.reserved : log.reserved[x] \in Nat
      BY <2>1, <2>2, FillsRead DEF Mirrors, MapMirrors
    <3>2. /\ Alike(log.received, received)
          /\ \A x \in DOMAIN log.received : log.received[x] \in Holding
      BY <2>1, <2>2, FillsRead DEF Mirrors, MapMirrors
    <3>3. /\ GetReservedCustomIDs(ids, mem, n, info) =
               {id \in DOMAIN reserved : isProposalConfirmed(n, reserved[id], info)}
          /\ GetReceivedCustomIDs(ids, mem, n, info) =
               [id \in {i \in DOMAIN received :
                          isProposalConfirmed(n, received[i].height, info)}
                  |-> received[id].did]
      BY DEF GetReservedCustomIDs, GetReceivedCustomIDs
    <3> HIDE DEF reserved, received
    <3>4. {id \in DOMAIN reserved : isProposalConfirmed(n, reserved[id], info)} =
            {id \in DOMAIN log.reserved : Confirmed(n, log.reserved[id], info)}
      BY <2>2, <3>1, ConfirmedNames
    <3>5. [id \in {i \in DOMAIN received :
                     isProposalConfirmed(n, received[i].height, info)}
             |-> received[id].did] =
            [id \in {i \in DOMAIN log.received :
                       Confirmed(n, log.received[i].height, info)}
               |-> log.received[id].did]
      BY <2>2, <3>2, ConfirmedNames
    <3> QED BY <3>3, <3>4, <3>5, Zenon
  <2>5. ASSUME NEW n \in Nat PROVE GetCustomIDFeeRate(ids, mem, n) = FeeAt(n)
    BY <2>1, <2>2, FeeFound DEF Mirrors
  <2>6. \A n \in 0 .. MaxHeight + 3 : n \in Nat
    OBVIOUS
  <2> QED BY <2>3, <2>4, <2>5, <2>6 DEF CustomIDsAnswer, info
<1> QED BY <1>1, SortedInvariance, TurnsInvariance, CidInvariance, PTL
=============================================================================
