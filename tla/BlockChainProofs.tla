-------------------------- MODULE BlockChainProofs --------------------------
(***************************************************************************)
(* What BlockChain keeps for every block tree, every assignment of work    *)
(* and any number of crashes and TxsDB errors.                             *)
(*                                                                         *)
(* The inductive invariant is IInv.  HeadersConnected carries most of it:  *)
(* since a stored header is its parent's plus its own work, storing it     *)
(* again writes the values that are there already (HeadersKept), so        *)
(* everything said of a stored block stays true.  TipsAgree ties the       *)
(* cached tip, against which a new block is weighed, to the durable one,   *)
(* of which TipHeaviest speaks.                                            *)
(***************************************************************************)
EXTENDS BlockChain, TLAPS

IInv ==
  /\ TypeOK
  /\ HeadersConnected
  /\ TipsAgree
  /\ TipHeaviest
  /\ DataAtHeight
  /\ IndexSound

USE DEF headerVars, txVars, callVars, walkVars, histVars, Stored, Header,
        Return

----------------------------------------------------------------------------
(* The initial state satisfies the invariant: New has stored the genesis   *)
(* header and nothing else.                                                *)
LEMMA InitInv == Init => IInv
<1> SUFFICES ASSUME Init PROVE IInv
  OBVIOUS
<1> USE ConstantsAssumption DEF Init
<1>1. TypeOK
  <2>1. Stored = {Genesis} /\ headers \in [Stored -> Header]
    OBVIOUS
  <2>2. DOMAIN index = {0} /\ index \in [{0} -> Stored]
    BY <2>1
  <2>3. fork \in [Hash -> (SUBSET Stored) \cup {None}]
    OBVIOUS
  <2>4. main \subseteq Nat \X Stored /\ faults \in 0..MaxFaults
    OBVIOUS
  <2>5. QED
    BY <2>1, <2>2, <2>3, <2>4 DEF TypeOK, Stages, Results
<1>2. HeadersConnected
  BY DEF HeadersConnected
<1>3. TipsAgree /\ TipHeaviest
  BY DEF TipsAgree, TipHeaviest
<1>4. DataAtHeight
  BY DEF DataAtHeight
<1>5. IndexSound
  BY DEF IndexSound
<1>6. QED
  BY <1>1, <1>2, <1>3, <1>4, <1>5 DEF IInv

----------------------------------------------------------------------------
(* Accepting a block, known or not, leaves every stored header as it is    *)
(* and adds at most the block, connected to its parent.                    *)
LEMMA HeadersKept ==
  ASSUME TypeOK, HeadersConnected, NEW b \in Hash, CommitBlock(b)
  PROVE  /\ Stored' = Stored \cup {b}
         /\ \A h \in Stored : headers'[h] = headers[h]
         /\ Prev[b] \in Stored
         /\ headers'[b] = Extend(b)
         /\ Extend(b) \in Header
<1>1. b # Genesis /\ Prev[b] \in Stored
  BY ConstantsAssumption DEF CommitBlock, TypeOK
<1>2. Extend(b) \in Header
  BY <1>1, ConstantsAssumption DEF TypeOK, Extend
<1>3. headers' = Set(headers, b, Extend(b))
  BY DEF CommitBlock
<1>4. Stored' = Stored \cup {b} /\ headers'[b] = Extend(b)
  BY <1>3 DEF Set
<1>5. b \in Stored => headers[b] = Extend(b)
  BY <1>1 DEF HeadersConnected, Extend, TypeOK
<1>6. \A h \in Stored : headers'[h] = headers[h]
  BY <1>3, <1>5 DEF Set
<1>7. QED
  BY <1>1, <1>2, <1>4, <1>6

(* Accepting a block: its header is weighed against the cached tip, which  *)
(* is the durable one between calls.                                       *)
LEMMA CommitBlockInv ==
  ASSUME IInv, NEW b \in Hash, CommitBlock(b)
  PROVE  IInv'
<1> USE DEF IInv
<1>1. /\ Stored' = Stored \cup {b}
      /\ \A h \in Stored : headers'[h] = headers[h]
      /\ Prev[b] \in Stored
      /\ headers'[b] = Extend(b)
      /\ Extend(b) \in Header
  BY HeadersKept
<1>2. /\ blk' = b /\ best' = cacheTip
      /\ diskTip' = diskTip /\ index' = index /\ main' = main /\ fork' = fork
      /\ major' = major /\ minor' = minor /\ root' = root
      /\ faults' = faults /\ torn' = torn
      /\ pc = "idle" /\ ret' = "none" /\ cacheTip = diskTip
  BY DEF CommitBlock, TipsAgree
<1>3. \/ /\ newTip' = TRUE /\ pc' = "tip" /\ cacheTip' = b
         /\ Extend(b).work > headers[diskTip].work
      \/ /\ newTip' = FALSE /\ pc' = "index" /\ cacheTip' = cacheTip
         /\ ~(Extend(b).work > headers[diskTip].work)
  <2>1. CASE Heavier(b)
    <3>1. newTip' = TRUE
      BY <2>1 DEF CommitBlock
    <3>2. pc' = "tip" /\ cacheTip' = b
      BY <3>1 DEF CommitBlock
    <3>3. QED
      BY <1>2, <2>1, <3>1, <3>2 DEF Heavier
  <2>2. CASE ~Heavier(b)
    <3>1. newTip' = FALSE
      BY <2>2 DEF CommitBlock
    <3>2. pc' = "index" /\ cacheTip' = cacheTip
      BY <3>1 DEF CommitBlock
    <3>3. QED
      BY <1>2, <2>2, <3>1, <3>2 DEF Heavier
  <2>3. QED
    BY <2>1, <2>2
<1>4. TypeOK'
  <2>1. headers' \in [Stored' -> Header]
    <3>1. headers' = [h \in Stored' |-> headers'[h]]
      BY DEF CommitBlock, Set
    <3>2. \A h \in Stored' : headers'[h] \in Header
      BY <1>1 DEF TypeOK
    <3>3. QED
      BY <3>1, <3>2
  <2>2. newTip' \in BOOLEAN /\ pc' \in Stages /\ cacheTip' \in Stored'
    BY <1>1, <1>2, <1>3 DEF Stages, TypeOK
  <2>3. fork' \in [Hash -> (SUBSET Stored') \cup {None}]
    BY <1>1, <1>2 DEF TypeOK
  <2>4. index' \in [DOMAIN index' -> Stored'] /\ main' \subseteq Nat \X Stored'
    BY <1>1, <1>2 DEF TypeOK
  <2>5. QED
    BY <1>1, <1>2, <2>1, <2>2, <2>3, <2>4 DEF TypeOK, Results
<1>5. HeadersConnected'
  <2>1. headers'[Genesis] = headers[Genesis]
    BY <1>1 DEF HeadersConnected, TypeOK
  <2>2. ASSUME NEW h \in Stored' \ {Genesis}
        PROVE  /\ Prev[h] \in Stored'
               /\ headers'[h].height = headers'[Prev[h]].height + 1
               /\ headers'[h].work = headers'[Prev[h]].work + Work[h]
    <3>1. CASE h = b
      BY <1>1, <3>1 DEF Extend
    <3>2. CASE h # b
      BY <1>1, <3>2 DEF HeadersConnected
    <3>3. QED
      BY <3>1, <3>2
  <2>3. QED
    BY <1>1, <2>1, <2>2 DEF HeadersConnected
<1>6. TipsAgree'
  BY <1>1, <1>2, <1>3 DEF TipsAgree, TypeOK
<1>7. TipHeaviest'
  <2> SUFFICES ASSUME NEW h \in Stored'
               PROVE  \/ headers'[h].work <= headers'[diskTip'].work
                      \/ h \in torn'
                      \/ pc' = "tip" /\ h = blk'
    BY DEF TipHeaviest
  <2>1. headers'[diskTip'] = headers[diskTip]
    BY <1>1, <1>2 DEF TypeOK
  <2>2. CASE h = b
    <3>1. Extend(b).work \in Nat /\ headers[diskTip].work \in Nat
      BY <1>1 DEF TypeOK
    <3>2. QED
      BY <1>1, <1>2, <1>3, <2>1, <2>2, <3>1
  <2>3. CASE h # b
    BY <1>1, <1>2, <2>1, <2>3 DEF TipHeaviest
  <2>4. QED
    BY <2>2, <2>3
<1>8. DataAtHeight'
  <2>1. \A e \in main' : headers'[e[2]].height = e[1]
    BY <1>1, <1>2 DEF DataAtHeight, TypeOK
  <2>2. ASSUME NEW h \in Hash, fork'[h] # None
        PROVE  h \in Stored' /\ \A t \in fork'[h] :
                 headers'[t].height = headers'[h].height
    <3>1. h \in Stored /\ fork[h] \subseteq Stored
      BY <1>2, <2>2 DEF DataAtHeight, TypeOK
    <3>2. QED
      BY <1>1, <1>2, <2>2, <3>1 DEF DataAtHeight
  <2>3. QED
    BY <2>1, <2>2 DEF DataAtHeight
<1>9. IndexSound'
  <2>1. \A n \in DOMAIN index' : headers'[index'[n]].height = n
    BY <1>1, <1>2 DEF IndexSound, TypeOK
  <2>2. ASSUME faults' = 0, NEW h \in Stored'
        PROVE  \/ headers'[h].height \in DOMAIN index'
               \/ pc' \in {"tip", "index"} /\ h = blk'
    BY <1>1, <1>2, <1>3, <2>2 DEF IndexSound
  <2>3. QED
    BY <2>1, <2>2 DEF IndexSound
<1>10. QED
  BY <1>4, <1>5, <1>6, <1>7, <1>8, <1>9

----------------------------------------------------------------------------
(* The lists GetTxs finds under a height are lists of stored blocks of     *)
(* that height.                                                            *)
LEMMA GetTxsAtHeight ==
  ASSUME TypeOK, DataAtHeight, NEW n \in Nat
  PROVE  /\ GetTxs(n) \subseteq Stored
         /\ \A t \in GetTxs(n) : headers[t].height = n
<1>1. ASSUME NEW t \in GetTxs(n)
      PROVE  t \in Stored /\ headers[t].height = n
  <2>1. PICK e \in main : e[1] = n /\ t = e[2]
    BY <1>1 DEF GetTxs
  <2>2. QED
    BY <2>1 DEF TypeOK, DataAtHeight
<1>2. QED
  BY <1>1

(* A call that ends before its first write, and the steps of a             *)
(* reorganisation that only move its walks.                                *)
LEMMA WalkInv ==
  ASSUME IInv,
         UNCHANGED <<headerVars, txVars, cacheTip, callVars, histVars>>,
         major' \in Stored, minor' \in Stored, root' \in Stored,
         ret' \in Results, pc' \in Stages,
         pc \notin {"tip", "index"}, pc' \notin {"tip", "index"},
         pc' # "idle" => pc \notin {"idle", "txs"}
  PROVE  IInv'
<1> USE DEF IInv
<1>1. TypeOK'
  BY DEF TypeOK
<1>2. HeadersConnected'
  BY DEF HeadersConnected
<1>3. TipsAgree'
  BY DEF TipsAgree
<1>4. TipHeaviest'
  BY DEF TipHeaviest
<1>5. DataAtHeight'
  BY DEF DataAtHeight
<1>6. IndexSound'
  BY DEF IndexSound
<1>7. QED
  BY <1>1, <1>2, <1>3, <1>4, <1>5, <1>6

(* The tip write: the cached tip becomes the durable one, and no other     *)
(* stored block is heavier since the old tip was not lighter than any.     *)
LEMMA PutTipInv == IInv /\ PutTip => IInv'
<1> SUFFICES ASSUME IInv, PutTip PROVE IInv'
  OBVIOUS
<1> USE DEF IInv, PutTip
<1>1. cacheTip = blk /\ newTip /\ headers[blk].work > headers[diskTip].work
  BY DEF TipsAgree
<1>2. TypeOK'
  BY DEF TypeOK, Stages
<1>3. HeadersConnected'
  BY DEF HeadersConnected
<1>4. TipsAgree'
  BY <1>1 DEF TipsAgree
<1>5. TipHeaviest'
  <2> SUFFICES ASSUME NEW h \in Stored
               PROVE  headers[h].work <= headers[blk].work \/ h \in torn \ {blk}
    BY DEF TipHeaviest
  <2>1. /\ headers[h].work \in Nat /\ headers[blk].work \in Nat
        /\ headers[diskTip].work \in Nat
    BY DEF TypeOK
  <2>2. QED
    BY <1>1, <2>1 DEF TipHeaviest
<1>6. DataAtHeight'
  BY DEF DataAtHeight
<1>7. IndexSound'
  BY DEF IndexSound
<1>8. QED
  BY <1>2, <1>3, <1>4, <1>5, <1>6, <1>7

(* The index write.                                                        *)
LEMMA PutIndexInv == IInv /\ PutIndex => IInv'
<1> SUFFICES ASSUME IInv, PutIndex PROVE IInv'
  OBVIOUS
<1> USE DEF IInv, PutIndex
<1>1. /\ DOMAIN index' = DOMAIN index \cup {headers[blk].height}
      /\ index'[headers[blk].height] = blk
      /\ \A n \in DOMAIN index : n # headers[blk].height => index'[n] = index[n]
      /\ index' = [n \in DOMAIN index' |-> index'[n]]
  BY DEF Set
<1>2. headers[blk].height \in Nat /\ blk \in Stored
  BY DEF TypeOK
<1>3. TypeOK'
  <2>1. DOMAIN index' \subseteq Nat
    BY <1>1, <1>2 DEF TypeOK
  <2>2. \A n \in DOMAIN index' : index'[n] \in Stored
    BY <1>1, <1>2 DEF TypeOK
  <2>3. index' \in [DOMAIN index' -> Stored]
    BY <1>1, <2>2
  <2>4. QED
    BY <2>1, <2>3 DEF TypeOK, Stages
<1>4. HeadersConnected' /\ DataAtHeight'
  BY DEF HeadersConnected, DataAtHeight
<1>5. TipsAgree' /\ TipHeaviest'
  BY DEF TipsAgree, TipHeaviest
<1>6. IndexSound'
  BY <1>1 DEF IndexSound
<1>7. QED
  BY <1>3, <1>4, <1>5, <1>6

(* The new tip's transactions are filed under its height.                  *)
LEMMA PutTxsInv == IInv /\ PutTxs => IInv'
<1> SUFFICES ASSUME IInv, PutTxs PROVE IInv'
  OBVIOUS
<1> USE DEF IInv, PutTxs
<1>1. pc' \in {"ancestor", "idle"} /\ newTip
  OBVIOUS
<1>2. /\ major' \in Stored /\ minor' \in Stored /\ ret' \in Results
  BY DEF TypeOK, Results
<1>3. blk \in Stored /\ headers[blk].height \in Nat
  BY DEF TypeOK
<1>4. TypeOK'
  BY <1>1, <1>2, <1>3 DEF TypeOK, Stages
<1>5. HeadersConnected' /\ IndexSound'
  BY <1>1 DEF HeadersConnected, IndexSound
<1>6. TipsAgree' /\ TipHeaviest'
  BY <1>1 DEF TipsAgree, TipHeaviest
<1>7. DataAtHeight'
  BY <1>3 DEF DataAtHeight
<1>8. QED
  BY <1>4, <1>5, <1>6, <1>7

(* A fork block's transactions are filed under its hash.                   *)
LEMMA PutForkTxsInv == IInv /\ PutForkTxs => IInv'
<1> SUFFICES ASSUME IInv, PutForkTxs PROVE IInv'
  OBVIOUS
<1> USE DEF IInv, PutForkTxs
<1>1. blk \in Stored /\ blk \in Hash
  BY DEF TypeOK
<1>2. TypeOK'
  BY <1>1 DEF TypeOK, Stages, Results
<1>3. HeadersConnected' /\ IndexSound'
  BY DEF HeadersConnected, IndexSound
<1>4. TipsAgree' /\ TipHeaviest'
  BY DEF TipsAgree, TipHeaviest
<1>5. DataAtHeight'
  BY <1>1 DEF DataAtHeight, TypeOK
<1>6. QED
  BY <1>2, <1>3, <1>4, <1>5

(* The walk down from the old tip: lists move from main to fork storage    *)
(* with their height.                                                      *)
LEMMA MoveToForkInv == IInv /\ MoveToFork => IInv'
<1> SUFFICES ASSUME IInv, MoveToFork PROVE IInv'
  OBVIOUS
<1> USE DEF IInv, MoveToFork
<1>1. minor \in Stored /\ minor \in Hash /\ headers[minor].height \in Nat
  BY DEF TypeOK
<1>2. /\ GetTxs(headers[minor].height) \subseteq Stored
      /\ \A t \in GetTxs(headers[minor].height) :
           headers[t].height = headers[minor].height
  BY <1>1, GetTxsAtHeight
<1>3. TypeOK'
  BY <1>1, <1>2 DEF TypeOK, Stages
<1>4. HeadersConnected' /\ IndexSound'
  BY DEF HeadersConnected, IndexSound
<1>5. TipsAgree' /\ TipHeaviest'
  BY DEF TipsAgree, TipHeaviest
<1>6. DataAtHeight'
  BY <1>1, <1>2 DEF DataAtHeight, TypeOK
<1>7. QED
  BY <1>3, <1>4, <1>5, <1>6

(* The lists of a height leave main.                                       *)
LEMMA DelTxsInv == IInv /\ DelTxs => IInv'
<1> SUFFICES ASSUME IInv, DelTxs PROVE IInv'
  OBVIOUS
<1> USE DEF IInv, DelTxs
<1>1. minor' \in Stored /\ main' \subseteq main
  BY DEF TypeOK, Rollback, HasPrevious
<1>2. TypeOK'
  BY <1>1 DEF TypeOK, Stages
<1>3. HeadersConnected' /\ IndexSound'
  BY DEF HeadersConnected, IndexSound
<1>4. TipsAgree' /\ TipHeaviest'
  BY DEF TipsAgree, TipHeaviest
<1>5. DataAtHeight'
  BY <1>1 DEF DataAtHeight
<1>6. QED
  BY <1>2, <1>3, <1>4, <1>5

(* The walk up to the new tip: lists move back.                            *)
LEMMA MoveToMainInv == IInv /\ MoveToMain => IInv'
<1> SUFFICES ASSUME IInv, MoveToMain PROVE IInv'
  OBVIOUS
<1> USE DEF IInv, MoveToMain
<1>1. /\ minor \in Stored /\ minor \in Hash /\ headers[minor].height \in Nat
      /\ fork[minor] \subseteq Stored
  BY DEF TypeOK
<1>2. minor' \in Stored
  BY DEF NextHeader
<1>3. \A e \in main' \ main : \E t \in fork[minor] :
        e = <<headers[minor].height, t>>
  OBVIOUS
<1>4. TypeOK'
  BY <1>1, <1>2, <1>3 DEF TypeOK
<1>5. HeadersConnected' /\ IndexSound'
  BY DEF HeadersConnected, IndexSound
<1>6. TipsAgree' /\ TipHeaviest'
  BY DEF TipsAgree, TipHeaviest
<1>7. DataAtHeight'
  BY <1>1, <1>3 DEF DataAtHeight
<1>8. QED
  BY <1>4, <1>5, <1>6, <1>7

(* The closing Put of a reorganisation repeats what is stored.             *)
LEMMA FinishInv == IInv /\ FinishReorganize => IInv'
<1> SUFFICES ASSUME IInv, FinishReorganize PROVE IInv'
  OBVIOUS
<1> USE DEF IInv, FinishReorganize
<1>1. diskTip = blk /\ cacheTip = blk
  BY DEF TipsAgree
<1>2. /\ DOMAIN index' = DOMAIN index \cup {headers[blk].height}
      /\ index'[headers[blk].height] = blk
      /\ \A n \in DOMAIN index : n # headers[blk].height => index'[n] = index[n]
      /\ index' = [n \in DOMAIN index' |-> index'[n]]
  BY DEF Set
<1>3. headers[blk].height \in Nat /\ blk \in Stored
  BY DEF TypeOK
<1>4. TypeOK'
  <2>1. DOMAIN index' \subseteq Nat
    BY <1>2, <1>3 DEF TypeOK
  <2>2. \A n \in DOMAIN index' : index'[n] \in Stored
    BY <1>2, <1>3 DEF TypeOK
  <2>3. index' \in [DOMAIN index' -> Stored]
    BY <1>2, <2>2
  <2>4. QED
    BY <2>1, <2>3 DEF TypeOK, Stages, Results
<1>5. HeadersConnected' /\ DataAtHeight'
  BY DEF HeadersConnected, DataAtHeight
<1>6. TipsAgree' /\ TipHeaviest'
  BY <1>1 DEF TipsAgree, TipHeaviest
<1>7. IndexSound'
  BY <1>2 DEF IndexSound
<1>8. QED
  BY <1>4, <1>5, <1>6, <1>7

(* A failed TxsDB call ends the commit with everything written kept.       *)
LEMMA TxsErrorInv == IInv /\ TxsError => IInv'
<1> SUFFICES ASSUME IInv, TxsError PROVE IInv'
  OBVIOUS
<1> USE ConstantsAssumption DEF IInv, TxsError
<1>1. faults' \in 1..MaxFaults /\ faults' # 0
  BY DEF TypeOK
<1>2. TypeOK'
  BY <1>1 DEF TypeOK, Stages, Results
<1>3. HeadersConnected' /\ DataAtHeight'
  BY DEF HeadersConnected, DataAtHeight
<1>4. TipsAgree' /\ TipHeaviest'
  BY DEF TipsAgree, TipHeaviest
<1>5. IndexSound'
  BY <1>1 DEF IndexSound
<1>6. QED
  BY <1>2, <1>3, <1>4, <1>5

(* A crash loses the cached tip; a header whose tip write it cut off is    *)
(* the only one that may stay heavier than the tip.                        *)
LEMMA CrashInv == IInv /\ Crash => IInv'
<1> SUFFICES ASSUME IInv, Crash PROVE IInv'
  OBVIOUS
<1> USE ConstantsAssumption DEF IInv, Crash
<1>1. faults' \in 1..MaxFaults /\ faults' # 0
  BY DEF TypeOK
<1>2. TypeOK'
  BY <1>1 DEF TypeOK, Stages, Results
<1>3. HeadersConnected' /\ DataAtHeight'
  BY DEF HeadersConnected, DataAtHeight
<1>4. TipsAgree'
  BY DEF TipsAgree
<1>5. TipHeaviest'
  BY DEF TipHeaviest
<1>6. IndexSound'
  BY <1>1 DEF IndexSound
<1>7. QED
  BY <1>2, <1>3, <1>4, <1>5, <1>6

(* Every step keeps the invariant.                                         *)
LEMMA NextInv == IInv /\ [Next]_vars => IInv'
<1> SUFFICES ASSUME IInv, [Next]_vars PROVE IInv'
  OBVIOUS
<1> USE DEF IInv
<1>1. ASSUME NEW b \in Hash, CommitOrphan(b) \/ CommitIgnored(b)
      PROVE  IInv'
  BY <1>1, WalkInv DEF CommitOrphan, CommitIgnored, TypeOK, Stages, Results
<1>2. ASSUME NEW b \in Hash, CommitBlock(b) PROVE IInv'
  BY <1>2, CommitBlockInv
<1>3. CASE PutTip
  BY <1>3, PutTipInv
<1>4. CASE PutIndex
  BY <1>4, PutIndexInv
<1>5. CASE PutTxs
  BY <1>5, PutTxsInv
<1>6. CASE PutForkTxs
  BY <1>6, PutForkTxsInv
<1>7. CASE getCommonAncestor
  <2>1. major' \in Stored /\ minor' \in Stored
    BY <1>7 DEF getCommonAncestor, Rollback, HasPrevious, TypeOK
  <2>2. QED
    BY <1>7, <2>1, WalkInv DEF getCommonAncestor, TypeOK
<1>8. CASE StartReorganize
  BY <1>8, WalkInv DEF StartReorganize, TypeOK, Stages
<1>9. CASE MoveToFork
  BY <1>9, MoveToForkInv
<1>10. CASE DelTxs
  BY <1>10, DelTxsInv
<1>11. CASE StartConnect
  BY <1>11, WalkInv DEF StartConnect, NextHeader, TypeOK, Stages
<1>12. CASE MoveToMain
  BY <1>12, MoveToMainInv
<1>13. CASE ConnectError
  BY <1>13, WalkInv DEF ConnectError, TypeOK, Stages, Results
<1>14. CASE FinishReorganize
  BY <1>14, FinishInv
<1>15. CASE TxsError
  BY <1>15, TxsErrorInv
<1>16. CASE Crash
  BY <1>16, CrashInv
<1>17. CASE UNCHANGED vars
  <2>1. TypeOK' /\ HeadersConnected'
    BY <1>17 DEF vars, TypeOK, HeadersConnected
  <2>2. TipsAgree' /\ TipHeaviest'
    BY <1>17 DEF vars, TipsAgree, TipHeaviest
  <2>3. DataAtHeight' /\ IndexSound'
    BY <1>17 DEF vars, DataAtHeight, IndexSound
  <2>4. QED
    BY <2>1, <2>2, <2>3
<1>18. QED
  BY <1>1, <1>2, <1>3, <1>4, <1>5, <1>6, <1>7, <1>8, <1>9, <1>10, <1>11,
     <1>12, <1>13, <1>14, <1>15, <1>16, <1>17 DEF Next, Commit, Step

(* The invariant holds at every moment of every behaviour.                 *)
THEOREM Invariance == Spec => []IInv
BY InitInv, NextInv, PTL DEF Spec

----------------------------------------------------------------------------
(* Type correctness: every walk, index entry, transaction list and tip is  *)
(* that of a stored header.                                                *)
THEOREM TypeCorrect == Spec => []TypeOK
BY Invariance, PTL DEF IInv

(* Stored headers form a tree rooted at genesis, with heights and total    *)
(* work that add up, whatever is lost in between.                          *)
THEOREM Connected == Spec => []HeadersConnected
BY Invariance, PTL DEF IInv

(* The cached tip is the durable one except between the header write and   *)
(* the tip write of a new tip.                                             *)
THEOREM TipsInStep == Spec => []TipsAgree
BY Invariance, PTL DEF IInv

(* The durable tip is the heaviest stored block, the cut-off writes aside. *)
THEOREM HeaviestTip == Spec => []TipHeaviest
BY Invariance, PTL DEF IInv

(* Transactions stay at the height of their block.                         *)
THEOREM HeightsKept == Spec => []DataAtHeight
BY Invariance, PTL DEF IInv

(* The height index only leads to headers of that height.                  *)
THEOREM IndexCorrect == Spec => []IndexSound
BY Invariance, PTL DEF IInv

(* getCommonAncestor cannot fail: a walk stops short of genesis, or the    *)
(* other one is at genesis too, where they have met.                       *)
THEOREM AncestorExists == Spec => []AncestorFound
<1>1. IInv => AncestorFound
  <2> SUFFICES ASSUME TypeOK, HeadersConnected, major # minor
               PROVE  /\ headers[major].height >= headers[minor].height =>
                           HasPrevious(major)
                      /\ headers[minor].height >= headers[major].height =>
                           HasPrevious(minor)
    BY DEF IInv, AncestorFound
  <2>1. \A h \in Stored \ {Genesis} : HasPrevious(h) /\ headers[h].height > 0
    BY DEF HeadersConnected, HasPrevious, TypeOK
  <2>2. headers[Genesis].height = 0
    BY DEF HeadersConnected
  <2>3. /\ major \in Stored /\ minor \in Stored
        /\ headers[major].height \in Nat /\ headers[minor].height \in Nat
    BY DEF TypeOK
  <2>4. QED
    BY <2>1, <2>2, <2>3
<1>2. QED
  BY <1>1, Invariance, PTL

----------------------------------------------------------------------------
(* The durable header chain implements ChainSpec: the initial database is  *)
(* its initial state, accepting a header is a Learn, the tip write an      *)
(* Advance, and every other step, crashes included, leaves it alone.       *)
THEOREM Refinement == Spec => ImplementsChainSpec
<1> DEFINE workOf == [h \in Stored |-> headers[h].work]
<1>1. Init => Abstract!Init
  BY DEF Init, Abstract!Init
<1>2. IInv /\ [Next]_vars => [Abstract!Next]_(Abstract!vars)
  <2> SUFFICES ASSUME IInv, [Next]_vars
               PROVE  Abstract!Next \/ UNCHANGED Abstract!vars
    OBVIOUS
  <2>1. ASSUME NEW b \in Hash, CommitBlock(b)
        PROVE  Abstract!Learn(b)
    <3>1. Prev[b] \in DOMAIN workOf
      BY <2>1 DEF CommitBlock
    <3>2. headers' = Set(headers, b, Extend(b))
      BY <2>1 DEF CommitBlock
    <3>3. workOf' = [h \in DOMAIN workOf \cup {b} |->
            IF h = b THEN workOf[Prev[b]] + Work[b] ELSE workOf[h]]
      BY <3>1, <3>2 DEF Set, Extend
    <3>4. diskTip' = diskTip
      BY <2>1 DEF CommitBlock
    <3>5. QED
      BY <3>1, <3>3, <3>4 DEF Abstract!Learn
  <2>2. CASE PutTip
    <3>1. blk \in Stored /\ blk \in Hash /\ diskTip \in Stored
      BY DEF IInv, TypeOK
    <3>2. headers[blk].work > headers[diskTip].work
      BY <2>2 DEF PutTip, IInv, TipsAgree
    <3>3. PICK b \in Hash : b = blk
      BY <3>1
    <3>4. Abstract!Advance(b)
      BY <2>2, <3>1, <3>2, <3>3 DEF PutTip, Abstract!Advance
    <3>5. QED
      BY <3>4 DEF Abstract!Next
  <2>3. CASE FinishReorganize
    BY <2>3 DEF FinishReorganize, IInv, TipsAgree, Abstract!vars
  <2>4. CASE \/ \E b \in Hash : CommitOrphan(b) \/ CommitIgnored(b)
             \/ PutIndex \/ PutTxs \/ PutForkTxs
             \/ getCommonAncestor \/ StartReorganize \/ MoveToFork \/ DelTxs
             \/ StartConnect \/ MoveToMain \/ ConnectError
             \/ TxsError \/ Crash \/ UNCHANGED vars
    <3>1. headers' = headers /\ diskTip' = diskTip
      BY <2>4 DEF CommitOrphan, CommitIgnored, PutIndex, PutTxs, PutForkTxs,
         getCommonAncestor, StartReorganize, MoveToFork, DelTxs, StartConnect,
         MoveToMain, ConnectError, TxsError, Crash, vars
    <3>2. QED
      BY <3>1 DEF Abstract!vars
  <2>5. QED
    BY <2>1, <2>2, <2>3, <2>4 DEF Next, Commit, Step, Abstract!Next
<1>3. QED
  BY <1>1, <1>2, Invariance, PTL DEF Spec, ImplementsChainSpec, Abstract!Spec

----------------------------------------------------------------------------
(* Reorganisations, for every block tree: their walks stay on the two      *)
(* branches (RootReached, for any work and any faults), and the            *)
(* transaction database follows the chain (MainIsBestChain, ForkIsKept) as *)
(* long as a heavier tip is a higher one, which equal work guarantees.     *)
(*                                                                         *)
(* Nothing is proved by induction over the tree.  The recursive Chain is   *)
(* unfolded once (ChainStep), and Tree, what the proofs need to know of    *)
(* branches, is an invariant: a stored block's branch is its parent's,     *)
(* which was stored before it, and the block.                              *)


(* x is h or a block below it: every set that has h and, with a block, its *)
(* parent, has x.                                                          *)
Closed(S) == \A y \in S : Prev[y] \in Hash => Prev[y] \in S
Below(h) == {x \in Hash : \A S \in SUBSET Hash : h \in S /\ Closed(S) => x \in S}

(* What is below a block is the block and what is below its parent.        *)
LEMMA BelowStep ==
  ASSUME NEW h \in Hash
  PROVE  Below(h) = IF Prev[h] \in Hash THEN {h} \cup Below(Prev[h]) ELSE {h}
<1>1. h \in Below(h)
  BY DEF Below
<1>2. CASE Prev[h] \notin Hash
  <2>1. {h} \in SUBSET Hash /\ Closed({h})
    BY <1>2 DEF Closed
  <2>2. \A x \in Below(h) : x \in {h}
    BY <2>1 DEF Below
  <2> QED BY <1>1, <1>2, <2>2
<1>3. CASE Prev[h] \in Hash
  <2>1. ASSUME NEW x \in Below(Prev[h]) PROVE x \in Below(h)
    <3>1. ASSUME NEW S \in SUBSET Hash, h \in S, Closed(S) PROVE x \in S
      <4>1. Prev[h] \in S
        BY <1>3, <3>1 DEF Closed
      <4> QED BY <2>1, <3>1, <4>1 DEF Below
    <3> QED BY <2>1, <3>1 DEF Below
  <2>2. ASSUME NEW x \in Below(h), x # h PROVE x \in Below(Prev[h])
    <3>1. ASSUME NEW S \in SUBSET Hash, Prev[h] \in S, Closed(S) PROVE x \in S
      <4>1. Closed(S \cup {h}) /\ S \cup {h} \in SUBSET Hash /\ h \in S \cup {h}
        BY <3>1 DEF Closed
      <4>2. x \in S \cup {h}
        BY <4>1, <2>2 DEF Below
      <4> QED BY <4>2, <2>2
    <3> QED BY <2>2, <3>1 DEF Below
  <2> QED BY <1>1, <1>3, <2>1, <2>2
<1> QED BY <1>2, <1>3

(* Chain satisfies its recursive definition: Below is a function that does,*)
(* so the one Chain denotes does.                                          *)
LEMMA ChainStep ==
  ASSUME NEW h \in Hash
  PROVE  Chain[h] = IF Prev[h] \in Hash THEN {h} \cup Chain[Prev[h]] ELSE {h}
<1> DEFINE Solves(f) ==
      f = [x \in Hash |-> IF Prev[x] \in Hash THEN {x} \cup f[Prev[x]] ELSE {x}]
<1>1. Solves([x \in Hash |-> Below(x)])
  BY BelowStep
<1>2. Chain = CHOOSE f : Solves(f)
  BY DEF Chain
<1>3. Solves(Chain)
  <2> HIDE DEF Solves
  <2> QED BY <1>1, <1>2
<1> QED BY <1>3

----------------------------------------------------------------------------
(* The invariants.                                                         *)

(* All headers carry the same Bits.                                        *)
EqualWork == \A h, k \in Hash : Work[h] = Work[k]

(* The stored blocks are a tree: a block's branch is stored, ends at       *)
(* genesis, holds the branches of its blocks, and has one block a height,  *)
(* none above its own.                                                     *)
Tree ==
  \A h \in Stored :
    /\ Chain[h] \subseteq Stored
    /\ h \in Chain[h] /\ Genesis \in Chain[h]
    /\ \A x \in Chain[h] : /\ Chain[x] \subseteq Chain[h]
                            /\ headers[x].height <= headers[h].height
    /\ \A x, y \in Chain[h] : headers[x].height = headers[y].height => x = y

(* Where the walks of a reorganisation are: the two branches have in       *)
(* common what the walks still to be made have in common.                  *)
Walks ==
  /\ pc = "ancestor" =>
       /\ major \in Chain[blk] /\ minor \in Chain[best]
       /\ Chain[major] \cap Chain[minor] = Chain[blk] \cap Chain[best]
  /\ pc \in {"disconnect", "delete", "connect"} =>
       Chain[root] = Chain[blk] \cap Chain[best]
  /\ pc \in {"disconnect", "delete"} =>
       minor \in Chain[best] /\ root \in Chain[minor]
  /\ pc = "delete" => minor # root
  /\ pc = "connect" => minor \in SubChain

(* With equal work, heavier means higher.                                  *)
WorkIsHeight ==
  \A h, k \in Stored :
    headers[h].work > headers[k].work <=> headers[h].height > headers[k].height

(* A call that makes a new tip has found it heavier than the old one.      *)
NewTipHeavier ==
  pc # "idle" /\ newTip => headers[blk].work > headers[best].work

(* A new tip is higher than the one it replaces, not only heavier.         *)
NewTipHigher ==
  pc # "idle" /\ newTip => headers[blk].height > headers[best].height

(* The transactions of a set of blocks as main files them.                 *)
Filed(S) == {<<headers[h].height, h>> : h \in S \ {Genesis}}
(* The transactions of a set of blocks are in fork storage.                *)
Kept(S) == \A h \in S : fork[h] = {h}

(* What the transaction database holds at each stage of a commit that      *)
(* nothing has disturbed.                                                  *)
TxsFollow ==
  /\ pc = "idle" =>
       main = Filed(Chain[cacheTip]) /\ Kept(Stored \ Chain[cacheTip])
  /\ pc \in {"tip", "index", "txs"} =>
       /\ main = Filed(Chain[best])
       /\ Kept(Stored \ (Chain[best] \cup {blk}))
       /\ ~newTip => cacheTip = best
  /\ pc = "ancestor" =>
       /\ main = Filed(Chain[best] \cup {blk})
       /\ Kept(Stored \ (Chain[best] \cup {blk}))
  /\ pc = "disconnect" =>
       /\ main = Filed(Chain[minor] \cup {blk})
       /\ Kept(Stored \ (Chain[minor] \cup {blk}))
  /\ pc = "delete" =>
       /\ main = Filed(Chain[minor] \cup {blk})
       /\ Kept(Stored \ (Chain[Prev[minor]] \cup {blk}))
  /\ pc = "connect" =>
       /\ main = Filed(Chain[Prev[minor]] \cup {blk})
       /\ Kept(Stored \ (Chain[root] \cup {blk}))

----------------------------------------------------------------------------
(* The tree.                                                               *)

(* A stored block's branch is the block and its parent's branch.           *)
LEMMA BranchStep ==
  ASSUME TypeOK, HeadersConnected, NEW h \in Stored
  PROVE  /\ h = Genesis => Chain[h] = {Genesis}
         /\ h # Genesis => Prev[h] \in Stored /\ Chain[h] = {h} \cup Chain[Prev[h]]
<1>1. h \in Hash
  BY DEF TypeOK
<1>2. h # Genesis => Prev[h] \in Stored /\ Prev[h] \in Hash
  BY DEF TypeOK, HeadersConnected
<1> QED BY <1>1, <1>2, ChainStep, ConstantsAssumption

(* In the beginning the tree is genesis.                                   *)
LEMMA TreeInit == Init => Tree
<1> SUFFICES ASSUME Init PROVE Tree
  OBVIOUS
<1>1. IInv
  BY InitInv
<1>2. Stored = {Genesis}
  BY DEF Init
<1>3. Chain[Genesis] = {Genesis}
  BY <1>1, <1>2, BranchStep DEF IInv
<1>4. headers[Genesis].height <= headers[Genesis].height
  BY <1>2 DEF Init
<1> QED BY <1>2, <1>3, <1>4 DEF Tree

(* A new block adds its own branch to the tree, on top of its parent's.    *)
LEMMA TreeCommit ==
  ASSUME IInv, Tree, NEW b \in Hash, CommitBlock(b)
  PROVE  Tree'
<1> USE DEF IInv
<1>1. /\ Stored' = Stored \cup {b}
      /\ \A h \in Stored : headers'[h] = headers[h]
      /\ Prev[b] \in Stored
      /\ headers'[b] = Extend(b)
  BY HeadersKept
<1>2. b # Genesis
  BY <1>1, ConstantsAssumption DEF TypeOK
<1>3. IInv'
  BY CommitBlockInv
<1>4. \A h \in Stored' : headers'[h].height \in Nat
  BY <1>3 DEF TypeOK
<1>5. ASSUME NEW h \in Stored
      PROVE  /\ Chain[h] \subseteq Stored'
             /\ h \in Chain[h] /\ Genesis \in Chain[h]
             /\ \A x \in Chain[h] :
                  /\ Chain[x] \subseteq Chain[h]
                  /\ headers'[x].height <= headers'[h].height
             /\ \A x, y \in Chain[h] :
                  headers'[x].height = headers'[y].height => x = y
  BY <1>1, <1>5 DEF Tree
<1>6. CASE b \in Stored
  BY <1>1, <1>5, <1>6 DEF Tree
<1>7. CASE b \notin Stored
  <2> DEFINE p == Prev[b]
  <2>1. p \in Hash /\ Chain[b] = {b} \cup Chain[p]
    BY <1>1, ChainStep DEF TypeOK
  <2>2. headers'[b].height = headers'[p].height + 1
    BY <1>1 DEF Extend
  <2>3. \A x \in Chain[p] :
          /\ x \in Stored /\ Chain[x] \subseteq Chain[p]
          /\ headers'[x].height <= headers'[p].height
    BY <1>1, <1>5 DEF Tree
  <2>4. \A x \in Chain[p] : headers'[x].height < headers'[b].height
    BY <1>1, <1>4, <2>2, <2>3
  <2>5. /\ Chain[b] \subseteq Stored'
        /\ b \in Chain[b] /\ Genesis \in Chain[b]
        /\ \A x \in Chain[b] : Chain[x] \subseteq Chain[b]
    BY <1>1, <1>5, <2>1, <2>3
  <2>6. \A x \in Chain[b] : headers'[x].height <= headers'[b].height
    BY <1>1, <1>4, <2>1, <2>3, <2>4
  <2>7. ASSUME NEW x \in Chain[b], NEW y \in Chain[b],
               headers'[x].height = headers'[y].height
        PROVE  x = y
    <3>1. CASE x \in Chain[p] /\ y \in Chain[p]
      BY <1>1, <1>5, <2>7, <3>1
    <3>2. CASE x = b \/ y = b
      BY <1>1, <1>4, <2>1, <2>3, <2>4, <2>7, <3>2
    <3> QED BY <2>1, <3>1, <3>2
  <2> QED BY <1>1, <1>5, <2>5, <2>6, <2>7 DEF Tree
<1> QED BY <1>6, <1>7

(* Only accepting a block writes headers.                                  *)
LEMMA OtherStep ==
  ASSUME [Next]_vars, ~ \E b \in Hash : CommitBlock(b)
  PROVE  headers' = headers
BY DEF Next, Commit, Step, vars, CommitOrphan, CommitIgnored, PutTip, PutIndex,
   PutTxs, PutForkTxs, getCommonAncestor, StartReorganize, MoveToFork, DelTxs,
   StartConnect, MoveToMain, ConnectError, FinishReorganize, TxsError, Crash

(* The stored headers are a tree at every moment: CommitBlock only stores a*)
(* block whose parent is stored, and never rewrites a header.              *)
THEOREM TreeInvariance == Spec => []Tree
<1>1. IInv /\ Tree /\ [Next]_vars => Tree'
  <2> SUFFICES ASSUME IInv, Tree, [Next]_vars PROVE Tree'
    OBVIOUS
  <2>1. CASE \E b \in Hash : CommitBlock(b)
    BY <2>1, TreeCommit
  <2>2. CASE ~ \E b \in Hash : CommitBlock(b)
    <3>1. headers' = headers
      BY <2>2, OtherStep
    <3> QED BY <3>1 DEF Tree
  <2> QED BY <2>1, <2>2
<1> QED BY <1>1, TreeInit, Invariance, PTL DEF Spec

----------------------------------------------------------------------------
(* The walks of a reorganisation.                                          *)

(* Rolling the walk that is not below the other one back to its parent     *)
(* takes nothing away that the two branches share.                         *)
LEMMA RollbackShares ==
  ASSUME TypeOK, HeadersConnected, Tree,
         NEW a \in Stored, NEW b \in Stored, a # b,
         headers[a].height >= headers[b].height
  PROVE  /\ a # Genesis /\ Rollback(a) = Prev[a] /\ Prev[a] \in Stored
         /\ Prev[a] \in Chain[a]
         /\ a \notin Chain[b]
         /\ Chain[a] = {a} \cup Chain[Prev[a]]
<1>1. a \notin Chain[b]
  <2> SUFFICES ASSUME a \in Chain[b] PROVE FALSE
    OBVIOUS
  <2>1. headers[a].height <= headers[b].height /\ b \in Chain[b]
    BY DEF Tree
  <2>2. headers[a].height \in Nat /\ headers[b].height \in Nat
    BY DEF TypeOK
  <2>3. headers[a].height = headers[b].height
    BY <2>1, <2>2
  <2> QED BY <2>1, <2>3 DEF Tree
<1>2. a # Genesis
  BY <1>1 DEF Tree
<1>3. Prev[a] \in Stored /\ Chain[a] = {a} \cup Chain[Prev[a]]
  BY <1>2, BranchStep
<1>4. Prev[a] \in Chain[a]
  BY <1>3 DEF Tree
<1> QED BY <1>1, <1>2, <1>3, <1>4 DEF Rollback, HasPrevious

(* Going down from the old tip, a block above the common ancestor is not   *)
(* on the ancestor's branch.                                               *)
LEMMA AboveRoot ==
  ASSUME TypeOK, HeadersConnected, Tree,
         NEW m \in Stored, NEW r \in Chain[m], m # r
  PROVE  /\ m \notin Chain[r] /\ m # Genesis
         /\ Rollback(m) = Prev[m] /\ Prev[m] \in Stored
         /\ Prev[m] \in Chain[m] /\ r \in Chain[Prev[m]]
<1>1. r \in Stored /\ headers[m].height >= headers[r].height
  <2>1. /\ r \in Stored /\ headers[r].height <= headers[m].height
    BY DEF Tree
  <2>2. headers[m].height \in Nat /\ headers[r].height \in Nat
    BY <2>1 DEF TypeOK
  <2> QED BY <2>1, <2>2
<1>2. /\ m \notin Chain[r] /\ m # Genesis
      /\ Rollback(m) = Prev[m] /\ Prev[m] \in Stored
      /\ Prev[m] \in Chain[m] /\ Chain[m] = {m} \cup Chain[Prev[m]]
  BY <1>1, RollbackShares
<1> QED BY <1>2

(* Every step of getCommonAncestor and ProcessReorganize keeps the walks   *)
(* where they should be; no other step moves them while a call needs them. *)
LEMMA WalksStep ==
  ASSUME IInv, Tree, Walks, [Next]_vars
  PROVE  Walks'
<1> USE DEF IInv
<1>0. /\ blk \in Stored /\ best \in Stored /\ major \in Stored
      /\ minor \in Stored /\ root \in Stored
  BY DEF TypeOK
<1>1. CASE pc' \in {"idle", "tip", "index", "txs"}
  BY <1>1 DEF Walks
<1>2. CASE PutTxs /\ pc' = "ancestor"
  <2>1. major' = blk /\ minor' = best /\ blk' = blk /\ best' = best
    BY <1>2 DEF PutTxs
  <2>2. blk \in Chain[blk] /\ best \in Chain[best]
    BY <1>0 DEF Tree
  <2> QED BY <1>2, <2>1, <2>2 DEF Walks
<1>3. CASE getCommonAncestor
  <2>1. /\ pc = "ancestor" /\ pc' = pc /\ major # minor
        /\ blk' = blk /\ best' = best /\ root' = root
        /\ major' = IF headers[major].height >= headers[minor].height
                      THEN Rollback(major) ELSE major
        /\ minor' = IF headers[minor].height >= headers[major].height
                      THEN Rollback(minor) ELSE minor
    BY <1>3 DEF getCommonAncestor
  <2>2. /\ major \in Chain[blk] /\ minor \in Chain[best]
        /\ Chain[major] \cap Chain[minor] = Chain[blk] \cap Chain[best]
    BY <2>1 DEF Walks
  <2>3. Chain[major] \subseteq Chain[blk] /\ Chain[minor] \subseteq Chain[best]
    BY <1>0, <2>2 DEF Tree
  <2>4. headers[major].height \in Nat /\ headers[minor].height \in Nat
    BY <1>0 DEF TypeOK
  <2>5. headers[major].height >= headers[minor].height =>
          /\ Rollback(major) = Prev[major]
          /\ Prev[major] \in Chain[major] /\ major \notin Chain[minor]
          /\ Chain[major] = {major} \cup Chain[Prev[major]]
    BY <1>0, <2>1, RollbackShares
  <2>6. headers[minor].height >= headers[major].height =>
          /\ Rollback(minor) = Prev[minor]
          /\ Prev[minor] \in Chain[minor] /\ minor \notin Chain[major]
          /\ Chain[minor] = {minor} \cup Chain[Prev[minor]]
    BY <1>0, <2>1, RollbackShares
  <2>7. major' \in Chain[blk] /\ minor' \in Chain[best]
    BY <2>1, <2>2, <2>3, <2>5, <2>6
  <2>8. Chain[major'] \cap Chain[minor'] = Chain[major] \cap Chain[minor]
    <3>1. CASE headers[major].height = headers[minor].height
      <4>1. major' = Prev[major] /\ minor' = Prev[minor]
        BY <2>1, <2>4, <2>5, <2>6, <3>1
      <4>2. /\ major \notin Chain[minor] /\ minor \notin Chain[major]
            /\ Chain[major] = {major} \cup Chain[Prev[major]]
            /\ Chain[minor] = {minor} \cup Chain[Prev[minor]]
        BY <2>4, <2>5, <2>6, <3>1
      <4> QED BY <4>1, <4>2
    <3>2. CASE headers[major].height > headers[minor].height
      <4>1. major' = Prev[major] /\ minor' = minor
        BY <2>1, <2>4, <2>5, <3>2
      <4>2. /\ major \notin Chain[minor]
            /\ Chain[major] = {major} \cup Chain[Prev[major]]
        BY <2>4, <2>5, <3>2
      <4> QED BY <4>1, <4>2
    <3>3. CASE headers[minor].height > headers[major].height
      <4>1. major' = major /\ minor' = Prev[minor]
        BY <2>1, <2>4, <2>6, <3>3
      <4>2. /\ minor \notin Chain[major]
            /\ Chain[minor] = {minor} \cup Chain[Prev[minor]]
        BY <2>4, <2>6, <3>3
      <4> QED BY <4>1, <4>2
    <3> QED BY <2>4, <3>1, <3>2, <3>3
  <2> QED BY <2>1, <2>2, <2>7, <2>8 DEF Walks
<1>4. CASE StartReorganize
  <2>1. /\ pc = "ancestor" /\ major = minor /\ root' = major /\ minor' = best
        /\ pc' = "disconnect" /\ blk' = blk /\ best' = best
    BY <1>4 DEF StartReorganize
  <2>2. /\ minor \in Chain[best]
        /\ Chain[major] \cap Chain[minor] = Chain[blk] \cap Chain[best]
    BY <2>1 DEF Walks
  <2>3. best \in Chain[best]
    BY <1>0 DEF Tree
  <2> QED BY <2>1, <2>2, <2>3 DEF Walks
<1>5. CASE MoveToFork
  BY <1>5 DEF MoveToFork, Walks
<1>6. CASE DelTxs
  <2>1. /\ pc = "delete" /\ pc' = "disconnect" /\ minor' = Rollback(minor)
        /\ root' = root /\ blk' = blk /\ best' = best
    BY <1>6 DEF DelTxs
  <2>2. minor \in Chain[best] /\ root \in Chain[minor] /\ minor # root
    BY <2>1 DEF Walks
  <2>3. /\ minor' = Prev[minor] /\ Prev[minor] \in Chain[minor]
        /\ root \in Chain[Prev[minor]]
    BY <1>0, <2>1, <2>2, AboveRoot
  <2>4. Prev[minor] \in Chain[best]
    BY <1>0, <2>2, <2>3 DEF Tree
  <2> QED BY <2>1, <2>3, <2>4 DEF Walks
<1>7. CASE StartConnect \/ MoveToMain
  <2>1. /\ pc \in {"disconnect", "connect"} /\ pc' = "connect" /\ minor' \in SubChain
        /\ root' = root /\ blk' = blk /\ best' = best
    BY <1>7 DEF StartConnect, MoveToMain, NextHeader
  <2> QED BY <2>1 DEF Walks, SubChain
<1>8. CASE UNCHANGED vars
  BY <1>8 DEF vars, Walks, SubChain
<1>9. ASSUME NEW b \in Hash, CommitBlock(b) PROVE pc' \in {"tip", "index"}
  BY <1>9 DEF CommitBlock
<1>10. CASE \/ \E b \in Hash : CommitOrphan(b) \/ CommitIgnored(b)
            \/ PutTip \/ PutIndex \/ PutForkTxs \/ ConnectError
            \/ FinishReorganize \/ TxsError \/ Crash
  BY <1>1, <1>10 DEF CommitOrphan, CommitIgnored, PutTip, PutIndex, PutForkTxs,
     ConnectError, FinishReorganize, TxsError, Crash
<1>11. PutTxs => pc' \in {"ancestor", "idle"}
  BY DEF PutTxs
<1> QED BY <1>1, <1>2, <1>3, <1>4, <1>5, <1>6, <1>7, <1>8, <1>9, <1>10, <1>11
        DEF Next, Commit, Step

(* At every moment the walks of the call in progress are where Walks says. *)
THEOREM WalksInvariance == Spec => []Walks
<1>1. Init => Walks
  BY DEF Init, Walks
<1>2. IInv /\ Tree /\ Walks /\ [Next]_vars => Walks'
  BY WalksStep
<1> QED BY <1>1, <1>2, Invariance, TreeInvariance, PTL DEF Spec

(* A reorganisation works on exactly the two branches: the walk down goes  *)
(* from the old tip to a block both branches have and no further, the walk *)
(* up stays above it on the new branch, for any work and any faults.       *)
THEOREM ReorganizeBounded == Spec => []RootReached
<1>1. IInv /\ Tree /\ Walks => RootReached
  <2> SUFFICES ASSUME IInv, Tree, Walks PROVE RootReached
    OBVIOUS
  <2>0. root \in Stored /\ minor \in Stored
    BY DEF IInv, TypeOK
  <2>1. pc \in {"disconnect", "delete", "connect"} =>
          root \in Chain[best] \cap Chain[blk]
    BY <2>0 DEF Walks, Tree
  <2>2. pc = "delete" => minor \notin Chain[root] /\ Prev[minor] \in Stored
    BY <2>0, AboveRoot DEF Walks, IInv
  <2> QED BY <2>1, <2>2 DEF Walks, RootReached, HasPrevious
<1> QED BY <1>1, Invariance, TreeInvariance, WalksInvariance, PTL

----------------------------------------------------------------------------
(* Heavier and higher.                                                     *)

(* A commit that makes a new tip found it heavier than the one before.     *)
THEOREM NewTipHeavierInvariance == Spec => []NewTipHeavier
<1>1. Init => NewTipHeavier
  BY DEF Init, NewTipHeavier
<1>2. ASSUME IInv, NewTipHeavier, [Next]_vars PROVE NewTipHeavier'
  <2> USE <1>2 DEF IInv
  <2>1. ASSUME NEW b \in Hash, CommitBlock(b) PROVE NewTipHeavier'
    <3>1. /\ \A h \in Stored : headers'[h] = headers[h]
          /\ headers'[b] = Extend(b)
      BY <2>1, HeadersKept
    <3>2. /\ blk' = b /\ best' = cacheTip /\ cacheTip \in Stored
          /\ newTip' = Heavier(b)
      BY <2>1 DEF CommitBlock, TypeOK
    <3> QED BY <3>1, <3>2 DEF NewTipHeavier, Heavier
  <2>2. CASE ~ \E b \in Hash : CommitBlock(b)
    <3>1. headers' = headers
      BY <2>2, OtherStep
    <3>2. /\ blk' = blk /\ best' = best /\ newTip' = newTip
          /\ pc = "idle" => pc' = "idle"
      BY <2>2 DEF Next, Commit, Step, vars, CommitOrphan, CommitIgnored, PutTip,
         PutIndex, PutTxs, PutForkTxs, getCommonAncestor, StartReorganize,
         MoveToFork, DelTxs, StartConnect, MoveToMain, ConnectError,
         FinishReorganize, TxsError, Crash
    <3> QED BY <3>1, <3>2 DEF NewTipHeavier
  <2> QED BY <2>1, <2>2
<1> QED BY <1>1, <1>2, Invariance, PTL DEF Spec

(* Two blocks compare as their parents do when all work is equal, and      *)
(* genesis is below and lighter than every other block.                    *)
LEMMA WorkIsHeightCommit ==
  ASSUME EqualWork, IInv, WorkIsHeight, NEW b \in Hash, CommitBlock(b)
  PROVE  WorkIsHeight'
<1> USE DEF IInv
<1>1. /\ Stored' = Stored \cup {b}
      /\ \A h \in Stored : headers'[h] = headers[h]
      /\ Prev[b] \in Stored
  BY HeadersKept
<1>2. TypeOK' /\ HeadersConnected'
  BY CommitBlockInv
<1>3. ASSUME NEW h \in Stored', h # Genesis
      PROVE  /\ Prev[h] \in Stored
             /\ headers'[h].height = headers[Prev[h]].height + 1
             /\ headers'[h].work = headers[Prev[h]].work + Work[h]
             /\ Work[h] \in Nat \ {0}
             /\ headers[Prev[h]].height \in Nat /\ headers[Prev[h]].work \in Nat
  <2>1. Prev[h] \in Stored
    BY <1>1, <1>3 DEF HeadersConnected
  <2>2. /\ headers'[h].height = headers'[Prev[h]].height + 1
        /\ headers'[h].work = headers'[Prev[h]].work + Work[h]
    BY <1>2, <1>3 DEF HeadersConnected
  <2>3. h \in Hash
    BY <1>2 DEF TypeOK
  <2>4. Work[h] \in Nat \ {0}
    BY <2>3, ConstantsAssumption
  <2>5. headers[Prev[h]].height \in Nat /\ headers[Prev[h]].work \in Nat
    BY <2>1 DEF TypeOK
  <2> QED BY <1>1, <2>1, <2>2, <2>4, <2>5
<1>4. headers'[Genesis].height = 0 /\ headers'[Genesis].work = 0
  BY <1>2 DEF HeadersConnected
<1> SUFFICES ASSUME NEW h \in Stored', NEW k \in Stored'
             PROVE  headers'[h].work > headers'[k].work
                      <=> headers'[h].height > headers'[k].height
  BY DEF WorkIsHeight
<1>5. CASE h # Genesis /\ k # Genesis
  <2>1. Work[h] = Work[k]
    <3>1. h \in Hash /\ k \in Hash
      BY <1>2 DEF TypeOK
    <3> QED BY <3>1 DEF EqualWork
  <2>2. headers[Prev[h]].work > headers[Prev[k]].work
          <=> headers[Prev[h]].height > headers[Prev[k]].height
    BY <1>3, <1>5 DEF WorkIsHeight
  <2>3. Prev[h] \in Stored /\ Prev[k] \in Stored
    BY <1>3, <1>5
  <2> DEFINE wh == headers[Prev[h]].work
             wk == headers[Prev[k]].work
             hh == headers[Prev[h]].height
             hk == headers[Prev[k]].height
             w  == Work[h]
  <2>4. /\ headers'[h].work = wh + w /\ headers'[k].work = wk + w
        /\ headers'[h].height = hh + 1 /\ headers'[k].height = hk + 1
    BY <1>3, <1>5, <2>1
  <2>5. wh \in Nat /\ wk \in Nat /\ hh \in Nat /\ hk \in Nat /\ w \in Nat
    BY <1>3, <1>5
  <2>6. wh > wk <=> hh > hk
    BY <2>2
  <2> HIDE DEF wh, wk, hh, hk, w
  <2> QED BY <2>4, <2>5, <2>6
<1>6. CASE h = Genesis /\ k # Genesis
  BY <1>3, <1>4, <1>6
<1>7. CASE h # Genesis /\ k = Genesis
  BY <1>3, <1>4, <1>7
<1>8. CASE h = Genesis /\ k = Genesis
  BY <1>4, <1>8
<1> QED BY <1>5, <1>6, <1>7, <1>8

(* With equal work every new tip is higher than the one it replaces.       *)
THEOREM EqualWorkHigher ==
  ASSUME EqualWork
  PROVE  Spec => []NewTipHigher
<1>1. Init => WorkIsHeight
  BY DEF Init, WorkIsHeight
<1>2. IInv /\ WorkIsHeight /\ [Next]_vars => WorkIsHeight'
  <2> SUFFICES ASSUME IInv, WorkIsHeight, [Next]_vars PROVE WorkIsHeight'
    OBVIOUS
  <2>1. CASE \E b \in Hash : CommitBlock(b)
    BY <2>1, WorkIsHeightCommit
  <2>2. CASE ~ \E b \in Hash : CommitBlock(b)
    <3>1. headers' = headers
      BY <2>2, OtherStep
    <3> QED BY <3>1 DEF WorkIsHeight
  <2> QED BY <2>1, <2>2
<1>3. IInv /\ WorkIsHeight /\ NewTipHeavier => NewTipHigher
  BY DEF IInv, TypeOK, WorkIsHeight, NewTipHeavier, NewTipHigher
<1> QED BY <1>1, <1>2, <1>3, Invariance, NewTipHeavierInvariance, PTL DEF Spec

----------------------------------------------------------------------------
(* The transaction database.                                               *)

(* Filing one more block.                                                  *)
LEMMA FiledAdd ==
  ASSUME NEW S, NEW x, x # Genesis
  PROVE  Filed(S \cup {x}) = Filed(S) \cup {<<headers[x].height, x>>}
BY DEF Filed

(* When the new tip is above a branch, the branch and the new tip have at  *)
(* most one block of a height, so GetTxs finds that block and DelTxs       *)
(* removes it and nothing else.                                            *)
LEMMA FiledOne ==
  ASSUME TypeOK, HeadersConnected, Tree, NEW m \in Stored, m # Genesis,
         headers[blk].height > headers[m].height,
         main = Filed(Chain[m] \cup {blk})
  PROVE  /\ GetTxs(headers[m].height) = {m}
         /\ {e \in main : e[1] # headers[m].height} =
              Filed(Chain[Prev[m]] \cup {blk})
<1> DEFINE n == headers[m].height
<1>1. Prev[m] \in Stored /\ Chain[m] = {m} \cup Chain[Prev[m]]
  BY BranchStep
<1>2. m \in Chain[m]
  BY DEF Tree
<1>3. n \in Nat /\ headers[blk].height \in Nat /\ headers[blk].height # n
  BY DEF TypeOK
<1>4. \A h \in Chain[m] \cup {blk} : headers[h].height = n <=> h = m
  BY <1>2, <1>3 DEF Tree
<1>5. \A e : e \in main <=> \E h \in (Chain[m] \cup {blk}) \ {Genesis} :
                              e = <<headers[h].height, h>>
  BY DEF Filed
<1>6. GetTxs(n) = {m}
  <2>1. ASSUME NEW t \in GetTxs(n) PROVE t = m
    <3>1. PICK e \in main : e[1] = n /\ t = e[2]
      BY <2>1 DEF GetTxs
    <3>2. PICK h \in (Chain[m] \cup {blk}) \ {Genesis} :
            e = <<headers[h].height, h>>
      BY <1>5, <3>1
    <3> QED BY <1>4, <3>1, <3>2
  <2>2. <<n, m>> \in main
    BY <1>2, <1>5
  <2>3. m \in GetTxs(n)
    BY <2>2 DEF GetTxs
  <2> QED BY <2>1, <2>3
<1>7. m \notin Chain[Prev[m]] /\ m # blk
  <2>1. headers[m].height = headers[Prev[m]].height + 1
    BY DEF HeadersConnected
  <2>2. headers[Prev[m]].height \in Nat
    BY <1>1 DEF TypeOK
  <2>3. m \in Chain[Prev[m]] => headers[m].height <= headers[Prev[m]].height
    BY <1>1 DEF Tree
  <2> QED BY <1>3, <2>1, <2>2, <2>3
<1>8. {e \in main : e[1] # n} = Filed(Chain[Prev[m]] \cup {blk})
  <2>1. ASSUME NEW e \in main, e[1] # n
        PROVE  e \in Filed(Chain[Prev[m]] \cup {blk})
    <3>1. PICK h \in (Chain[m] \cup {blk}) \ {Genesis} :
            e = <<headers[h].height, h>>
      BY <1>5, <2>1
    <3>2. h \in (Chain[Prev[m]] \cup {blk}) \ {Genesis}
      BY <1>1, <2>1, <3>1
    <3> QED BY <3>1, <3>2 DEF Filed
  <2>2. ASSUME NEW e \in Filed(Chain[Prev[m]] \cup {blk})
        PROVE  e \in main /\ e[1] # n
    <3>1. PICK h \in (Chain[Prev[m]] \cup {blk}) \ {Genesis} :
            e = <<headers[h].height, h>>
      BY <2>2 DEF Filed
    <3>2. h \in (Chain[m] \cup {blk}) \ {Genesis} /\ h # m
      BY <1>1, <1>7, <3>1
    <3> QED BY <1>4, <1>5, <3>1, <3>2
  <2> QED BY <2>1, <2>2
<1> QED BY <1>6, <1>8

(* Every step of a commit that nothing disturbs.                           *)
LEMMA TxsFollowStep ==
  ASSUME IInv, Tree, Walks, NewTipHigher, TxsFollow, Next,
         ~TxsError, ~Crash
  PROVE  TxsFollow'
<1> USE DEF IInv
<1>0. /\ blk \in Stored /\ best \in Stored /\ cacheTip \in Stored
      /\ minor \in Stored /\ root \in Stored
      /\ Stored \subseteq Hash
  BY DEF TypeOK
<1>1. ASSUME pc # "idle", newTip
      PROVE  /\ headers[blk].height > headers[best].height
             /\ blk # Genesis /\ blk \notin Chain[best]
             /\ \A h \in Chain[best] : headers[blk].height > headers[h].height
  <2>1. headers[blk].height > headers[best].height
    BY <1>1 DEF NewTipHigher
  <2>2. \A h \in Chain[best] : headers[h].height <= headers[best].height
    BY <1>0 DEF Tree
  <2>3. \A h \in Stored : headers[h].height \in Nat
    BY DEF TypeOK
  <2>4. Chain[best] \subseteq Stored /\ Genesis \in Chain[best]
    BY <1>0 DEF Tree
  <2>5. \A h \in Chain[best] : headers[blk].height > headers[h].height
    BY <1>0, <2>1, <2>2, <2>3, <2>4
  <2> QED BY <1>0, <2>1, <2>3, <2>4, <2>5
<1>2. ASSUME NEW b \in Hash, CommitBlock(b) PROVE TxsFollow'
  <2>1. /\ Stored' = Stored \cup {b}
        /\ \A h \in Stored : headers'[h] = headers[h]
    BY <1>2, HeadersKept
  <2>2. /\ pc = "idle" /\ pc' \in {"tip", "index"}
        /\ blk' = b /\ best' = cacheTip /\ main' = main /\ fork' = fork
        /\ ~newTip' => cacheTip' = cacheTip
    BY <1>2 DEF CommitBlock
  <2>3. main = Filed(Chain[cacheTip]) /\ Kept(Stored \ Chain[cacheTip])
    BY <2>2 DEF TxsFollow
  <2>4. Chain[cacheTip] \subseteq Stored
    BY <1>0 DEF Tree
  <2>5. main' = Filed(Chain[best])'
    BY <2>1, <2>2, <2>3, <2>4 DEF Filed
  <2>6. Kept(Stored \ (Chain[best] \cup {blk}))'
    BY <2>1, <2>2, <2>3 DEF Kept
  <2> QED BY <2>2, <2>5, <2>6 DEF TxsFollow
<1>3. CASE \E b \in Hash : CommitOrphan(b) \/ CommitIgnored(b)
  <2>1. /\ headers' = headers /\ main' = main /\ fork' = fork
        /\ cacheTip' = cacheTip /\ pc = "idle" /\ pc' = "idle"
    BY <1>3 DEF CommitOrphan, CommitIgnored
  <2> QED BY <2>1 DEF TxsFollow, Filed, Kept
<1>4. CASE PutTip \/ PutIndex
  <2>1. /\ headers' = headers /\ main' = main /\ fork' = fork
        /\ cacheTip' = cacheTip /\ blk' = blk /\ best' = best
        /\ newTip' = newTip
        /\ pc \in {"tip", "index"} /\ pc' \in {"index", "txs"}
    BY <1>4 DEF PutTip, PutIndex
  <2> QED BY <2>1 DEF TxsFollow, Filed, Kept
<1>5. CASE PutTxs
  <2>1. /\ headers' = headers /\ fork' = fork /\ cacheTip' = cacheTip
        /\ blk' = blk /\ best' = best /\ newTip' = newTip /\ newTip
        /\ pc = "txs" /\ main' = main \cup {<<headers[blk].height, blk>>}
    BY <1>5 DEF PutTxs
  <2>2. main = Filed(Chain[best]) /\ Kept(Stored \ (Chain[best] \cup {blk}))
    BY <2>1 DEF TxsFollow
  <2>3. main' = Filed(Chain[best] \cup {blk})
    BY <1>1, <2>1, <2>2, FiledAdd
  <2>4. CASE Reorg
    <3>1. pc' = "ancestor"
      BY <1>5, <2>4 DEF PutTxs
    <3> QED BY <2>1, <2>2, <2>3, <3>1 DEF TxsFollow, Filed, Kept
  <2>5. CASE ~Reorg
    <3>1. pc' = "idle" /\ Prev[blk] = best
      BY <1>5, <2>1, <2>5 DEF PutTxs, Reorg
    <3>2. cacheTip = blk
      BY <2>1 DEF TipsAgree
    <3>3. Chain[blk] = Chain[best] \cup {blk}
      BY <1>0, <1>1, <2>1, <3>1, BranchStep
    <3> QED BY <2>1, <2>2, <2>3, <3>1, <3>2, <3>3 DEF TxsFollow, Filed, Kept
  <2> QED BY <2>4, <2>5
<1>6. CASE PutForkTxs
  <2>1. /\ headers' = headers /\ main' = main /\ cacheTip' = cacheTip
        /\ pc = "txs" /\ pc' = "idle" /\ ~newTip
        /\ fork' = [fork EXCEPT ![blk] = {blk}]
    BY <1>6 DEF PutForkTxs
  <2>2. /\ main = Filed(Chain[cacheTip]) /\ cacheTip = best
        /\ Kept(Stored \ (Chain[best] \cup {blk}))
    BY <2>1 DEF TxsFollow
  <2>3. fork'[blk] = {blk} /\ \A h \in Hash : h # blk => fork'[h] = fork[h]
    BY <1>0, <2>1 DEF TypeOK
  <2>4. Kept(Stored \ Chain[cacheTip])'
    BY <1>0, <2>1, <2>2, <2>3 DEF Kept
  <2> QED BY <2>1, <2>2, <2>4 DEF TxsFollow, Filed
<1>7. CASE getCommonAncestor
  <2>1. /\ headers' = headers /\ main' = main /\ fork' = fork
        /\ blk' = blk /\ best' = best
        /\ pc = "ancestor" /\ pc' = "ancestor"
    BY <1>7 DEF getCommonAncestor
  <2> QED BY <2>1 DEF TxsFollow, Filed, Kept
<1>8. CASE StartReorganize
  <2>1. /\ headers' = headers /\ main' = main /\ fork' = fork
        /\ blk' = blk /\ best' = best /\ minor' = best
        /\ pc = "ancestor" /\ pc' = "disconnect"
    BY <1>8 DEF StartReorganize
  <2> QED BY <2>1 DEF TxsFollow, Filed, Kept
<1>9. CASE MoveToFork
  <2>1. /\ headers' = headers /\ main' = main /\ blk' = blk /\ minor' = minor
        /\ pc = "disconnect" /\ pc' = "delete" /\ minor # root
        /\ fork' = [fork EXCEPT ![minor] = GetTxs(headers[minor].height)]
    BY <1>9 DEF MoveToFork
  <2>2. /\ main = Filed(Chain[minor] \cup {blk})
        /\ Kept(Stored \ (Chain[minor] \cup {blk}))
    BY <2>1 DEF TxsFollow
  <2>3. minor \in Chain[best] /\ root \in Chain[minor]
    BY <2>1 DEF Walks
  <2>4. minor # Genesis
    BY <1>0, <2>1, <2>3, AboveRoot
  <2>5. headers[blk].height > headers[minor].height
    BY <1>1, <2>1, <2>3 DEF TipsAgree
  <2>6. GetTxs(headers[minor].height) = {minor}
    BY <1>0, <2>2, <2>4, <2>5, FiledOne
  <2>7. /\ fork'[minor] = {minor}
        /\ \A h \in Hash : h # minor => fork'[h] = fork[h]
    BY <1>0, <2>1, <2>6 DEF TypeOK
  <2>8. Chain[minor] = {minor} \cup Chain[Prev[minor]]
    BY <1>0, <2>4, BranchStep
  <2>9. Kept(Stored \ (Chain[Prev[minor]] \cup {blk}))'
    BY <1>0, <2>1, <2>2, <2>7, <2>8 DEF Kept
  <2> QED BY <2>1, <2>2, <2>9 DEF TxsFollow, Filed
<1>10. CASE DelTxs
  <2>1. /\ headers' = headers /\ fork' = fork /\ blk' = blk
        /\ minor' = Rollback(minor) /\ pc = "delete" /\ pc' = "disconnect"
        /\ main' = {e \in main : e[1] # headers[minor].height}
    BY <1>10 DEF DelTxs
  <2>2. /\ main = Filed(Chain[minor] \cup {blk})
        /\ Kept(Stored \ (Chain[Prev[minor]] \cup {blk}))
    BY <2>1 DEF TxsFollow
  <2>3. minor \in Chain[best] /\ root \in Chain[minor] /\ minor # root
    BY <2>1 DEF Walks
  <2>4. minor # Genesis /\ minor' = Prev[minor]
    BY <1>0, <2>1, <2>3, AboveRoot
  <2>5. headers[blk].height > headers[minor].height
    BY <1>1, <2>1, <2>3 DEF TipsAgree
  <2>6. main' = Filed(Chain[Prev[minor]] \cup {blk})
    BY <1>0, <2>1, <2>2, <2>4, <2>5, FiledOne
  <2> QED BY <2>1, <2>2, <2>4, <2>6 DEF TxsFollow, Filed, Kept
<1>11. CASE StartConnect
  <2>1. /\ headers' = headers /\ main' = main /\ fork' = fork
        /\ blk' = blk /\ root' = root /\ minor = root /\ Prev[minor'] = root
        /\ pc = "disconnect" /\ pc' = "connect"
    BY <1>11 DEF StartConnect, NextHeader
  <2> QED BY <2>1 DEF TxsFollow, Filed, Kept
<1>12. CASE pc = "connect" /\ minor # blk
  <2>1. fork[minor] = {minor}
    BY <1>0, <1>12 DEF TxsFollow, Kept, Walks, SubChain
  <2>2. fork[minor] # None
    BY <1>0, <2>1, NoneAssumption
  <2>3. MoveToMain
    BY <1>12, <2>2 DEF Next, Commit, Step, CommitOrphan, CommitIgnored,
       CommitBlock, PutTip, PutIndex, PutTxs, PutForkTxs, getCommonAncestor,
       StartReorganize, MoveToFork, DelTxs, StartConnect, ConnectError,
       FinishReorganize
  <2>4. /\ headers' = headers /\ fork' = fork /\ blk' = blk /\ root' = root
        /\ Prev[minor'] = minor /\ pc' = "connect"
        /\ main' = main \cup {<<headers[minor].height, t>> : t \in fork[minor]}
    BY <2>3 DEF MoveToMain, NextHeader
  <2>5. /\ main = Filed(Chain[Prev[minor]] \cup {blk})
        /\ Kept(Stored \ (Chain[root] \cup {blk}))
    BY <1>12 DEF TxsFollow
  <2>6. minor # Genesis
    BY <1>0, <1>12 DEF Walks, SubChain, Tree
  <2>7. Chain[minor] = {minor} \cup Chain[Prev[minor]]
    BY <1>0, <2>6, BranchStep
  <2>8. main' = main \cup {<<headers[minor].height, minor>>}
    BY <2>1, <2>4
  <2>9. main' = Filed((Chain[Prev[minor]] \cup {blk}) \cup {minor})
    BY <2>5, <2>6, <2>8, FiledAdd
  <2>10. (Chain[Prev[minor]] \cup {blk}) \cup {minor} = Chain[minor] \cup {blk}
    BY <2>7
  <2> QED BY <2>4, <2>5, <2>9, <2>10 DEF TxsFollow, Filed, Kept
<1>13. CASE FinishReorganize
  <2>1. /\ headers' = headers /\ main' = main /\ fork' = fork
        /\ cacheTip' = blk /\ minor = blk /\ pc = "connect" /\ pc' = "idle"
    BY <1>13 DEF FinishReorganize
  <2>2. /\ main = Filed(Chain[Prev[blk]] \cup {blk})
        /\ Kept(Stored \ (Chain[root] \cup {blk}))
    BY <2>1 DEF TxsFollow
  <2>3. blk # Genesis
    BY <1>1, <2>1 DEF TipsAgree
  <2>4. Chain[blk] = Chain[Prev[blk]] \cup {blk}
    BY <1>0, <2>3, BranchStep
  <2>5. Chain[root] \subseteq Chain[blk]
    BY <2>1 DEF Walks
  <2> QED BY <2>1, <2>2, <2>4, <2>5 DEF TxsFollow, Filed, Kept
<1> QED BY <1>2, <1>3, <1>4, <1>5, <1>6, <1>7, <1>8, <1>9, <1>10, <1>11, <1>12,
           <1>13 DEF Next, Commit, Step, MoveToMain, ConnectError

(* While nothing has failed, and as long as every new tip is higher than   *)
(* the one it replaces, the transaction database follows the chain at      *)
(* every stage of every commit.                                            *)
THEOREM TxsFollowInvariance ==
  Spec /\ []NewTipHigher => [](faults = 0 => TxsFollow)
<1> DEFINE Follow == faults = 0 => TxsFollow
<1>1. Init => Follow
  <2> SUFFICES ASSUME Init PROVE TxsFollow
    OBVIOUS
  <2>1. IInv
    BY InitInv
  <2>2. Genesis \in Stored /\ Stored = {Genesis}
    BY DEF Init
  <2>3. Chain[Genesis] = {Genesis}
    BY <2>1, <2>2, BranchStep DEF IInv
  <2>4. main = {} /\ cacheTip = Genesis /\ pc = "idle"
    BY DEF Init
  <2> QED BY <2>2, <2>3, <2>4 DEF TxsFollow, Filed, Kept
<1>2. IInv /\ Tree /\ Walks /\ NewTipHigher /\ Follow /\ [Next]_vars => Follow'
  <2> SUFFICES ASSUME IInv, Tree, Walks, NewTipHigher, Follow, [Next]_vars,
                      faults' = 0
               PROVE  TxsFollow'
    OBVIOUS
  <2>1. ~TxsError /\ ~Crash
    BY DEF TxsError, Crash, IInv, TypeOK
  <2>2. CASE Next
    <3>1. faults = 0
      BY <2>1, <2>2 DEF Next, Commit, Step, CommitOrphan, CommitIgnored,
         CommitBlock, PutTip, PutIndex, PutTxs, PutForkTxs, getCommonAncestor,
         StartReorganize, MoveToFork, DelTxs, StartConnect, MoveToMain,
         ConnectError, FinishReorganize
    <3> QED BY <2>1, <2>2, <3>1, TxsFollowStep
  <2>3. CASE UNCHANGED vars
    BY <2>3 DEF vars, TxsFollow, Filed, Kept
  <2> QED BY <2>2, <2>3
<1> HIDE DEF Follow
<1>3. Spec /\ []NewTipHigher => []Follow
  BY <1>1, <1>2, Invariance, TreeInvariance, WalksInvariance, PTL DEF Spec
<1> QED BY <1>3, PTL DEF Follow

(* Between calls GetTxs returns the transactions of the best chain, all of *)
(* them and no others, as long as new tips are higher.                     *)
THEOREM MainFollowsHigher == Spec /\ []NewTipHigher => []MainIsBestChain
<1>1. (faults = 0 => TxsFollow) => MainIsBestChain
  BY DEF TxsFollow, Filed, MainIsBestChain
<1> QED BY <1>1, TxsFollowInvariance, PTL

(* Blocks off the best chain keep their transactions under the same        *)
(* condition.                                                              *)
THEOREM ForkKeptHigher == Spec /\ []NewTipHigher => []ForkIsKept
<1>1. (faults = 0 => TxsFollow) => ForkIsKept
  BY DEF TxsFollow, Kept, ForkIsKept
<1> QED BY <1>1, TxsFollowInvariance, PTL

(* With equal work per block, ProcessReorganize does what its comment      *)
(* says.                                                                   *)
THEOREM MainFollows ==
  ASSUME EqualWork
  PROVE  Spec => []MainIsBestChain
BY EqualWorkHigher, MainFollowsHigher, PTL

(* With equal work per block, nothing is lost to a reorganisation.         *)
THEOREM ForkKept ==
  ASSUME EqualWork
  PROVE  Spec => []ForkIsKept
BY EqualWorkHigher, ForkKeptHigher, PTL
=============================================================================
