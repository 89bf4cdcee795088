------------------------- MODULE SyncManagerProofs --------------------------
(***************************************************************************)
(* What SyncManager keeps for any number of peers, any block tree, any     *)
(* limits and any messages, in any order: every pending request has a      *)
(* connected owner, a peer that is done is gone from all state, and the    *)
(* two global maps stay within their limit.                                *)
(*                                                                         *)
(* The inductive invariant is IInv.  It adds to the three properties the   *)
(* shape of the request maps and that requestQueuedInv serves a connected  *)
(* peer, without which a request could be entered for a peer that is gone. *)
(*                                                                         *)
(* The second part is about PendingAtSyncPeer, which also needs that the   *)
(* tip never gets lower (TipNeverLower): a lower tip would make the node   *)
(* catch up again while other peers owe it blocks.  With blocks of equal   *)
(* work a heavier tip is higher, which is shown from ChainOK.              *)
(***************************************************************************)
EXTENDS SyncManager, FiniteSetTheorems, TLAPS

(* The request maps are maps of peers, and the peer being served is        *)
(* connected.                                                              *)
MapsOK ==
  /\ peers \subseteq Peer
  /\ blocks \in [Peer -> SUBSET Hash]
  /\ txns \in [Peer -> SUBSET Tx]
  /\ DOMAIN queue = Peer
  /\ busy \in peers \cup {NoPeer}

(* The global maps are finite, as RequestsBounded takes for granted.       *)
MapsFinite == IsFiniteSet(requestedBlocks) /\ IsFiniteSet(requestedTxns)

IInv ==
  /\ MapsOK
  /\ MapsFinite
  /\ NoOwnerlessRequest
  /\ SyncPeerConnected
  /\ RequestsBounded

USE DEF chainVars, peerVars, stateVars, globalVars, loopVars, Idle

----------------------------------------------------------------------------
(* Nobody is connected and nothing is requested at the start.              *)
LEMMA InitInv == Init => IInv
<1> SUFFICES ASSUME Init PROVE IInv
  OBVIOUS
<1> USE SyncAssumption DEF Init
<1>1. MapsOK
  BY DEF MapsOK
<1>2. MapsFinite /\ RequestsBounded
  BY FS_EmptySet DEF MapsFinite, RequestsBounded
<1>3. NoOwnerlessRequest /\ SyncPeerConnected
  BY DEF NoOwnerlessRequest, SyncPeerConnected
<1>4. QED
  BY <1>1, <1>2, <1>3 DEF IInv

----------------------------------------------------------------------------
(* The invariant survives any step that enters no new request: the global  *)
(* maps only shrink, and whatever stays in them stays in the map of a peer *)
(* that stays connected.                                                   *)
LEMMA ShrinkInv ==
  ASSUME IInv, MapsOK', SyncPeerConnected',
         requestedBlocks' \subseteq requestedBlocks,
         requestedTxns' \subseteq requestedTxns,
         NoOwnerlessRequest'
  PROVE  IInv'
<1> USE DEF IInv
<1>1. /\ IsFiniteSet(requestedBlocks')
      /\ Cardinality(requestedBlocks') <= Cardinality(requestedBlocks)
      /\ Cardinality(requestedBlocks') \in Nat
      /\ Cardinality(requestedBlocks) \in Nat
  BY FS_Subset, FS_CardinalityType DEF MapsFinite
<1>2. /\ IsFiniteSet(requestedTxns')
      /\ Cardinality(requestedTxns') <= Cardinality(requestedTxns)
      /\ Cardinality(requestedTxns') \in Nat
      /\ Cardinality(requestedTxns) \in Nat
  BY FS_Subset, FS_CardinalityType DEF MapsFinite
<1>3. MapsFinite' /\ RequestsBounded'
  BY <1>1, <1>2, SyncAssumption DEF MapsFinite, RequestsBounded
<1>4. QED
  BY <1>3

(* limitMap keeps a map within the limit it was within before the new      *)
(* entry.                                                                  *)
LEMMA LimitMapResult ==
  ASSUME NEW S, IsFiniteSet(S), Cardinality(S) < MaxRequested,
         NEW h, NEW R \in LimitMap(S \cup {h})
  PROVE  /\ R \subseteq S \cup {h}
         /\ IsFiniteSet(R)
         /\ Cardinality(R) < MaxRequested
<1> DEFINE T == S \cup {h}
<1>1. /\ IsFiniteSet(T)
      /\ Cardinality(S) \in Nat
      /\ Cardinality(T) = Cardinality(S) \/ Cardinality(T) = Cardinality(S) + 1
  BY FS_AddElement, FS_CardinalityType
<1>2. CASE Cardinality(T) + 1 > MaxRequested
  <2>1. PICK k \in T : R = T \ {k}
    BY <1>2 DEF LimitMap
  <2>2. IsFiniteSet(R) /\ Cardinality(R) = Cardinality(T) - 1
    BY <1>1, <2>1, FS_RemoveElement
  <2>3. QED
    BY <1>1, <2>1, <2>2, SyncAssumption
<1>3. CASE ~(Cardinality(T) + 1 > MaxRequested)
  <2>1. R = T
    BY <1>3 DEF LimitMap
  <2>2. QED
    BY <1>1, <1>3, <2>1, SyncAssumption
<1>4. QED
  BY <1>2, <1>3

----------------------------------------------------------------------------
(* A new peer: startSync takes its sync peer from the candidates, the new  *)
(* peer included, and may only forget requests.                            *)
LEMMA NewPeerInv ==
  ASSUME IInv, NEW p \in Peer, handleNewPeerMsg(p)
  PROVE  IInv'
<1> USE DEF IInv, handleNewPeerMsg
<1>1. /\ requestedBlocks' \subseteq requestedBlocks
      /\ candidate' \subseteq candidate \cup {p}
      /\ syncPeer' \in candidate \cup {p, NoPeer, syncPeer}
  <2>1. CASE p \in Candidates /\ syncPeer = NoPeer
    BY <2>1 DEF StartSync, SyncWith, NoSync
  <2>2. CASE ~(p \in Candidates /\ syncPeer = NoPeer)
    BY <2>2
  <2>3. QED
    BY <2>1, <2>2
<1>2. MapsOK'
  BY DEF MapsOK
<1>3. SyncPeerConnected'
  BY <1>1 DEF SyncPeerConnected
<1>4. NoOwnerlessRequest'
  BY <1>1 DEF NoOwnerlessRequest
<1>5. QED
  BY <1>1, <1>2, <1>3, <1>4, ShrinkInv

(* A done peer takes its requests with it, so an owner of what remains is  *)
(* another peer; a new sync peer is one of the other candidates.           *)
LEMMA DonePeerInv ==
  ASSUME IInv, NEW p \in Peer, handleDonePeerMsg(p)
  PROVE  IInv'
<1> USE DEF IInv, handleDonePeerMsg, DeleteState
<1>1. /\ requestedBlocks' \subseteq requestedBlocks \ blocks[p]
      /\ candidate' \subseteq candidate \ {p}
      /\ \/ syncPeer' \in (candidate \ {p}) \cup {NoPeer}
         \/ syncPeer' = syncPeer /\ syncPeer # p
  <2>1. CASE syncPeer = p
    BY <2>1 DEF StartSync, SyncWith, NoSync
  <2>2. CASE syncPeer # p
    BY <2>2
  <2>3. QED
    BY <2>1, <2>2
<1>2. MapsOK'
  BY SyncAssumption DEF MapsOK
<1>3. SyncPeerConnected'
  <2>1. syncPeer' \in peers' \cup {NoPeer} /\ candidate' \subseteq peers'
    BY <1>1 DEF SyncPeerConnected
  <2>2. \A r \in Peer \ peers' :
          blocks'[r] = {} /\ txns'[r] = {} /\ queue'[r] = <<>>
    BY DEF SyncPeerConnected, MapsOK
  <2>3. QED
    BY <2>1, <2>2 DEF SyncPeerConnected
<1>4. NoOwnerlessRequest'
  <2>1. ASSUME NEW h \in requestedBlocks'
        PROVE  \E r \in peers' : h \in blocks'[r]
    <3>1. PICK r \in peers : h \in blocks[r]
      BY <1>1, <2>1 DEF NoOwnerlessRequest
    <3>2. QED
      BY <1>1, <2>1, <3>1 DEF MapsOK
  <2>2. ASSUME NEW t \in requestedTxns'
        PROVE  \E r \in peers' : t \in txns'[r]
    <3>1. PICK r \in peers : t \in txns[r]
      BY <2>2 DEF NoOwnerlessRequest
    <3>2. QED
      BY <2>2, <3>1 DEF MapsOK
  <2>3. QED
    BY <2>1, <2>2 DEF NoOwnerlessRequest
<1>5. QED
  BY <1>1, <1>2, <1>3, <1>4, ShrinkInv

----------------------------------------------------------------------------
(* A transaction leaves both maps or changes neither.                      *)
LEMMA TxMsgInv ==
  ASSUME IInv, NEW p \in Peer, NEW t \in Tx, handleTxMsg(p, t)
  PROVE  IInv'
<1> USE DEF IInv
<1>1. CASE TxRequested(p, t)
  <2> USE <1>1 DEF TxRequested
  <2>1. MapsOK'
    BY DEF MapsOK
  <2>2. SyncPeerConnected'
    BY DEF SyncPeerConnected, MapsOK
  <2>3. \A r \in Peer : txns[r] \ {t} \subseteq txns'[r]
    BY DEF MapsOK
  <2>4. NoOwnerlessRequest'
    BY <2>3 DEF NoOwnerlessRequest, MapsOK
  <2>5. QED
    BY <2>1, <2>2, <2>4, ShrinkInv
<1>2. CASE TxUnrequested(p, t)
  <2> USE <1>2 DEF TxUnrequested
  <2>1. MapsOK' /\ SyncPeerConnected' /\ NoOwnerlessRequest'
    BY DEF MapsOK, SyncPeerConnected, NoOwnerlessRequest
  <2>2. QED
    BY <2>1, ShrinkInv
<1>3. QED
  BY <1>1, <1>2 DEF handleTxMsg

(* A block leaves both maps, or all of a peer's requests are forgotten     *)
(* together with all of the global map; the new sync peer, if there is     *)
(* one, is the connected sender.                                           *)
LEMMA BlockMsgInv ==
  ASSUME IInv, NEW p \in Peer, NEW b \in Hash, handleBlockMsg(p, b)
  PROVE  IInv'
<1> USE DEF IInv
<1>1. /\ p \in peers /\ peers' = peers /\ candidate' = candidate
      /\ txns' = txns /\ requestedTxns' = requestedTxns
      /\ syncPeer' \in {syncPeer, p}
  BY DEF handleBlockMsg, BlockUnrequested, BlockOrphanCurrent,
     BlockOrphanSyncing, BlockNotNew, BlockTooManyFalsePositives, BlockCurrent,
     BlockSyncing, Receive, SyncWith
<1>2. /\ busy' \in {busy, p}
      /\ queue' \in {queue, [queue EXCEPT ![p] = <<>>]}
  BY <1>1 DEF handleBlockMsg, BlockUnrequested, BlockOrphanCurrent,
     BlockOrphanSyncing, BlockNotNew, BlockTooManyFalsePositives, BlockCurrent,
     BlockSyncing, UnrequestAll, RequestQueuedInv
<1>3. \/ blocks' = blocks /\ requestedBlocks' = requestedBlocks
      \/ /\ blocks' = [blocks EXCEPT ![p] = @ \ {b}]
         /\ requestedBlocks' = requestedBlocks \ {b}
      \/ blocks' = [blocks EXCEPT ![p] = {}] /\ requestedBlocks' = {}
  BY DEF handleBlockMsg, BlockUnrequested, BlockOrphanCurrent,
     BlockOrphanSyncing, BlockNotNew, BlockTooManyFalsePositives, BlockCurrent,
     BlockSyncing, Unrequest, UnrequestAll, SyncWith
<1>4. MapsOK'
  BY <1>1, <1>2, <1>3 DEF MapsOK
<1>5. SyncPeerConnected'
  BY <1>1, <1>2, <1>3 DEF SyncPeerConnected, MapsOK
<1>6. NoOwnerlessRequest'
  <2>1. ASSUME NEW h \in requestedBlocks'
        PROVE  \E r \in peers : h \in blocks'[r]
    <3>1. PICK r \in peers : h \in blocks[r]
      BY <1>3, <2>1 DEF NoOwnerlessRequest
    <3>2. QED
      BY <1>3, <2>1, <3>1 DEF MapsOK
  <2>2. QED
    BY <1>1, <2>1 DEF NoOwnerlessRequest
<1>7. QED
  BY <1>1, <1>3, <1>4, <1>5, <1>6, ShrinkInv

(* Inventories are queued for a connected peer.                            *)
LEMMA InvMsgInv ==
  ASSUME IInv, NEW p \in Peer, NEW inv, handleInvMsg(p, inv)
  PROVE  IInv'
<1> USE DEF IInv
<1>1. /\ p \in peers /\ peers' = peers /\ candidate' = candidate
      /\ blocks' = blocks /\ txns' = txns /\ syncPeer' = syncPeer
      /\ requestedBlocks' = requestedBlocks /\ requestedTxns' = requestedTxns
      /\ busy' = p
      /\ DOMAIN queue' = DOMAIN queue
      /\ \A r \in DOMAIN queue : r # p => queue'[r] = queue[r]
  BY DEF handleInvMsg, RequestQueuedInv
<1>2. MapsOK'
  BY <1>1 DEF MapsOK
<1>3. SyncPeerConnected'
  BY <1>1 DEF SyncPeerConnected, MapsOK
<1>4. NoOwnerlessRequest'
  BY <1>1 DEF NoOwnerlessRequest
<1>5. QED
  BY <1>1, <1>2, <1>3, <1>4, ShrinkInv

(* A request is entered for the connected peer being served; limitMap may  *)
(* drop any entry.                                                         *)
LEMMA RequestInv == IInv /\ Request => IInv'
<1> SUFFICES ASSUME IInv, Request PROVE IInv'
  OBVIOUS
<1> USE DEF IInv
<1>1. /\ busy \in peers /\ busy \in Peer /\ busy' = busy
      /\ peers' = peers /\ candidate' = candidate /\ syncPeer' = syncPeer
      /\ queue' = [queue EXCEPT ![busy] = Tail(@)]
  BY DEF Request, MapsOK
<1>2. DOMAIN queue' = Peer /\ \A r \in Peer \ peers : queue'[r] = queue[r]
  BY <1>1 DEF MapsOK
<1>3. PICK i : i = Head(queue[busy])
  OBVIOUS
<1>4. CASE UNCHANGED <<requestedBlocks, requestedTxns, blocks, txns>>
  <2>1. MapsOK' /\ NoOwnerlessRequest'
    BY <1>1, <1>2, <1>4 DEF MapsOK, NoOwnerlessRequest
  <2>2. SyncPeerConnected'
    BY <1>1, <1>2, <1>4 DEF MapsOK, SyncPeerConnected
  <2>3. QED
    BY <1>4, <2>1, <2>2, ShrinkInv
<1>5. CASE RequestBlock(busy, i)
  <2>1. /\ i \in Hash /\ txns' = txns /\ requestedTxns' = requestedTxns
        /\ blocks' = [blocks EXCEPT ![busy] = @ \cup {i}]
        /\ requestedBlocks' \in LimitMap(requestedBlocks \cup {i})
    BY <1>5 DEF RequestBlock
  <2>2. /\ requestedBlocks' \subseteq requestedBlocks \cup {i}
        /\ IsFiniteSet(requestedBlocks')
        /\ Cardinality(requestedBlocks') < MaxRequested
    BY <2>1, LimitMapResult DEF MapsFinite, RequestsBounded
  <2>3. MapsOK' /\ MapsFinite' /\ RequestsBounded'
    BY <1>1, <1>2, <2>1, <2>2 DEF MapsOK, MapsFinite, RequestsBounded
  <2>4. SyncPeerConnected'
    BY <1>1, <1>2, <2>1 DEF MapsOK, SyncPeerConnected
  <2>5. NoOwnerlessRequest'
    BY <1>1, <2>1, <2>2 DEF MapsOK, NoOwnerlessRequest
  <2>6. QED
    BY <2>3, <2>4, <2>5
<1>6. CASE RequestTx(busy, i)
  <2>1. /\ i \in Tx /\ blocks' = blocks /\ requestedBlocks' = requestedBlocks
        /\ txns' = [txns EXCEPT ![busy] = @ \cup {i}]
        /\ requestedTxns' \in LimitMap(requestedTxns \cup {i})
    BY <1>6 DEF RequestTx
  <2>2. /\ requestedTxns' \subseteq requestedTxns \cup {i}
        /\ IsFiniteSet(requestedTxns')
        /\ Cardinality(requestedTxns') < MaxRequested
    BY <2>1, LimitMapResult DEF MapsFinite, RequestsBounded
  <2>3. MapsOK' /\ MapsFinite' /\ RequestsBounded'
    BY <1>1, <1>2, <2>1, <2>2 DEF MapsOK, MapsFinite, RequestsBounded
  <2>4. SyncPeerConnected'
    BY <1>1, <1>2, <2>1 DEF MapsOK, SyncPeerConnected
  <2>5. NoOwnerlessRequest'
    BY <1>1, <2>1, <2>2 DEF MapsOK, NoOwnerlessRequest
  <2>6. QED
    BY <2>3, <2>4, <2>5
<1>7. QED
  BY <1>3, <1>4, <1>5, <1>6 DEF Request, RequestBlock, RequestTx

(* Every step keeps the invariant.                                         *)
LEMMA NextInv == IInv /\ [Next]_vars => IInv'
<1> SUFFICES ASSUME IInv, [Next]_vars PROVE IInv'
  OBVIOUS
<1>1. ASSUME NEW p \in Peer, handleNewPeerMsg(p) PROVE IInv'
  BY <1>1, NewPeerInv
<1>2. ASSUME NEW p \in Peer, handleDonePeerMsg(p) PROVE IInv'
  BY <1>2, DonePeerInv
<1>3. ASSUME NEW p \in Peer, NEW t \in Tx, handleTxMsg(p, t) PROVE IInv'
  BY <1>3, TxMsgInv
<1>4. ASSUME NEW p \in Peer, NEW b \in Hash, handleBlockMsg(p, b) PROVE IInv'
  BY <1>4, BlockMsgInv
<1>5. ASSUME NEW p \in Peer, NEW inv \in InvMsgs, handleInvMsg(p, inv)
      PROVE  IInv'
  BY <1>5, InvMsgInv
<1>6. CASE Request
  BY <1>6, RequestInv
<1>7. CASE RequestsSent \/ UNCHANGED vars
  <2>1. MapsOK' /\ NoOwnerlessRequest' /\ SyncPeerConnected'
    BY <1>7 DEF RequestsSent, vars, IInv, MapsOK, NoOwnerlessRequest,
       SyncPeerConnected
  <2>2. requestedBlocks' = requestedBlocks /\ requestedTxns' = requestedTxns
    BY <1>7 DEF RequestsSent, vars
  <2>3. QED
    BY <2>1, <2>2, ShrinkInv
<1>8. QED
  BY <1>1, <1>2, <1>3, <1>4, <1>5, <1>6, <1>7 DEF Next

(* The invariant holds at every moment of every behaviour.                 *)
THEOREM Invariance == Spec => []IInv
BY InitInv, NextInv, PTL DEF Spec

----------------------------------------------------------------------------
(* What requestQueuedInv takes for pending is pending at a connected peer. *)
THEOREM RequestsOwned == Spec => []NoOwnerlessRequest
BY Invariance, PTL DEF IInv

(* The sync peer and the candidates are connected, and a done peer has     *)
(* left nothing behind.                                                    *)
THEOREM SyncPeerPresent == Spec => []SyncPeerConnected
BY Invariance, PTL DEF IInv

(* maxRequestedBlocks and maxRequestedTxns bound the global maps.          *)
THEOREM GlobalMapsBounded == Spec => []RequestsBounded
BY Invariance, PTL DEF IInv

----------------------------------------------------------------------------
(* Catching up.                                                            *)

(* All headers carry the same Bits.                                        *)
EqualWork == \A h, k \in Hash : Work[h] = Work[k]

(* A new tip is not below the one it replaces.                             *)
TipNeverLower == [][HeightOf[tip'] >= HeightOf[tip]]_vars

(* The known blocks are a tree, and a peer has a height.                   *)
ChainOK ==
  /\ known \subseteq Hash /\ Genesis \in known /\ tip \in known
  /\ \A h \in known \ {Genesis} : Prev[h] \in known
  /\ height \in [Peer -> Nat]

(* With equal work, heavier means higher.                                  *)
WorkIsHeight ==
  \A h, k \in known : WorkOf[h] > WorkOf[k] <=> HeightOf[h] > HeightOf[k]

(* requestQueuedInv serves the sync peer, or the node is current.          *)
ServesListened == busy # NoPeer => busy = syncPeer \/ Current

(* What any step does to the chain and to the peers' heights.              *)
LEMMA ChainStep ==
  ASSUME ChainOK, [Next]_vars
  PROVE  /\ \/ UNCHANGED chainVars
            \/ \E b \in Hash : /\ Prev[b] \in known
                              /\ known' = known \cup {b}
                              /\ tip' = IF WorkOf[b] > WorkOf[tip] THEN b ELSE tip
         /\ height' \in [Peer -> Nat]
<1> USE DEF ChainOK
<1>1. ASSUME NEW p \in Peer, handleNewPeerMsg(p)
      PROVE  UNCHANGED chainVars /\ height' \in [Peer -> Nat]
  BY <1>1, SyncAssumption DEF handleNewPeerMsg
<1>2. ASSUME NEW p \in Peer, NEW b \in Hash, NEW r, Receive(p, b, r)
      PROVE  \/ UNCHANGED chainVars
             \/ /\ Prev[b] \in known /\ known' = known \cup {b}
                /\ tip' = IF WorkOf[b] > WorkOf[tip] THEN b ELSE tip
  BY <1>2 DEF Receive, KnownAfter, TipAfter, Stores
<1>3. ASSUME NEW p \in Peer, NEW b \in Hash, handleBlockMsg(p, b)
      PROVE  /\ \/ UNCHANGED chainVars
                \/ /\ Prev[b] \in known /\ known' = known \cup {b}
                   /\ tip' = IF WorkOf[b] > WorkOf[tip] THEN b ELSE tip
             /\ height' \in [Peer -> Nat]
  <2>1. CASE BlockUnrequested(p, b)
    BY <2>1 DEF BlockUnrequested
  <2>2. CASE BlockOrphanCurrent(p, b) \/ BlockOrphanSyncing(p, b) \/ BlockNotNew(p, b)
             \/ BlockTooManyFalsePositives(p, b) \/ BlockSyncing(p, b)
    BY <2>2, <1>2 DEF BlockOrphanCurrent, BlockOrphanSyncing, BlockNotNew,
       BlockTooManyFalsePositives, BlockSyncing
  <2>3. CASE BlockCurrent(p, b)
    <3>1. height' = [height EXCEPT ![p] = HeightOf[b]] /\ HeightOf[b] \in Nat
      BY <2>3, TreeAssumption DEF BlockCurrent
    <3>2. height' \in [Peer -> Nat]
      BY <3>1
    <3> QED BY <2>3, <1>2, <3>2 DEF BlockCurrent
  <2> QED BY <1>3, <2>1, <2>2, <2>3 DEF handleBlockMsg
<1>4. ASSUME NEW p \in Peer, handleDonePeerMsg(p)
      PROVE  UNCHANGED chainVars /\ height' = height
  BY <1>4 DEF handleDonePeerMsg
<1>5. ASSUME NEW p \in Peer, NEW t \in Tx, handleTxMsg(p, t)
      PROVE  UNCHANGED chainVars /\ height' = height
  BY <1>5 DEF handleTxMsg, TxRequested, TxUnrequested
<1>6. ASSUME NEW p \in Peer, NEW inv \in InvMsgs, handleInvMsg(p, inv)
      PROVE  UNCHANGED chainVars /\ height' = height
  BY <1>6 DEF handleInvMsg
<1>7. CASE Request \/ RequestsSent \/ UNCHANGED vars
  BY <1>7 DEF Request, RequestsSent, vars
<1> QED BY <1>1, <1>3, <1>4, <1>5, <1>6, <1>7 DEF Next

(* The known blocks stay a tree.                                           *)
THEOREM ChainInvariance == Spec => []ChainOK
<1>1. Init => ChainOK
  BY SyncAssumption DEF Init, ChainOK
<1>2. ASSUME ChainOK, [Next]_vars PROVE ChainOK'
  BY <1>2, ChainStep DEF ChainOK
<1> QED BY <1>1, <1>2, PTL DEF Spec

(* With equal work the tip only ever gets higher.                          *)
THEOREM EqualWorkRises ==
  ASSUME EqualWork
  PROVE  Spec => TipNeverLower
<1>1. Init => WorkIsHeight
  <2> SUFFICES ASSUME Init PROVE WorkIsHeight
    OBVIOUS
  <2>1. known = {Genesis} /\ Genesis \in Hash
    BY SyncAssumption DEF Init
  <2>2. HeightOf[Genesis] = 0 /\ WorkOf[Genesis] = 0
    BY <2>1, TreeAssumption, SyncAssumption
  <2> QED BY <2>1, <2>2 DEF WorkIsHeight
<1>2. ASSUME ChainOK, WorkIsHeight, [Next]_vars, ChainOK' PROVE WorkIsHeight'
  <2>1. CASE UNCHANGED chainVars
    BY <1>2, <2>1 DEF WorkIsHeight
  <2>2. ASSUME NEW b \in Hash, Prev[b] \in known, known' = known \cup {b}
        PROVE  WorkIsHeight'
    <3>1. ASSUME NEW h \in known', h # Genesis
          PROVE  /\ Prev[h] \in known
                 /\ HeightOf[h] = HeightOf[Prev[h]] + 1
                 /\ WorkOf[h] = WorkOf[Prev[h]] + Work[h]
                 /\ HeightOf[Prev[h]] \in Nat /\ WorkOf[Prev[h]] \in Nat
                 /\ Work[h] \in Nat \ {0}
      <4>1. h \in Hash /\ Prev[h] \in known /\ Prev[h] \in Hash
        BY <1>2, <2>2, <3>1 DEF ChainOK
      <4> QED BY <4>1, TreeAssumption, SyncAssumption
    <3>2. HeightOf[Genesis] = 0 /\ WorkOf[Genesis] = 0
      BY TreeAssumption, SyncAssumption
    <3> SUFFICES ASSUME NEW h \in known', NEW k \in known'
                 PROVE  WorkOf[h] > WorkOf[k] <=> HeightOf[h] > HeightOf[k]
      BY DEF WorkIsHeight
    <3>3. CASE h # Genesis /\ k # Genesis
      <4>1. Work[h] = Work[k]
        BY <1>2, <2>2 DEF EqualWork, ChainOK
      <4> DEFINE wh == WorkOf[Prev[h]]
                 wk == WorkOf[Prev[k]]
                 hh == HeightOf[Prev[h]]
                 hk == HeightOf[Prev[k]]
                 w  == Work[h]
      <4>2. wh > wk <=> hh > hk
        BY <1>2, <3>1, <3>3 DEF WorkIsHeight
      <4>3. /\ WorkOf[h] = wh + w /\ WorkOf[k] = wk + w
            /\ HeightOf[h] = hh + 1 /\ HeightOf[k] = hk + 1
            /\ wh \in Nat /\ wk \in Nat /\ hh \in Nat /\ hk \in Nat /\ w \in Nat
        BY <3>1, <3>3, <4>1
      <4> HIDE DEF wh, wk, hh, hk, w
      <4> QED BY <4>2, <4>3
    <3>4. CASE h = Genesis \/ k = Genesis
      BY <3>1, <3>2, <3>4
    <3> QED BY <3>3, <3>4
  <2> QED BY <1>2, <2>1, <2>2, ChainStep
<1>3. ASSUME ChainOK, WorkIsHeight', [Next]_vars
      PROVE  HeightOf[tip'] >= HeightOf[tip]
  <2>1. HeightOf[tip] \in Nat /\ \A b \in Hash : HeightOf[b] \in Nat
    BY <1>3, TreeAssumption DEF ChainOK
  <2>2. CASE UNCHANGED chainVars
    BY <2>1, <2>2
  <2>3. ASSUME NEW b \in Hash, known' = known \cup {b},
               tip' = IF WorkOf[b] > WorkOf[tip] THEN b ELSE tip
        PROVE  HeightOf[tip'] >= HeightOf[tip]
    <3>1. WorkOf[b] > WorkOf[tip] => HeightOf[b] > HeightOf[tip]
      BY <1>3, <2>3 DEF WorkIsHeight, ChainOK
    <3> QED BY <2>1, <2>3, <3>1
  <2> QED BY <1>3, <2>2, <2>3, ChainStep
<1>4. Spec => []WorkIsHeight
  BY <1>1, <1>2, ChainInvariance, PTL DEF Spec
<1> QED BY <1>3, <1>4, ChainInvariance, PTL DEF Spec, TipNeverLower

(* startSync ends without a sync peer or has forgotten every request.      *)
LEMMA StartSyncForgets ==
  ASSUME NEW C, NEW req, StartSync(C, req)
  PROVE  syncPeer' = NoPeer \/ requestedBlocks' = {}
BY DEF StartSync, SyncWith, NoSync

(* A step that keeps the sync peer and its height, and does not lower the  *)
(* tip, keeps the node current.                                            *)
LEMMA StaysCurrent ==
  ASSUME IInv, ChainOK, ChainOK', HeightOf[tip'] >= HeightOf[tip],
         syncPeer' = syncPeer,
         syncPeer # NoPeer => height'[syncPeer] = height[syncPeer]
  PROVE  Current => Current'
<1> SUFFICES ASSUME Current, syncPeer # NoPeer
             PROVE  HeightOf[tip'] >= height[syncPeer]
  BY DEF Current, CurrentAt
<1>1. HeightOf[tip] >= height[syncPeer]
  BY DEF Current, CurrentAt
<1>2. syncPeer \in Peer
  BY DEF IInv, MapsOK, SyncPeerConnected
<1>3. HeightOf[tip] \in Nat /\ HeightOf[tip'] \in Nat /\ height[syncPeer] \in Nat
  BY <1>2, TreeAssumption DEF ChainOK
<1> QED BY <1>1, <1>3

(* A block from a peer the node listens to: its requests leave both maps,  *)
(* or all of the manager's are forgotten.                                  *)
LEMMA BlockMsgPending ==
  ASSUME IInv, ChainOK, ChainOK', HeightOf[tip'] >= HeightOf[tip],
         PendingAtSyncPeer, NEW p \in Peer, NEW b \in Hash, handleBlockMsg(p, b)
  PROVE  PendingAtSyncPeer' /\ ServesListened'
<1> USE DEF IInv
<1>0. /\ Idle /\ p \in peers /\ Listens(p) /\ p # NoPeer
  BY SyncAssumption DEF handleBlockMsg, BlockUnrequested, BlockOrphanCurrent,
     BlockOrphanSyncing, BlockNotNew, BlockTooManyFalsePositives, BlockCurrent,
     BlockSyncing, Receive
<1>1. CASE BlockUnrequested(p, b)
  <2>1. UNCHANGED <<blocks, requestedBlocks, syncPeer, height, tip, busy>>
    BY <1>1 DEF BlockUnrequested
  <2> QED BY <1>0, <2>1 DEF PendingAtSyncPeer, Current, CurrentAt, ServesListened
<1>2. CASE BlockOrphanCurrent(p, b)
  <2>1. requestedBlocks' = {} /\ busy' = busy
    BY <1>2 DEF BlockOrphanCurrent, SyncWith
  <2> QED BY <1>0, <2>1 DEF PendingAtSyncPeer, ServesListened
<1>3. ASSUME Unrequest(p, b), syncPeer' = syncPeer, height' = height
      PROVE  PendingAtSyncPeer'
  <2>1. CASE Current
    BY <1>3, <2>1, StaysCurrent DEF PendingAtSyncPeer
  <2>2. CASE ~Current
    <3>1. p = syncPeer /\ requestedBlocks \subseteq blocks[p]
      BY <1>0, <2>2 DEF Listens, PendingAtSyncPeer
    <3>2. requestedBlocks' = requestedBlocks \ {b} /\ blocks'[p] = blocks[p] \ {b}
      BY <1>3 DEF Unrequest, MapsOK
    <3> QED BY <1>3, <3>1, <3>2 DEF PendingAtSyncPeer
  <2> QED BY <2>1, <2>2
<1>4. CASE BlockOrphanSyncing(p, b) \/ BlockNotNew(p, b)
           \/ BlockTooManyFalsePositives(p, b)
  <2>1. Unrequest(p, b) /\ syncPeer' = syncPeer /\ height' = height /\ busy' = busy
    BY <1>4 DEF BlockOrphanSyncing, BlockNotNew, BlockTooManyFalsePositives
  <2> QED BY <1>0, <1>3, <2>1 DEF ServesListened
<1>5. CASE BlockSyncing(p, b)
  <2>1. /\ Unrequest(p, b) /\ syncPeer' = syncPeer /\ height' = height
        /\ busy' \in {busy, p} /\ tip' = TipAfter(b) /\ ~CurrentAt(TipAfter(b))
    BY <1>5 DEF BlockSyncing, RequestQueuedInv, Receive
  <2>2. ~Current'
    BY <2>1 DEF Current, CurrentAt
  <2>3. ~Current
    BY <2>1, <2>2, StaysCurrent
  <2>4. p = syncPeer
    BY <1>0, <2>3 DEF Listens
  <2> QED BY <1>0, <1>3, <2>1, <2>4 DEF ServesListened
<1>6. CASE BlockCurrent(p, b)
  <2>1. /\ syncPeer' = syncPeer /\ busy' = busy /\ tip' = TipAfter(b)
        /\ CurrentAt(TipAfter(b))
        /\ height' = [height EXCEPT ![p] = HeightOf[b]]
    BY <1>6 DEF BlockCurrent, Receive
  <2>2. tip' = b
    <3>1. "newTip" \in CommitResults(b) \/ "reorg" \in CommitResults(b)
      BY <1>6 DEF BlockCurrent, Receive
    <3>2. Prev[b] \in known /\ b \in ValidPoW /\ ~(WorkOf[b] <= WorkOf[tip])
      BY <3>1 DEF CommitResults
    <3>3. WorkOf[b] > WorkOf[tip]
      BY <3>2, TreeAssumption DEF ChainOK
    <3> QED BY <2>1, <3>2, <3>3 DEF TipAfter, Stores
  <2>3. Current'
    <3>1. CASE syncPeer = p
      <4>1. height'[p] = HeightOf[b] /\ HeightOf[b] \in Nat
        BY <2>1, TreeAssumption DEF ChainOK
      <4> QED BY <2>1, <2>2, <3>1, <4>1 DEF Current, CurrentAt
    <3>2. CASE syncPeer # p
      <4>1. syncPeer # NoPeer => height'[syncPeer] = height[syncPeer]
        BY <2>1, <3>2 DEF MapsOK, SyncPeerConnected, ChainOK
      <4> QED BY <2>1, <4>1 DEF Current, CurrentAt
    <3> QED BY <3>1, <3>2
  <2> QED BY <1>0, <2>1, <2>3 DEF PendingAtSyncPeer, ServesListened
<1> QED BY <1>1, <1>2, <1>4, <1>5, <1>6 DEF handleBlockMsg

(* Every step, as long as it does not lower the tip.                       *)
LEMMA PendingStep ==
  ASSUME IInv, ChainOK, ChainOK', [Next]_vars, HeightOf[tip'] >= HeightOf[tip],
         PendingAtSyncPeer, ServesListened
  PROVE  PendingAtSyncPeer' /\ ServesListened'
<1> USE DEF IInv
<1>1. ASSUME NEW p \in Peer, handleNewPeerMsg(p)
      PROVE  PendingAtSyncPeer' /\ ServesListened'
  <2>1. /\ busy = NoPeer /\ busy' = busy /\ blocks' = blocks /\ tip' = tip
        /\ p \notin peers /\ height' = [height EXCEPT ![p] = StartHeight[p]]
    BY <1>1 DEF handleNewPeerMsg
  <2>2. \/ syncPeer' = NoPeer \/ requestedBlocks' = {}
        \/ UNCHANGED <<syncPeer, requestedBlocks>>
    BY <1>1, StartSyncForgets DEF handleNewPeerMsg
  <2>3. CASE UNCHANGED <<syncPeer, requestedBlocks>>
    <3>1. syncPeer # NoPeer => height'[syncPeer] = height[syncPeer]
      BY <2>1 DEF MapsOK, SyncPeerConnected, ChainOK
    <3> QED BY <2>1, <2>3, <3>1
            DEF PendingAtSyncPeer, ServesListened, Current, CurrentAt
  <2> QED BY <2>1, <2>2, <2>3
          DEF PendingAtSyncPeer, ServesListened, Current, CurrentAt
<1>2. ASSUME NEW p \in Peer, handleDonePeerMsg(p)
      PROVE  PendingAtSyncPeer' /\ ServesListened'
  <2>1. /\ busy = NoPeer /\ busy' = busy /\ tip' = tip /\ height' = height
        /\ blocks' = [blocks EXCEPT ![p] = {}]
    BY <1>2 DEF handleDonePeerMsg, DeleteState
  <2>2. CASE syncPeer = p
    <3>1. syncPeer' = NoPeer \/ requestedBlocks' = {}
      BY <1>2, <2>2, StartSyncForgets DEF handleDonePeerMsg
    <3> QED BY <2>1, <3>1 DEF PendingAtSyncPeer, ServesListened, Current, CurrentAt
  <2>3. CASE syncPeer # p
    <3>1. requestedBlocks' = requestedBlocks \ blocks[p] /\ syncPeer' = syncPeer
      BY <1>2, <2>3 DEF handleDonePeerMsg
    <3>2. syncPeer # NoPeer => blocks'[syncPeer] = blocks[syncPeer]
      BY <2>1, <2>3 DEF MapsOK, SyncPeerConnected
    <3> QED BY <2>1, <3>1, <3>2
            DEF PendingAtSyncPeer, ServesListened, Current, CurrentAt
  <2> QED BY <2>2, <2>3
<1>3. ASSUME NEW p \in Peer, NEW t \in Tx, handleTxMsg(p, t)
      PROVE  PendingAtSyncPeer' /\ ServesListened'
  <2>1. UNCHANGED <<blocks, requestedBlocks, syncPeer, height, tip, busy>>
    BY <1>3 DEF handleTxMsg, TxRequested, TxUnrequested
  <2> QED BY <2>1 DEF PendingAtSyncPeer, ServesListened, Current, CurrentAt
<1>4. ASSUME NEW p \in Peer, NEW b \in Hash, handleBlockMsg(p, b)
      PROVE  PendingAtSyncPeer' /\ ServesListened'
  BY <1>4, BlockMsgPending
<1>5. ASSUME NEW p \in Peer, NEW inv \in InvMsgs, handleInvMsg(p, inv)
      PROVE  PendingAtSyncPeer' /\ ServesListened'
  <2>1. /\ UNCHANGED <<blocks, requestedBlocks, syncPeer, height, tip>>
        /\ busy' = p /\ Listens(p)
    BY <1>5 DEF handleInvMsg, RequestQueuedInv
  <2> QED BY <2>1 DEF PendingAtSyncPeer, ServesListened, Listens, Current, CurrentAt
<1>6. CASE Request
  <2>1. UNCHANGED <<syncPeer, height, tip, busy>> /\ busy # NoPeer
    BY <1>6 DEF Request
  <2>2. ServesListened' /\ (Current => PendingAtSyncPeer')
    BY <2>1 DEF ServesListened, PendingAtSyncPeer, Current, CurrentAt
  <2>3. CASE ~Current
    <3>1. busy = syncPeer /\ busy \in Peer /\ requestedBlocks \subseteq blocks[busy]
      BY <2>1, <2>3 DEF ServesListened, PendingAtSyncPeer, MapsOK
    <3>2. ASSUME NEW h, RequestBlock(busy, h)
          PROVE  requestedBlocks' \subseteq blocks'[busy]
      <4>1. requestedBlocks' \subseteq requestedBlocks \cup {h}
        BY <3>2 DEF RequestBlock, LimitMap
      <4>2. blocks'[busy] = blocks[busy] \cup {h}
        BY <3>1, <3>2 DEF RequestBlock, MapsOK
      <4> QED BY <3>1, <4>1, <4>2
    <3>3. requestedBlocks' \subseteq blocks'[busy]
      BY <1>6, <3>1, <3>2 DEF Request, RequestTx
    <3> QED BY <2>1, <2>2, <3>1, <3>3 DEF PendingAtSyncPeer
  <2> QED BY <2>2, <2>3
<1>7. CASE RequestsSent \/ UNCHANGED vars
  <2>1. /\ UNCHANGED <<blocks, requestedBlocks, syncPeer, height, tip>>
        /\ busy' \in {NoPeer, busy}
    BY <1>7 DEF RequestsSent, vars
  <2> QED BY <2>1 DEF PendingAtSyncPeer, ServesListened, Current, CurrentAt
<1> QED BY <1>1, <1>2, <1>3, <1>4, <1>5, <1>6, <1>7 DEF Next

(* As long as no new tip is lower than the one before, the blocks held     *)
(* back as pending are pending at the one peer that is listened to.        *)
THEOREM PendingIfRising == Spec /\ TipNeverLower => []PendingAtSyncPeer
<1>1. Init => PendingAtSyncPeer /\ ServesListened
  BY DEF Init, PendingAtSyncPeer, ServesListened, Current, CurrentAt
<1>2. /\ IInv /\ ChainOK /\ ChainOK' /\ [Next]_vars
      /\ [HeightOf[tip'] >= HeightOf[tip]]_vars
      /\ PendingAtSyncPeer /\ ServesListened
      => PendingAtSyncPeer' /\ ServesListened'
  <2> SUFFICES ASSUME IInv, ChainOK, ChainOK', [Next]_vars,
                      [HeightOf[tip'] >= HeightOf[tip]]_vars,
                      PendingAtSyncPeer, ServesListened
               PROVE  PendingAtSyncPeer' /\ ServesListened'
    OBVIOUS
  <2>1. CASE UNCHANGED vars
    BY <2>1 DEF vars, PendingAtSyncPeer, ServesListened, Current, CurrentAt
  <2>2. CASE HeightOf[tip'] >= HeightOf[tip]
    BY <2>2, PendingStep
  <2> QED BY <2>1, <2>2
<1> QED BY <1>1, <1>2, Invariance, ChainInvariance, PTL DEF Spec, TipNeverLower

(* With equal work per block that is always so.                            *)
THEOREM PendingAtSync ==
  ASSUME EqualWork
  PROVE  Spec => []PendingAtSyncPeer
BY EqualWorkRises, PendingIfRising, PTL

----------------------------------------------------------------------------
(* Types.  The queue of a peer grows by what is left of an inv message     *)
(* when the inventories the node has are taken out.                        *)

KeepBase(S) == <<>>
KeepStep(S, kept, x) == IF x \in S THEN Append(kept, x) ELSE kept
Kept == INSTANCE FoldProofs WITH Base <- KeepBase, Step <- KeepStep

(* What is kept of a list is a list of the same elements.                  *)
LEMMA KeepType ==
  ASSUME NEW T, NEW s \in Seq(T), NEW S
  PROVE  Keep(s, S) \in Seq(T)
<1>1. Keep(s, S) = Kept!Folded(S, s)
  BY DEF Keep, FoldLeft, MapThenFoldSet, Max, Kept!Folded, Kept!Solves,
     Kept!Largest, KeepBase, KeepStep
<1>2. PICK r : Kept!IsRun(S, s, r) /\ Keep(s, S) = r[Len(s)]
  BY <1>1, Kept!FoldRun
<1> DEFINE R == {k \in 0 .. Len(s) : r[k] \in Seq(T)}
<1>3. 0 \in R
  BY <1>2 DEF Kept!IsRun, KeepBase
<1>4. ASSUME NEW k \in 0 .. Len(s) - 1, k \in R PROVE k + 1 \in R
  <2>1. k + 1 \in 1 .. Len(s) /\ k + 1 - 1 = k
    OBVIOUS
  <2>2. r[k + 1] = KeepStep(S, r[k], s[k + 1])
    BY <1>2, <2>1 DEF Kept!IsRun
  <2>3. r[k] \in Seq(T) /\ s[k + 1] \in T
    BY <1>4, <2>1
  <2>4. r[k + 1] \in Seq(T)
    BY <2>2, <2>3 DEF KeepStep
  <2> QED BY <2>1, <2>4
<1>5. Len(s) \in R
  <2>1. Len(s) \in Nat
    OBVIOUS
  <2> HIDE DEF R
  <2>2. 0 .. Len(s) \subseteq R
    BY <1>3, <1>4, <2>1, Kept!CountUp
  <2> QED BY <2>1, <2>2
<1> QED BY <1>2, <1>5

(* The last block of an inv message is one of its blocks.                  *)
LEMMA LastBlockType ==
  ASSUME NEW inv \in InvMsgs, LastBlock(inv) # None
  PROVE  LastBlock(inv) \in Hash
<1> DEFINE B == {i \in DOMAIN inv : inv[i] \in Hash}
<1>1. PICK n \in 1 .. InvBound : inv \in [1 .. n -> Inv]
  BY DEF InvMsgs
<1>2. B # {} /\ B \in SUBSET (1 .. n) /\ n \in Nat
  <2>1. B # {}
    BY Zenon DEF LastBlock
  <2>2. B \in SUBSET (1 .. n)
    BY <1>1
  <2>3. n \in Nat
    BY SyncAssumption
  <2> QED BY <2>1, <2>2, <2>3
<1>3. \E i \in B : \A j \in B : j <= i
  <2>1. Kept!Largest(B) \in B /\ \A j \in B : Kept!Largest(B) >= j
    BY <1>2, Kept!LargestIn
  <2> QED BY <1>2, <2>1
<1> QED BY <1>2, <1>3 DEF LastBlock

LEMMA InvMsgType ==
  ASSUME NEW inv \in InvMsgs
  PROVE  inv \in Seq(Inv)
BY SyncAssumption DEF InvMsgs

(* A message to a peer about a block or a transaction.                     *)
LEMMA MessageType ==
  ASSUME NEW p \in Peer, NEW i \in Inv
  PROVE  GetBlocks(p, i) \in Message /\ GetData(p, i) \in Message
BY DEF GetBlocks, GetData, Message

(* startSync.                                                              *)
LEMMA StartSyncTypes ==
  ASSUME TypeOK, NEW C \in SUBSET Peer, NEW req \in SUBSET requestedBlocks,
         StartSync(C, req)
  PROVE  /\ candidate' \subseteq Peer /\ syncPeer' \in Peer \cup {NoPeer}
         /\ requestedBlocks' \subseteq Hash /\ out' \subseteq Message
<1>1. \A p \in Peer : GetBlocks(p, tip) \in Message
  BY MessageType DEF TypeOK, Inv
<1> QED BY <1>1 DEF StartSync, NoSync, SyncWith, TypeOK

LEMMA BlockMsgTypes ==
  ASSUME TypeOK, NEW p \in Peer, NEW b \in Hash, handleBlockMsg(p, b)
  PROVE  TypeOK'
<1> USE DEF TypeOK
<1>1. CASE BlockUnrequested(p, b)
  BY <1>1 DEF BlockUnrequested, Disconnect
<1>2. ASSUME NEW r, Receive(p, b, r) PROVE known' \subseteq Hash /\ tip' \in known'
  BY <1>2 DEF Receive, KnownAfter, TipAfter
<1>3. ASSUME Unrequest(p, b)
      PROVE  blocks' \in [Peer -> SUBSET Hash] /\ requestedBlocks' \subseteq Hash
  BY <1>3 DEF Unrequest
<1>4. ASSUME UnrequestAll(p)
      PROVE  blocks' \in [Peer -> SUBSET Hash] /\ queue' \in [Peer -> Seq(Inv)]
  BY <1>4 DEF UnrequestAll
<1>5. CASE BlockOrphanCurrent(p, b)
  <2>1. GetBlocks(p, tip) \in Message
    BY MessageType DEF Inv
  <2> QED BY <1>2, <1>4, <1>5, <2>1 DEF BlockOrphanCurrent, SyncWith
<1>6. CASE BlockOrphanSyncing(p, b)
  BY <1>2, <1>3, <1>6 DEF BlockOrphanSyncing, Disconnect
<1>7. CASE BlockNotNew(p, b)
  BY <1>2, <1>3, <1>7 DEF BlockNotNew
<1>8. CASE BlockTooManyFalsePositives(p, b)
  BY <1>2, <1>3, <1>8 DEF BlockTooManyFalsePositives, Disconnect
<1>9. CASE BlockCurrent(p, b)
  <2>1. height' \in [Peer -> Nat]
    <3>1. HeightOf[b] \in Nat
      BY TreeAssumption
    <3> QED BY <1>9, <3>1 DEF BlockCurrent
  <2> QED BY <1>2, <1>3, <1>4, <1>9, <2>1 DEF BlockCurrent
<1>10. CASE BlockSyncing(p, b)
  <2>1. busy' \in Peer \cup {NoPeer} /\ numRequested' \in 0 .. MaxInvPerMsg
    BY <1>10, SyncAssumption DEF BlockSyncing, RequestQueuedInv
  <2> QED BY <1>2, <1>3, <1>10, <2>1 DEF BlockSyncing
<1> QED BY <1>1, <1>5, <1>6, <1>7, <1>8, <1>9, <1>10 DEF handleBlockMsg

LEMMA InvMsgTypes ==
  ASSUME TypeOK, NEW p \in Peer, NEW inv \in InvMsgs, handleInvMsg(p, inv)
  PROVE  TypeOK'
<1> DEFINE q == queue[p] \o Keep(inv, {i \in Inv : ~haveInventory(i)})
<1>1. q \in Seq(Inv)
  <2>1. Keep(inv, {i \in Inv : ~haveInventory(i)}) \in Seq(Inv)
    BY InvMsgType, KeepType
  <2> QED BY <2>1, queue[p] \in Seq(Inv) DEF TypeOK
<1>2. queue' \in [Peer -> Seq(Inv)]
  <2> HIDE DEF q
  <2>1. queue' = [queue EXCEPT ![p] = q]
    BY DEF handleInvMsg, q
  <2> QED BY <1>1, <2>1 DEF TypeOK
<1>3. out' \subseteq Message
  <2>1. LastBlock(inv) # None => GetBlocks(p, LastBlock(inv)) \in Message
    BY LastBlockType, MessageType DEF Inv
  <2> QED BY <2>1 DEF handleInvMsg
<1>4. busy' \in Peer \cup {NoPeer} /\ numRequested' \in 0 .. MaxInvPerMsg
  BY SyncAssumption DEF handleInvMsg, RequestQueuedInv
<1> QED BY <1>2, <1>3, <1>4 DEF handleInvMsg, TypeOK

LEMMA RequestTypes ==
  ASSUME TypeOK, Request
  PROVE  TypeOK'
<1> USE DEF TypeOK
<1> DEFINE i == Head(queue[busy])
<1>1. busy \in Peer /\ queue[busy] \in Seq(Inv) /\ queue[busy] # <<>>
  BY DEF Request
<1>2. i \in Inv /\ Tail(queue[busy]) \in Seq(Inv)
  BY <1>1
<1>3. queue' \in [Peer -> Seq(Inv)]
  BY <1>1, <1>2 DEF Request
<1>4. GetData(busy, i) \in Message
  BY <1>1, <1>2, MessageType
<1> HIDE DEF i
<1>5. numRequested' \in 0 .. MaxInvPerMsg /\ out' \subseteq Message
  BY <1>4, SyncAssumption DEF Request, i
<1>6. \A S, R : R \in LimitMap(S) => R \subseteq S
  BY DEF LimitMap
<1>7. /\ blocks' \in [Peer -> SUBSET Hash] /\ requestedBlocks' \subseteq Hash
      /\ txns' \in [Peer -> SUBSET Tx] /\ requestedTxns' \subseteq Tx
  <2>1. CASE RequestBlock(busy, i)
    <3>1. requestedBlocks' \subseteq requestedBlocks \cup {i} /\ i \in Hash
      BY <1>6, <2>1 DEF RequestBlock
    <3> QED BY <1>1, <2>1, <3>1 DEF RequestBlock
  <2>2. CASE RequestTx(busy, i)
    <3>1. requestedTxns' \subseteq requestedTxns \cup {i} /\ i \in Tx
      BY <1>6, <2>2 DEF RequestTx
    <3> QED BY <1>1, <2>2, <3>1 DEF RequestTx
  <2>3. CASE i \in requestedBlocks \cup requestedTxns
    BY <2>3 DEF Request, i
  <2> QED BY <2>1, <2>2, <2>3 DEF Request, i
<1> QED BY <1>1, <1>3, <1>5, <1>7 DEF Request

(* Every step keeps the types.                                             *)
LEMMA NextTypes == TypeOK /\ [Next]_vars => TypeOK'
<1> SUFFICES ASSUME TypeOK, [Next]_vars PROVE TypeOK'
  OBVIOUS
<1>1. ASSUME NEW p \in Peer, handleNewPeerMsg(p) PROVE TypeOK'
  <2>1. height' \in [Peer -> Nat]
    BY <1>1, SyncAssumption DEF handleNewPeerMsg, TypeOK
  <2>2. /\ candidate' \subseteq Peer /\ syncPeer' \in Peer \cup {NoPeer}
        /\ requestedBlocks' \subseteq Hash /\ out' \subseteq Message
    <3>1. CASE p \in Candidates /\ syncPeer = NoPeer
      <4>1. StartSync(candidate \cup {p}, requestedBlocks)
        BY <1>1, <3>1 DEF handleNewPeerMsg
      <4>2. candidate \cup {p} \in SUBSET Peer
        BY DEF TypeOK
      <4> QED BY <4>1, <4>2, StartSyncTypes
    <3>2. CASE ~(p \in Candidates /\ syncPeer = NoPeer)
      BY <1>1, <3>2 DEF handleNewPeerMsg, TypeOK
    <3> QED BY <3>1, <3>2
  <2> QED BY <1>1, <2>1, <2>2 DEF handleNewPeerMsg, TypeOK
<1>2. ASSUME NEW p \in Peer, handleDonePeerMsg(p) PROVE TypeOK'
  <2>1. /\ candidate' \subseteq Peer /\ syncPeer' \in Peer \cup {NoPeer}
        /\ requestedBlocks' \subseteq Hash /\ out' \subseteq Message
    <3>1. CASE syncPeer = p
      <4>1. StartSync(candidate \ {p}, requestedBlocks \ blocks[p])
        BY <1>2, <3>1 DEF handleDonePeerMsg
      <4>2. candidate \ {p} \in SUBSET Peer
        BY DEF TypeOK
      <4> QED BY <4>1, <4>2, StartSyncTypes
    <3>2. CASE syncPeer # p
      BY <1>2, <3>2 DEF handleDonePeerMsg, TypeOK
    <3> QED BY <3>1, <3>2
  <2>2. /\ queue' \in [Peer -> Seq(Inv)] /\ blocks' \in [Peer -> SUBSET Hash]
        /\ txns' \in [Peer -> SUBSET Tx]
    BY <1>2 DEF handleDonePeerMsg, DeleteState, TypeOK
  <2> QED BY <1>2, <2>1, <2>2 DEF handleDonePeerMsg, DeleteState, TypeOK
<1>3. ASSUME NEW p \in Peer, NEW t \in Tx, handleTxMsg(p, t) PROVE TypeOK'
  BY <1>3 DEF handleTxMsg, TxRequested, TxUnrequested, Disconnect, TypeOK
<1>4. ASSUME NEW p \in Peer, NEW b \in Hash, handleBlockMsg(p, b) PROVE TypeOK'
  BY <1>4, BlockMsgTypes
<1>5. ASSUME NEW p \in Peer, NEW inv \in InvMsgs, handleInvMsg(p, inv)
      PROVE  TypeOK'
  BY <1>5, InvMsgTypes
<1>6. CASE Request
  BY <1>6, RequestTypes
<1>7. CASE RequestsSent
  BY <1>7, SyncAssumption DEF RequestsSent, TypeOK
<1>8. CASE UNCHANGED vars
  BY <1>8 DEF vars, TypeOK
<1> QED BY <1>1, <1>2, <1>3, <1>4, <1>5, <1>6, <1>7, <1>8 DEF Next

(* The manager's maps, queues and messages have their types: what is asked *)
(* of a peer is a block or a transaction, and a getblocks message names a  *)
(* block.                                                                  *)
THEOREM TypeCorrect == Spec => []TypeOK
<1>1. Init => TypeOK
  BY SyncAssumption DEF Init, TypeOK
<1> QED BY <1>1, NextTypes, PTL DEF Spec
=============================================================================
