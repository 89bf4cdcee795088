----------------------------- MODULE SyncManager ----------------------------
(***************************************************************************)
(* sync.SyncManager: which blocks and transactions are asked of which      *)
(* peer.  Everything runs on one goroutine (blockHandler), one message at  *)
(* a time; the messages come from the peers' goroutines in any order.  A   *)
(* handler is one step, except that requestQueuedInv, which ends two of    *)
(* them, takes one step per queued inventory: busy is the peer it serves,  *)
(* and no other handler runs until it is done.                             *)
(*                                                                         *)
(* Peers are unconstrained here: they announce and send what they like,    *)
(* when they like, asked or not, and come and go.  The chain is the        *)
(* promise of ChainSpec with CommitBlock in one step: the manager is its   *)
(* only writer.  A definition with no comment that stands before the one   *)
(* it varies is a plausible mistake in that code, unused here.             *)
(***************************************************************************)
EXTENDS Naturals, Sequences, FiniteSets, Lists

CONSTANTS
  Peer, NoPeer,
  Candidates,     \* the peers whose services carry CandidateFlags
  StartHeight,    \* the height a peer's version message states
  Hash, Genesis, None, Prev, Work, ValidPoW,    \* as in BlockChain
  Tx,             \* transaction hashes
  MaxRequested,   \* maxRequestedBlocks, maxRequestedTxns
  MaxInvPerMsg,   \* msg.MaxInvPerMsg, and minPendingRequests
  MinInFlight,    \* minInFlightBlocks
  InvBound        \* bound: the longest inv message a peer sends in a model

ASSUME SyncAssumption ==
  /\ NoPeer \notin Peer
  /\ Candidates \subseteq Peer
  /\ StartHeight \in [Peer -> Nat]
  /\ Genesis \in Hash /\ None \notin Hash
  /\ Prev \in [Hash -> Hash \cup {None}] /\ Prev[Genesis] = None
  /\ Work \in [Hash -> Nat \ {0}]
  /\ ValidPoW \subseteq Hash
  /\ Tx \cap Hash = {}
  /\ MaxRequested \in Nat \ {0} /\ MaxInvPerMsg \in Nat \ {0}
  /\ MinInFlight \in Nat
  /\ InvBound \in 1..MaxInvPerMsg

VARIABLES
  known, tip,        \* the chain: stored headers and the best one
  peers,             \* the domain of peerStates
  candidate,         \* the peers whose state says syncCandidate
  height,            \* peer.Height()
  queue,             \* requestQueue of a peer's state
  blocks, txns,      \* requestedBlocks, requestedTxns of a peer's state
  requestedBlocks, requestedTxns, txMemPool, syncPeer,   \* SyncManager
  dropped,           \* peers that were sent Disconnect
  busy,              \* the peer requestQueuedInv is serving, or NoPeer
  numRequested,      \* the local of requestQueuedInv
  out                \* the messages the last handler sent

chainVars  == <<known, tip>>
peerVars   == <<peers, candidate, height>>
stateVars  == <<queue, blocks, txns>>
globalVars == <<requestedBlocks, requestedTxns>>
loopVars   == <<busy, numRequested>>
vars == <<chainVars, peerVars, stateVars, globalVars, txMemPool, syncPeer,
          dropped, loopVars, out>>

Inv == Hash \cup Tx

Message == [to : Peer, type : {"getblocks", "getdata"}, inv : Inv]

----------------------------------------------------------------------------
(* The chain as the manager sees it.                                       *)

HeightOf[h \in Hash] == IF Prev[h] \in Hash THEN HeightOf[Prev[h]] + 1 ELSE 0
WorkOf[h \in Hash] == IF Prev[h] \in Hash THEN WorkOf[Prev[h]] + Work[h] ELSE 0

(* A header holds the hash of its parent, so no branch comes back to where *)
(* it was: heights and work are defined.                                   *)
ASSUME TreeAssumption == \A h \in Hash :
  /\ HeightOf[h] \in Nat /\ WorkOf[h] \in Nat
  /\ Prev[h] \in Hash => /\ HeightOf[h] = HeightOf[Prev[h]] + 1
                         /\ WorkOf[h] = WorkOf[Prev[h]] + Work[h]
  /\ Prev[h] \notin Hash => HeightOf[h] = 0 /\ WorkOf[h] = 0

(* What CommitBlock does with b; "failed" is a TxsDB error, after which    *)
(* the header and the tip have moved all the same.                         *)
CommitResults(b) ==
  IF Prev[b] \notin known THEN {"orphan"}
  ELSE IF b \notin ValidPoW \/ b = tip THEN {"notNew"}
  ELSE IF WorkOf[b] <= WorkOf[tip] THEN {"notNew", "failed"}
  ELSE IF Prev[b] = tip THEN {"newTip", "failed"}
  ELSE {"reorg", "failed"}

Stores(b) == Prev[b] \in known /\ b \in ValidPoW
KnownAfter(b) == IF Stores(b) THEN known \cup {b} ELSE known
TipAfter(b) == IF Stores(b) /\ WorkOf[b] > WorkOf[tip] THEN b ELSE tip

(* current(): there is no sync peer, or the chain has reached its height.  *)
CurrentAt(t) == syncPeer # NoPeer => HeightOf[t] >= height[syncPeer]
Current == CurrentAt(tip)

GetBlocks(p, h) == [to |-> p, type |-> "getblocks", inv |-> h]
GetData(p, h) == [to |-> p, type |-> "getdata", inv |-> h]

Idle == busy = NoPeer

(* requestQueuedInv(p): its loop runs in the Request steps that follow.    *)
RequestQueuedInv(p) == busy' = p /\ numRequested' = 0

----------------------------------------------------------------------------
Init ==
  /\ known = {Genesis} /\ tip = Genesis
  /\ peers = {} /\ candidate = {} /\ height = StartHeight
  /\ queue = [p \in Peer |-> <<>>]
  /\ blocks = [p \in Peer |-> {}] /\ txns = [p \in Peer |-> {}]
  /\ requestedBlocks = {} /\ requestedTxns = {} /\ txMemPool = {}
  /\ syncPeer = NoPeer
  /\ dropped = {}
  /\ busy = NoPeer /\ numRequested = 0
  /\ out = {}

----------------------------------------------------------------------------
SyncWithKeeping(p) ==
  /\ requestedBlocks' = requestedBlocks
  /\ out' = {GetBlocks(p, tip)}
  /\ syncPeer' = p

(* syncWith: forget what was asked before and ask p for what follows the   *)
(* tip.                                                                    *)
SyncWith(p) ==
  /\ requestedBlocks' = {}
  /\ out' = {GetBlocks(p, tip)}
  /\ syncPeer' = p

(* No sync peer; req is what is still requested.                           *)
NoSync(req) ==
  /\ syncPeer' = NoPeer
  /\ requestedBlocks' = req
  /\ out' = {}

(* startSync over the candidates C, from a state without a sync peer: the  *)
(* candidates below the chain met on the way lose their candidacy, the     *)
(* first other one is taken, and nothing is started when its height is     *)
(* the chain's.  The map is walked in any order.                           *)
StartSync(C, req) ==
  LET Low == {p \in C : height[p] < HeightOf[tip]}
  IN \/ C = Low /\ candidate' = {} /\ NoSync(req)
     \/ \E p \in C \ Low, D \in SUBSET Low :
          /\ candidate' = C \ D
          /\ IF height[p] = HeightOf[tip] THEN NoSync(req) ELSE SyncWith(p)

(* handleNewPeerMsg: the state of a peer that is not connected is empty.   *)
handleNewPeerMsg(p) ==
  /\ Idle /\ p \notin peers
  /\ peers' = peers \cup {p}
  /\ height' = [height EXCEPT ![p] = StartHeight[p]]
  /\ IF p \in Candidates /\ syncPeer = NoPeer
       THEN StartSync(candidate \cup {p}, requestedBlocks)
       ELSE /\ candidate' = candidate \cup ({p} \cap Candidates)
            /\ out' = {}
            /\ UNCHANGED <<requestedBlocks, syncPeer>>
  /\ UNCHANGED <<chainVars, stateVars, requestedTxns, txMemPool, dropped,
                 loopVars>>

(* delete(sm.peerStates, peer).                                            *)
DeleteState(p) ==
  /\ peers' = peers \ {p}
  /\ dropped' = dropped \ {p}
  /\ queue' = [queue EXCEPT ![p] = <<>>]
  /\ blocks' = [blocks EXCEPT ![p] = {}]
  /\ txns' = [txns EXCEPT ![p] = {}]

DoneKeepsRequests(p) ==
  /\ Idle /\ p \in peers
  /\ DeleteState(p)
  /\ IF syncPeer = p
       THEN StartSync(candidate \ {p}, requestedBlocks)
       ELSE candidate' = candidate \ {p} /\ out' = {}
            /\ UNCHANGED <<syncPeer, requestedBlocks>>
  /\ UNCHANGED <<chainVars, height, requestedTxns, txMemPool, loopVars>>

DoneKeepsSyncPeer(p) ==
  /\ Idle /\ p \in peers
  /\ DeleteState(p)
  /\ requestedTxns' = requestedTxns \ txns[p]
  /\ requestedBlocks' = requestedBlocks \ blocks[p]
  /\ candidate' = candidate \ {p} /\ out' = {}
  /\ UNCHANGED <<chainVars, height, txMemPool, syncPeer, loopVars>>

(* handleDonePeerMsg: what was asked of the peer may be asked of others;   *)
(* a lost sync peer is replaced.                                           *)
handleDonePeerMsg(p) ==
  /\ Idle /\ p \in peers
  /\ DeleteState(p)
  /\ requestedTxns' = requestedTxns \ txns[p]
  /\ LET rest == requestedBlocks \ blocks[p]
     IN IF syncPeer = p
          THEN StartSync(candidate \ {p}, rest)
          ELSE /\ candidate' = candidate \ {p}
               /\ requestedBlocks' = rest
               /\ out' = {}
               /\ UNCHANGED syncPeer
  /\ UNCHANGED <<chainVars, height, txMemPool, loopVars>>

Disconnect(p) == dropped' = dropped \cup {p}
----------------------------------------------------------------------------
(* handleTxMsg.                                                            *)
TxRequested(p, t) ==
  /\ Idle /\ p \in peers
  /\ t \in txns[p]
  /\ txMemPool' = txMemPool \cup {t}
  /\ txns' = [txns EXCEPT ![p] = @ \ {t}]
  /\ requestedTxns' = requestedTxns \ {t}
  /\ out' = {}
  /\ UNCHANGED <<chainVars, peerVars, queue, blocks, requestedBlocks, syncPeer,
                 dropped, loopVars>>

TxUnrequested(p, t) ==
  /\ Idle /\ p \in peers
  /\ t \notin txns[p]
  /\ Disconnect(p)
  /\ out' = {}
  /\ UNCHANGED <<chainVars, peerVars, stateVars, globalVars, txMemPool,
                 syncPeer, loopVars>>

handleTxMsg(p, t) == TxRequested(p, t) \/ TxUnrequested(p, t)

----------------------------------------------------------------------------
(* handleBlockMsg.  While the node catches up only the sync peer is        *)
(* listened to; a block that was not asked for ends the connection.        *)
Listens(p) == p = syncPeer \/ Current

BlockUnrequested(p, b) ==
  /\ Idle /\ p \in peers
  /\ Listens(p) /\ b \notin blocks[p]
  /\ Disconnect(p)
  /\ out' = {}
  /\ UNCHANGED <<chainVars, peerVars, stateVars, globalVars, txMemPool,
                 syncPeer, loopVars>>

(* The block leaves the request maps and goes to the chain.                *)
Receive(p, b, result) ==
  /\ Idle /\ p \in peers
  /\ Listens(p) /\ b \in blocks[p]
  /\ result \in CommitResults(b)
  /\ known' = KnownAfter(b)
  /\ tip' = TipAfter(b)

Unrequest(p, b) ==
  /\ blocks' = [blocks EXCEPT ![p] = @ \ {b}]
  /\ requestedBlocks' = requestedBlocks \ {b}

UnrequestAll(p) ==
  /\ blocks' = [blocks EXCEPT ![p] = {}]
  /\ queue' = [queue EXCEPT ![p] = <<>>]

(* An orphan while the node thinks it is current: there may be a better    *)
(* chain, sync with its sender.                                            *)
BlockOrphanCurrent(p, b) ==
  /\ Receive(p, b, "orphan")
  /\ Current
  /\ UnrequestAll(p)
  /\ SyncWith(p)
  /\ UNCHANGED <<peerVars, txns, requestedTxns, txMemPool, dropped, loopVars>>

(* An orphan in the middle of a sync counts against the sender, which is   *)
(* dropped when its share of bad blocks is above maxBadBlockRate.          *)
BlockOrphanSyncing(p, b) ==
  /\ Receive(p, b, "orphan")
  /\ ~Current
  /\ Unrequest(p, b)
  /\ Disconnect(p) \/ UNCHANGED dropped
  /\ out' = {}
  /\ UNCHANGED <<peerVars, queue, txns, requestedTxns, txMemPool, syncPeer,
                 loopVars>>

(* A commit error, a bad proof of work or a block that is no new tip.      *)
BlockNotNew(p, b) ==
  /\ Receive(p, b, "notNew") \/ Receive(p, b, "failed")
  /\ Unrequest(p, b)
  /\ out' = {}
  /\ UNCHANGED <<peerVars, queue, txns, requestedTxns, txMemPool, syncPeer,
                 dropped, loopVars>>

(* A new tip, from a peer whose false positive rate has become too high.   *)
BlockTooManyFalsePositives(p, b) ==
  /\ Receive(p, b, "newTip") \/ Receive(p, b, "reorg")
  /\ Unrequest(p, b)
  /\ Disconnect(p)
  /\ out' = {}
  /\ UNCHANGED <<peerVars, queue, txns, requestedTxns, txMemPool, syncPeer,
                 loopVars>>

(* A new tip that makes the node current (or leaves it so): after a        *)
(* reorganisation the peer's requests start afresh.                        *)
BlockCurrent(p, b) ==
  /\ CurrentAt(TipAfter(b))
  /\ \/ Receive(p, b, "reorg") /\ UnrequestAll(p) /\ requestedBlocks' = {}
     \/ Receive(p, b, "newTip") /\ Unrequest(p, b) /\ UNCHANGED queue
  /\ txMemPool' = {}
  /\ height' = [height EXCEPT ![p] = HeightOf[b]]
  /\ out' = {}
  /\ UNCHANGED <<peers, candidate, txns, requestedTxns, syncPeer, dropped,
                 loopVars>>

(* A new tip on the way up: ask for more when few requests are left.       *)
BlockSyncing(p, b) ==
  /\ ~CurrentAt(TipAfter(b))
  /\ Receive(p, b, "newTip") \/ Receive(p, b, "reorg")
  /\ Unrequest(p, b)
  /\ txMemPool' = {}
  /\ IF Cardinality(blocks[p] \ {b}) < MinInFlight
       THEN RequestQueuedInv(p) ELSE UNCHANGED loopVars
  /\ out' = {}
  /\ UNCHANGED <<peerVars, queue, txns, requestedTxns, syncPeer, dropped>>

handleBlockMsg(p, b) ==
  \/ BlockUnrequested(p, b)
  \/ BlockOrphanCurrent(p, b) \/ BlockOrphanSyncing(p, b)
  \/ BlockNotNew(p, b) \/ BlockTooManyFalsePositives(p, b)
  \/ BlockCurrent(p, b) \/ BlockSyncing(p, b)

----------------------------------------------------------------------------
(* handleInvMsg.                                                           *)

haveInventory(i) == i \in known \cup txMemPool

LastBlock(inv) ==
  LET B == {i \in DOMAIN inv : inv[i] \in Hash}
  IN IF B = {} THEN None ELSE inv[CHOOSE i \in B : \A j \in B : j <= i]

AskAfterAnything(p, inv) ==
  LET q == queue[p] \o Keep(inv, {i \in Inv : ~haveInventory(i)})
  IN /\ Idle /\ p \in peers
     /\ Listens(p)
     /\ queue' = [queue EXCEPT ![p] = q]
     /\ out' = IF ~Current /\ Len(q) < MaxInvPerMsg
                 THEN {GetBlocks(p, LastBlock(inv))} ELSE {}
     /\ RequestQueuedInv(p)
     /\ UNCHANGED <<chainVars, peerVars, blocks, txns, globalVars, txMemPool,
                    syncPeer, dropped>>

(* Queue what is unknown; while syncing, ask for what follows the last     *)
(* announced block unless the queue is long; then request the queue.       *)
handleInvMsg(p, inv) ==
  LET q == queue[p] \o Keep(inv, {i \in Inv : ~haveInventory(i)})
  IN /\ Idle /\ p \in peers
     /\ Listens(p)
     /\ queue' = [queue EXCEPT ![p] = q]
     /\ out' = IF ~Current /\ Len(q) < MaxInvPerMsg /\ LastBlock(inv) # None
                 THEN {GetBlocks(p, LastBlock(inv))} ELSE {}
     /\ RequestQueuedInv(p)
     /\ UNCHANGED <<chainVars, peerVars, blocks, txns, globalVars, txMemPool,
                    syncPeer, dropped>>

UnlimitedMap(S) == {S}

(* limitMap: the maps S can become; a full one loses any one entry, the    *)
(* newest included.                                                        *)
LimitMap(S) ==
  IF Cardinality(S) + 1 > MaxRequested THEN {S \ {h} : h \in S} ELSE {S}

(* One iteration of requestQueuedInv: an inventory nobody was asked for is *)
(* entered in both maps and joins the getdata message.                     *)
RequestBlock(p, h) ==
  /\ h \in Hash
  /\ requestedBlocks' \in LimitMap(requestedBlocks \cup {h})
  /\ blocks' = [blocks EXCEPT ![p] = @ \cup {h}]
  /\ UNCHANGED <<txns, requestedTxns>>

RequestTx(p, t) ==
  /\ t \in Tx
  /\ requestedTxns' \in LimitMap(requestedTxns \cup {t})
  /\ txns' = [txns EXCEPT ![p] = @ \cup {t}]
  /\ UNCHANGED <<blocks, requestedBlocks>>

Request ==
  /\ busy # NoPeer /\ queue[busy] # <<>> /\ numRequested < MaxInvPerMsg
  /\ LET i == Head(queue[busy])
     IN IF i \in requestedBlocks \cup requestedTxns
          THEN UNCHANGED <<globalVars, blocks, txns, numRequested, out>>
          ELSE /\ RequestBlock(busy, i) \/ RequestTx(busy, i)
               /\ numRequested' = numRequested + 1
               /\ out' = out \cup {GetData(busy, i)}
  /\ queue' = [queue EXCEPT ![busy] = Tail(@)]
  /\ UNCHANGED <<chainVars, peerVars, txMemPool, syncPeer, dropped, busy>>

(* The queue is empty or the getdata message full.                         *)
RequestsSent ==
  /\ busy # NoPeer
  /\ queue[busy] = <<>> \/ numRequested >= MaxInvPerMsg
  /\ busy' = NoPeer
  /\ numRequested' = 0
  /\ UNCHANGED <<chainVars, peerVars, stateVars, globalVars, txMemPool,
                 syncPeer, dropped, out>>

----------------------------------------------------------------------------
(* The inv messages a peer may send.                                       *)
InvMsgs == UNION {[1..n -> Inv] : n \in 1..InvBound}

Next ==
  \/ \E p \in Peer :
       \/ handleNewPeerMsg(p)
       \/ handleDonePeerMsg(p)
       \/ \E t \in Tx : handleTxMsg(p, t)
       \/ \E b \in Hash : handleBlockMsg(p, b)
       \/ \E inv \in InvMsgs : handleInvMsg(p, inv)
  \/ Request
  \/ RequestsSent

Spec == Init /\ [][Next]_vars

----------------------------------------------------------------------------
(* Properties.                                                             *)

TypeOK ==
  /\ known \subseteq Hash /\ tip \in known
  /\ peers \subseteq Peer /\ dropped \subseteq Peer
  /\ candidate \subseteq Peer /\ height \in [Peer -> Nat]
  /\ queue \in [Peer -> Seq(Inv)]
  /\ blocks \in [Peer -> SUBSET Hash] /\ txns \in [Peer -> SUBSET Tx]
  /\ requestedBlocks \subseteq Hash /\ requestedTxns \subseteq Tx
  /\ txMemPool \subseteq Tx
  /\ syncPeer \in Peer \cup {NoPeer}
  /\ busy \in Peer \cup {NoPeer} /\ numRequested \in 0..MaxInvPerMsg
  /\ out \subseteq Message

(* requestQueuedInv skips an inventory found in the global maps because it *)
(* takes it for pending somewhere.  It is: a connected peer has been asked *)
(* for it and has not answered.  No disconnection, new sync, orphan,       *)
(* reorganisation or full map leaves behind an entry that nobody will      *)
(* answer and that keeps the block from ever being asked for again.        *)
NoOwnerlessRequest ==
  /\ \A h \in requestedBlocks : \E p \in peers : h \in blocks[p]
  /\ \A t \in requestedTxns : \E p \in peers : t \in txns[p]

(* "Clear the requestedBlocks if the sync peer changes, otherwise we may   *)
(* ignore blocks we need" (manager.go:193): while the node catches up it   *)
(* drops every block that is not from the sync peer, so the blocks held    *)
(* back as pending must be pending at the sync peer.                       *)
PendingAtSyncPeer == Current \/ requestedBlocks \subseteq blocks[syncPeer]

(* The sync peer is connected, and so is every candidate: a done peer is   *)
(* gone from all of the manager's state, whatever it was doing.            *)
SyncPeerConnected ==
  /\ syncPeer \in peers \cup {NoPeer}
  /\ candidate \subseteq peers
  /\ \A p \in Peer \ peers : blocks[p] = {} /\ txns[p] = {} /\ queue[p] = <<>>

(* "The maximum number of requested block hashes to store in memory"       *)
(* (manager.go:27), for the manager's own two maps.  limitMap runs after   *)
(* the new entry is in, and leaves room for one more.                      *)
RequestsBounded ==
  /\ Cardinality(requestedBlocks) < MaxRequested
  /\ Cardinality(requestedTxns) < MaxRequested
=============================================================================
