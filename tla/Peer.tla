--------------------------------- MODULE Peer ---------------------------------
(* A connected peer (peer/peer.go): a merkle block and the transactions it   *)
(* promises are put together to one block, and a peer that owes an answer is *)
(* dropped when nothing has been heard of it for a while.                    *)
(*                                                                           *)
(* Goroutines: the reader and the writer of the peer this one wraps, which   *)
(* belong to the main chain's p2p package; stallHandler; blockHandler; and   *)
(* the sync manager, which blockHandler waits for and which calls            *)
(* StallClear.  They meet in two channels that hold one message.             *)
(*                                                                           *)
(* A definition without a comment that stands just before another one is a   *)
(* plausible mistake in it; the specification does not use it.               *)
EXTENDS MerkleBlock, FiniteSets

CONSTANTS Offer,       \* merkle blocks the peer may send: [txs, matched, whole]
          Wanted,      \* the offers that are asked for
          Tx,          \* transactions the peer may send
          None, Inv,   \* nil; the inventory a getblocks asks for
          MaxMessages, \* bound: messages of the peer
          MaxRequests  \* bound: requests to the peer

(* A block has a transaction, and has none twice.                            *)
ASSUME PeerAssumption ==
  /\ Wanted \subseteq Offer /\ None \notin Offer
  /\ MaxMessages \in Nat /\ MaxRequests \in Nat
  /\ \A o \in Offer :
       /\ Len(o.txs) > 0 /\ o.matched \subseteq DOMAIN o.txs
       /\ IsFiniteSet(o.matched)
       /\ \A i, j \in o.matched : o.txs[i] = o.txs[j] => i = j

(* The transactions of an offer that matched.                                *)
Matched(o) == {o.txs[j] : j \in o.matched}

(* The message of an offer; one that is not whole has lost its last hash.    *)
Message(o) ==
  LET m == NewMerkleBlock(o.txs, o.matched)
  IN IF o.whole THEN m ELSE [m EXCEPT !.hashes = Front(@)]
(* A merkle block travels with what CheckMerkleBlock will make of it, which  *)
(* depends on nothing else.                                                  *)
Incoming ==
  LET checked(o) == CheckMerkleBlock(Message(o)) IN
  {[cmd |-> "merkleblock", offer |-> o, out |-> checked(o).out,
    txIds |-> checked(o).r] : o \in Offer}
    \cup [cmd : {"tx"}, tx : Tx] \cup [cmd : {"inv"}]
    \cup [cmd : {"notfound"}, hash : Wanted]

(* What blockHandler relies on: a merkle block that CheckMerkleBlock accepts *)
(* is whole and names the transactions that matched, no others.              *)
MerkleSound ==
  \A o \in Offer :
    LET check == CheckMerkleBlock(Message(o)) IN
    check.out = "ok" => /\ o.whole
                        /\ {check.r[i][1] : i \in DOMAIN check.r} = Matched(o)

VARIABLES
  connected, quit,       \* the wrapped peer; the channel quit is closed
  reader, inbox,         \* the reader; messages the peer may still send
  out, requests,         \* messages to be written; requests made so far
  prevGetBlocks,         \* begin hash of the last getblocks
  stallControl, stallPc, pendingResponses, lastActive,
  blockQueue, blockPc, header, pendingTxs, txs,
  manager,               \* idle, block, clear (in StallClear) or tx
  sent, delivered        \* history: merkle blocks read, blocks given to OnBlock

wire  == <<connected, quit, inbox>>
asked == <<out, requests, prevGetBlocks>>
stall == <<stallPc, pendingResponses, lastActive>>
block == <<header, pendingTxs, txs>>
vars  == <<wire, reader, asked, stallControl, stall, blockQueue, blockPc, block,
           manager, sent, delivered>>

Idle == [pc |-> "idle"]

Init ==
  /\ connected = TRUE /\ quit = FALSE /\ reader = Idle /\ inbox = MaxMessages
  /\ out = <<>> /\ requests = 0 /\ prevGetBlocks = None
  /\ stallControl = <<>> /\ stallPc = "run" /\ pendingResponses = {}
  /\ lastActive = "old"
  /\ blockQueue = <<>> /\ blockPc = "run" /\ header = None /\ pendingTxs = {}
  /\ txs = <<>> /\ manager = "idle" /\ sent = <<>> /\ delivered = <<>>

-----------------------------------------------------------------------------
(* The wrapped peer (external).  A message that was read is reported to the  *)
(* stall handler and handed to handleMessage; a message to be written is     *)
(* reported first.  It may lose its connection at any time.                  *)

Room(channel) == Len(channel) < 1

Read(m) ==
  /\ connected /\ reader = Idle /\ inbox > 0
  /\ inbox' = inbox - 1 /\ reader' = [pc |-> "report", msg |-> m]
  /\ sent' = IF m.cmd = "merkleblock" THEN Append(sent, m.offer) ELSE sent
  /\ UNCHANGED <<connected, quit, asked, stallControl, stall, blockQueue, blockPc,
                 block, manager, delivered>>

Report ==
  /\ reader.pc = "report" /\ Room(stallControl)
  /\ stallControl' = Append(stallControl, reader.msg)
  /\ reader' = [reader EXCEPT !.pc = "handle"]
  /\ UNCHANGED <<wire, asked, stall, blockQueue, blockPc, block, manager, sent,
                 delivered>>

Write ==
  /\ connected /\ out # <<>> /\ Room(stallControl)
  /\ stallControl' = Append(stallControl, Head(out)) /\ out' = Tail(out)
  /\ UNCHANGED <<wire, reader, requests, prevGetBlocks, stall, blockQueue, blockPc,
                 block, manager, sent, delivered>>

Disconnect == connected' = FALSE

ConnectionLost ==
  /\ connected /\ Disconnect
  /\ UNCHANGED <<quit, inbox, reader, asked, stallControl, stall, blockQueue,
                 blockPc, block, manager, sent, delivered>>

(* NewPeer: WaitForDisconnect, then quit is closed.                          *)
Quit ==
  /\ ~connected /\ ~quit /\ quit' = TRUE
  /\ UNCHANGED <<connected, inbox, reader, asked, stallControl, stall, blockQueue,
                 blockPc, block, manager, sent, delivered>>

(* handleMessage: merkle blocks and transactions go to blockHandler, the     *)
(* rest to callbacks that leave the peer's state alone.                      *)
handleMessage ==
  /\ reader.pc = "handle"
  /\ reader' = IF connected /\ reader.msg.cmd \in {"merkleblock", "tx"}
               THEN [reader EXCEPT !.pc = "queue"] ELSE Idle
  /\ UNCHANGED <<wire, asked, stallControl, stall, blockQueue, blockPc, block,
                 manager, sent, delivered>>

Enqueue ==
  /\ reader.pc = "queue" /\ Room(blockQueue)
  /\ blockQueue' = Append(blockQueue, reader.msg) /\ reader' = Idle
  /\ UNCHANGED <<wire, asked, stallControl, stall, blockPc, block, manager, sent,
                 delivered>>

-----------------------------------------------------------------------------
(* stallHandler.  An offer stands for the hash of its block.                 *)

Expect(pending, m) ==
  CASE m.cmd = "getblocks"   -> pending \cup {Inv}
    [] m.cmd = "inv"         -> pending \ {Inv}
    [] m.cmd = "getdata"     -> pending \cup m.hashes
    [] m.cmd = "merkleblock" -> pending \ {m.offer}
    [] m.cmd = "tx"          -> pending
    [] m.cmd = "notfound"    -> pending \ {m.hash}
    [] m.cmd = "clear"       -> {}

StallMessage ==
  /\ stallPc = "run" /\ stallControl # <<>>
  /\ lastActive' = "recent"
  /\ pendingResponses' = Expect(pendingResponses, Head(stallControl))
  /\ stallControl' = Tail(stallControl)
  /\ UNCHANGED <<wire, reader, asked, stallPc, blockQueue, blockPc, block, manager,
                 sent, delivered>>

(* stallResponseTimeout has passed since the last message.                   *)
Timeout ==
  /\ lastActive = "recent" /\ lastActive' = "old"
  /\ UNCHANGED <<wire, reader, asked, stallControl, stallPc, pendingResponses,
                 blockQueue, blockPc, block, manager, sent, delivered>>

StallTickNever ==
  /\ stallPc = "run" /\ connected
  /\ pendingResponses = {} /\ lastActive = "old"
  /\ Disconnect
  /\ UNCHANGED <<quit, inbox, reader, asked, stallControl, stall, blockQueue,
                 blockPc, block, manager, sent, delivered>>
StallTick ==
  /\ stallPc = "run" /\ connected
  /\ pendingResponses # {} /\ lastActive = "old"
  /\ Disconnect
  /\ UNCHANGED <<quit, inbox, reader, asked, stallControl, stall, blockQueue,
                 blockPc, block, manager, sent, delivered>>

(* After quit the channel is drained, then the goroutine is gone.            *)
StallDrain ==
  /\ \/ stallPc = "run" /\ quit /\ stallPc' = "drain" /\ UNCHANGED stallControl
     \/ /\ stallPc = "drain" /\ stallControl # <<>>
        /\ stallControl' = Tail(stallControl) /\ UNCHANGED stallPc
     \/ /\ stallPc = "drain" /\ stallControl = <<>>
        /\ stallPc' = "gone" /\ UNCHANGED stallControl
  /\ UNCHANGED <<wire, reader, asked, pendingResponses, lastActive, blockQueue,
                 blockPc, block, manager, sent, delivered>>

-----------------------------------------------------------------------------
(* blockHandler.                                                             *)

(* OnBlock queues the block for the sync manager and waits for its answer;   *)
(* what was collected stays until then, and for good when the peer has been  *)
(* disconnected in the meantime.                                             *)
notifyBlock(o, list) ==
  IF connected THEN /\ blockPc' = "onBlock"
                    /\ delivered' = Append(delivered, [offer |-> o, txs |-> list])
  ELSE UNCHANGED <<blockPc, delivered>>

MerkleBlockArrives(m) ==
  \/ /\ header # None \/ m.out # "ok"
     /\ Disconnect
     /\ UNCHANGED <<block, blockPc, delivered>>
  \/ /\ header = None /\ m.out = "ok"
     /\ header' = m.offer /\ UNCHANGED connected
     /\ IF m.txIds = <<>>
        THEN notifyBlock(m.offer, txs) /\ UNCHANGED <<pendingTxs, txs>>
        ELSE /\ pendingTxs' = {m.txIds[i][1] : i \in DOMAIN m.txIds}
             /\ txs' = <<>> /\ UNCHANGED <<blockPc, delivered>>

TxArrivesKeepsPending(t) ==
  \/ /\ header = None
     /\ blockPc' = "onTx" /\ UNCHANGED <<block, connected, delivered>>
  \/ /\ header # None /\ t \notin pendingTxs
     /\ Disconnect /\ UNCHANGED <<block, blockPc, delivered>>
  \/ /\ header # None /\ t \in pendingTxs
     /\ txs' = Append(txs, t)
     /\ IF Len(txs') = Cardinality(pendingTxs) THEN notifyBlock(header, txs')
        ELSE UNCHANGED <<blockPc, delivered>>
     /\ UNCHANGED <<header, pendingTxs, connected>>
TxArrives(t) ==
  \/ /\ header = None
     /\ blockPc' = "onTx" /\ UNCHANGED <<block, connected, delivered>>
  \/ /\ header # None /\ t \notin pendingTxs
     /\ Disconnect /\ UNCHANGED <<block, blockPc, delivered>>
  \/ /\ header # None /\ t \in pendingTxs
     /\ txs' = Append(txs, t) /\ pendingTxs' = pendingTxs \ {t}
     /\ IF pendingTxs' = {} THEN notifyBlock(header, txs')
        ELSE UNCHANGED <<blockPc, delivered>>
     /\ UNCHANGED <<header, connected>>

BlockMessage ==
  /\ blockPc = "run" /\ blockQueue # <<>>
  /\ LET m == Head(blockQueue) IN
       IF m.cmd = "merkleblock" THEN MerkleBlockArrives(m) ELSE TxArrives(m.tx)
  /\ blockQueue' = Tail(blockQueue)
  /\ UNCHANGED <<quit, inbox, reader, asked, stallControl, stall, manager, sent>>

BlockDrain ==
  /\ \/ blockPc = "run" /\ quit /\ blockPc' = "drain" /\ UNCHANGED blockQueue
     \/ /\ blockPc = "drain" /\ blockQueue # <<>>
        /\ blockQueue' = Tail(blockQueue) /\ UNCHANGED blockPc
     \/ /\ blockPc = "drain" /\ blockQueue = <<>>
        /\ blockPc' = "gone" /\ UNCHANGED blockQueue
  /\ UNCHANGED <<wire, reader, asked, stallControl, stall, block, manager, sent,
                 delivered>>

-----------------------------------------------------------------------------
(* The sync manager, as far as the peer meets it: it handles what was queued *)
(* and answers; when the block has made it current it calls StallClear       *)
(* first.  It asks for blocks while it has nothing to handle.                *)

ManagerTakes(current) ==
  /\ manager = "idle" /\ blockPc \in {"onBlock", "onTx"}
  /\ manager' = IF blockPc = "onTx" THEN "tx"
                ELSE IF current THEN "clear" ELSE "block"
  /\ UNCHANGED <<wire, reader, asked, stallControl, stall, blockQueue, blockPc,
                 block, sent, delivered>>

StallClear ==
  /\ manager = "clear" /\ Room(stallControl)
  /\ stallControl' = Append(stallControl, [cmd |-> "clear"])
  /\ manager' = "block"
  /\ UNCHANGED <<wire, reader, asked, stall, blockQueue, blockPc, block, sent,
                 delivered>>

(* The answer: OnBlock returns and the block is forgotten, or OnTx returns.  *)
AnswerKeepsTxs ==
  /\ manager \in {"block", "tx"} /\ manager' = "idle" /\ blockPc' = "run"
  /\ IF manager = "block" THEN header' = None /\ pendingTxs' = {} /\ UNCHANGED txs
     ELSE UNCHANGED block
  /\ UNCHANGED <<wire, reader, asked, stallControl, stall, blockQueue, sent,
                 delivered>>
Answer ==
  /\ manager \in {"block", "tx"} /\ manager' = "idle" /\ blockPc' = "run"
  /\ IF manager = "block" THEN header' = None /\ pendingTxs' = {} /\ txs' = <<>>
     ELSE UNCHANGED block
  /\ UNCHANGED <<wire, reader, asked, stallControl, stall, blockQueue, sent,
                 delivered>>

(* PushGetBlocksMsg drops a request equal to the last one.                   *)
PushGetBlocksMsg(begin) ==
  /\ manager = "idle"
  /\ \/ begin = prevGetBlocks /\ UNCHANGED asked
     \/ /\ begin # prevGetBlocks /\ requests < MaxRequests
        /\ requests' = requests + 1 /\ prevGetBlocks' = begin
        /\ out' = Append(out, [cmd |-> "getblocks"])
  /\ UNCHANGED <<wire, reader, stallControl, stall, blockQueue, blockPc, block,
                 manager, sent, delivered>>

(* QueueMessage of a getdata (external).                                     *)
QueueGetData(o) ==
  /\ manager = "idle" /\ requests < MaxRequests /\ requests' = requests + 1
  /\ out' = Append(out, [cmd |-> "getdata", hashes |-> {o}])
  /\ UNCHANGED <<wire, reader, prevGetBlocks, stallControl, stall, blockQueue,
                 blockPc, block, manager, sent, delivered>>

Next ==
  \/ \E m \in Incoming : Read(m)
  \/ Report \/ Write \/ ConnectionLost \/ Quit \/ handleMessage \/ Enqueue
  \/ StallMessage \/ Timeout \/ StallTick \/ StallDrain
  \/ BlockMessage \/ BlockDrain
  \/ (\E current \in BOOLEAN : ManagerTakes(current)) \/ StallClear \/ Answer
  \/ \E o \in Wanted : PushGetBlocksMsg(o) \/ QueueGetData(o)

Spec == Init /\ [][Next]_vars

(* Some goroutine that can go on goes on, time passes, the ticker ticks.     *)
(* Nobody has to send or to ask for anything.                                *)
Progress ==
  \/ Report \/ Write \/ Quit \/ handleMessage \/ Enqueue
  \/ StallMessage \/ Timeout \/ StallTick \/ StallDrain
  \/ BlockMessage \/ BlockDrain
  \/ (\E current \in BOOLEAN : ManagerTakes(current)) \/ StallClear \/ Answer

FairSpec == Spec /\ WF_vars(Progress)

-----------------------------------------------------------------------------
(* Properties.                                                               *)

TypeOK ==
  /\ connected \in BOOLEAN /\ quit \in BOOLEAN /\ (quit => ~connected)
  /\ Len(stallControl) <= 1 /\ Len(blockQueue) <= 1
  /\ pendingResponses \subseteq Offer \cup {Inv}
  /\ header \in Offer \cup {None}
  /\ header # None => pendingTxs \subseteq Matched(header)
  /\ header = None => pendingTxs = {} /\ txs = <<>>
  /\ (manager = "idle") \/ (blockPc = IF manager = "tx" THEN "onTx" ELSE "onBlock")

(* "We do not notify this new block until the downloading has been           *)
(* completed": blocks reach OnBlock in the order their merkle blocks came,   *)
(* none is left out or given twice, each with exactly the transactions that  *)
(* matched, none of them twice; whatever transactions of other blocks, of    *)
(* the memory pool or incomplete merkle blocks come in between.              *)
DeliveredWhole ==
  /\ Len(delivered) <= Len(sent)
  /\ \A i \in DOMAIN delivered :
       LET o == delivered[i].offer IN
       /\ o = sent[i] /\ o.whole
       /\ Len(delivered[i].txs) = Cardinality(o.matched)
       /\ {delivered[i].txs[j] : j \in DOMAIN delivered[i].txs} = Matched(o)

(* What is stored of a delivered block proves its transactions: the merkle   *)
(* block checks again, as VerifyTransaction does, and the branch of each     *)
(* transaction leads to the root.                                            *)
ProofsHold ==
  \A i \in DOMAIN delivered :
    LET m == Message(delivered[i].offer)
        check == CheckMerkleBlock(m)
    IN /\ check.out = "ok"
       /\ \A j \in DOMAIN delivered[i].txs :
            LET t == delivered[i].txs[j] IN
            /\ \E k \in DOMAIN check.r : check.r[k] = <<t>>
            /\ GetMerkleRoot(t, GetTxMerkleBranch(m, t)) = m.root

(* A peer that owes an answer and falls silent is disconnected: stallTicker  *)
(* sees it, whatever the other goroutines do or wait for.                    *)
StalledDisconnected ==
  (pendingResponses # {}) ~> (pendingResponses = {} \/ ~connected)

(* "Drain any wait channels before going away so there is nothing left       *)
(* waiting on this goroutine": StallClear, called in the sync manager's only *)
(* goroutine, returns.                                                       *)
NothingLeftWaiting == (manager = "clear") ~> (manager # "clear")
=============================================================================
