------------------------------ MODULE PeerProofs ------------------------------
(***************************************************************************)
(* A block is given to OnBlock once, in the order the merkle blocks came,  *)
(* with exactly the transactions that matched: proved for any offers, any  *)
(* number of messages and any interleaving of the peer's goroutines.  What *)
(* CheckMerkleBlock makes of a merkle block is a fold over the turns of    *)
(* its loop; it enters as the hypothesis MerkleSound, which TLC evaluates  *)
(* for the offers of the runs.                                             *)
(***************************************************************************)
EXTENDS Peer, FiniteSetTheorems, SequenceTheorems, TLAPS

(* The messages that are written, reported and queued.                     *)
Outgoing == [cmd : {"getblocks"}] \cup [cmd : {"getdata"}, hashes : SUBSET Wanted]
Control == Incoming \cup Outgoing \cup [cmd : {"clear"}]
Parts == {m \in Incoming : m.cmd \in {"merkleblock", "tx"}}
TxIds == UNION {Matched(o) : o \in Offer}

Reading == [pc : {"report", "handle", "queue"}, msg : Incoming]

(* Types of the channels and of what the goroutines hold.                  *)
Channels ==
  /\ reader = Idle \/ reader \in Reading
  /\ reader.pc = "queue" => reader.msg \in Parts
  /\ out \in Seq(Outgoing)
  /\ stallControl \in Seq(Control) /\ blockQueue \in Seq(Parts)
  /\ sent \in Seq(Offer)
  /\ delivered \in Seq([offer : Offer, txs : Seq(TxIds)])
  /\ txs \in Seq(TxIds)
  /\ blockPc \in {"run", "onBlock", "onTx", "drain", "gone"}
  /\ connected => blockPc \in {"run", "onBlock", "onTx"}

(* Where a merkle block that was read may be: at the reader, in the queue, *)
(* with blockHandler until its block is complete.                          *)
AtReader == reader # Idle /\ reader.msg.cmd = "merkleblock"
AtQueue == blockQueue # <<>> /\ Head(blockQueue).cmd = "merkleblock"
Held == header # None /\ blockPc # "onBlock"

(* Every merkle block read was delivered or is in one of these places, the *)
(* oldest one furthest on; as long as the peer is connected.               *)
Ledger ==
  connected =>
    /\ Len(sent) = Len(delivered) + Bool(Held) + Bool(AtQueue) + Bool(AtReader)
    /\ Held => sent[Len(delivered) + 1] = header
    /\ AtQueue => sent[Len(delivered) + Bool(Held) + 1] = Head(blockQueue).offer
    /\ AtReader => sent[Len(sent)] = reader.msg.offer

(* What was collected of the block that is being put together, and what is *)
(* still missing, are the transactions that matched, each of them once.    *)
Got == {txs[j] : j \in DOMAIN txs}
Collected ==
  Held =>
    /\ header.whole
    /\ IsFiniteSet(pendingTxs) /\ Got \cup pendingTxs = Matched(header)
    /\ Len(txs) + Cardinality(pendingTxs) = Cardinality(header.matched)

-----------------------------------------------------------------------------
(* The messages.                                                           *)

(* What a message carries, by its command (peer.go:74-99).                 *)
LEMMA IncomingFields ==
  ASSUME NEW m \in Incoming
  PROVE  /\ m.cmd \in {"merkleblock", "tx", "inv", "notfound"}
         /\ m.cmd = "merkleblock" =>
              /\ m.offer \in Offer
              /\ m.out = CheckMerkleBlock(Message(m.offer)).out
              /\ m.txIds = CheckMerkleBlock(Message(m.offer)).r
         /\ m.cmd = "notfound" => m.hash \in Wanted
<1> DEFINE checked(o) == CheckMerkleBlock(Message(o))
           MerkleBlocks == {[cmd |-> "merkleblock", offer |-> o,
                             out |-> checked(o).out, txIds |-> checked(o).r] :
                              o \in Offer}
<1> HIDE DEF checked
<1>1. m \in MerkleBlocks \cup [cmd : {"tx"}, tx : Tx] \cup [cmd : {"inv"}]
              \cup [cmd : {"notfound"}, hash : Wanted]
  BY DEF Incoming, checked
<1>2. CASE m \in MerkleBlocks
  <2>1. PICK o \in Offer : m = [cmd |-> "merkleblock", offer |-> o,
                                out |-> checked(o).out, txIds |-> checked(o).r]
    BY <1>2
  <2> QED
    BY <2>1 DEF checked
<1> QED
  BY <1>1, <1>2

(* Whatever is reported, only blocks and inventories are waited for.       *)
LEMMA ExpectType ==
  ASSUME NEW p \in SUBSET (Offer \cup {Inv}), NEW m \in Control
  PROVE  Expect(p, m) \in SUBSET (Offer \cup {Inv})
<1>1. CASE m \in Incoming
  BY <1>1, IncomingFields, PeerAssumption DEF Expect
<1>2. CASE m \in Outgoing
  BY <1>2, PeerAssumption DEF Expect, Outgoing
<1>3. CASE m \in [cmd : {"clear"}]
  BY <1>3 DEF Expect
<1> QED
  BY <1>1, <1>2, <1>3 DEF Control

(* A channel that holds one message at most.                               *)
LEMMA OneMessage ==
  ASSUME NEW S, NEW c \in Seq(S), Len(c) <= 1
  PROVE  /\ c # <<>> => Head(c) \in S /\ Tail(c) = <<>> /\ Len(c) = 1
         /\ Room(c) => c = <<>>
         /\ \A x \in S : Room(c) => /\ Append(c, x) \in Seq(S)
                                    /\ Append(c, x) # <<>>
                                    /\ Head(Append(c, x)) = x
                                    /\ Len(Append(c, x)) = 1
<1>1. ASSUME c # <<>>
      PROVE  Head(c) \in S /\ Tail(c) = <<>> /\ Len(c) = 1
  <2> DEFINE n == Len(c)
  <2>1. n = 1
    <3>1. n \in Nat \ {0}
      BY <1>1, EmptySeq, Zenon
    <3>2. n <= 1
      OBVIOUS
    <3> HIDE DEF n
    <3> QED
      BY <3>1, <3>2
  <2>2. Tail(c) \in Seq(S) /\ Len(Tail(c)) = 0
    BY <1>1, <2>1, HeadTailProperties
  <2> QED
    BY <1>1, <2>1, <2>2, HeadTailProperties, EmptySeq
<1>2. Room(c) => c = <<>>
  BY DEF Room
<1>3. ASSUME NEW x \in S, c = <<>>
      PROVE  /\ Append(c, x) \in Seq(S) /\ Append(c, x) # <<>>
             /\ Head(Append(c, x)) = x /\ Len(Append(c, x)) = 1
  BY <1>3
<1> QED
  BY <1>1, <1>2, <1>3

-----------------------------------------------------------------------------
(* Types.                                                                  *)

Types == TypeOK /\ Channels

(* Initially nothing was read or asked (NewPeer, peer.go:359-378).         *)
LEMMA InitTypes == Init => Types
<1> SUFFICES ASSUME Init PROVE Types
  OBVIOUS
<1>1. connected \in BOOLEAN /\ quit \in BOOLEAN /\ (quit => ~connected)
  BY Zenon DEF Init
<1> QED
  BY <1>1, PeerAssumption DEF Init, Types, TypeOK, Channels, Idle

(* A message of the queue, as blockHandler gets it (peer.go:218-221).      *)
LEMMA NextPart ==
  ASSUME Types, blockQueue # <<>>
  PROVE  LET m == Head(blockQueue) IN
         /\ m \in Incoming /\ m.cmd \in {"merkleblock", "tx"}
         /\ Tail(blockQueue) = <<>>
         /\ m.cmd = "merkleblock" => m.offer \in Offer
<1>1. Head(blockQueue) \in Parts /\ Tail(blockQueue) = <<>>
  BY OneMessage DEF Types, TypeOK, Channels
<1> QED
  BY <1>1, IncomingFields DEF Parts

(* A merkle block that passes names what matched, and is whole.            *)
LEMMA AcceptedMatches ==
  ASSUME MerkleSound, NEW m \in Incoming, m.cmd = "merkleblock", m.out = "ok"
  PROVE  /\ m.offer \in Offer /\ m.offer # None /\ m.offer.whole
         /\ {m.txIds[i][1] : i \in DOMAIN m.txIds} = Matched(m.offer)
         /\ Matched(m.offer) \subseteq TxIds
<1>1. /\ m.offer \in Offer
      /\ m.out = CheckMerkleBlock(Message(m.offer)).out
      /\ m.txIds = CheckMerkleBlock(Message(m.offer)).r
  BY IncomingFields
<1>2. m.offer # None
  BY <1>1, PeerAssumption
<1>3. /\ m.offer.whole
      /\ {m.txIds[i][1] : i \in DOMAIN m.txIds} = Matched(m.offer)
  BY <1>1 DEF MerkleSound
<1>4. Matched(m.offer) \subseteq TxIds
  BY <1>1 DEF TxIds
<1> QED
  BY <1>1, <1>2, <1>3, <1>4

(* A complete block is appended, if the peer is still there.               *)
LEMMA NotifyTypes ==
  ASSUME Types, blockPc = "run",
         NEW o \in Offer, NEW list \in Seq(TxIds), notifyBlock(o, list)
  PROVE  /\ delivered' \in Seq([offer : Offer, txs : Seq(TxIds)])
         /\ blockPc' \in {"run", "onBlock"}
<1>1. CASE connected
  <2>1. /\ blockPc' = "onBlock"
        /\ delivered' = Append(delivered, [offer |-> o, txs |-> list])
    BY <1>1, Zenon DEF notifyBlock
  <2>2. [offer |-> o, txs |-> list] \in [offer : Offer, txs : Seq(TxIds)]
    OBVIOUS
  <2> HIDE DEF TxIds
  <2> QED
    BY <2>1, <2>2 DEF Types, Channels
<1>2. CASE ~connected
  BY <1>2 DEF Types, Channels, notifyBlock
<1> QED
  BY <1>1, <1>2

(* blockHandler keeps the types.                                           *)
LEMMA BlockMessageTypes ==
  ASSUME Types, MerkleSound, BlockMessage
  PROVE  Types'
<1> DEFINE m == Head(blockQueue)
<1> USE DEF wire, asked, stall, block
<1>1. /\ m \in Incoming /\ m.cmd \in {"merkleblock", "tx"}
      /\ blockQueue' = <<>> /\ blockPc = "run"
  BY NextPart DEF BlockMessage
<1>2. /\ header' \in Offer \cup {None} /\ connected' \in BOOLEAN
      /\ connected' => connected
      /\ header' # None => pendingTxs' \subseteq Matched(header')
      /\ header' = None => pendingTxs' = {} /\ txs' = <<>>
      /\ txs' \in Seq(TxIds)
      /\ blockPc' \in {"run", "onBlock", "onTx"}
      /\ delivered' \in Seq([offer : Offer, txs : Seq(TxIds)])
  <2>1. CASE m.cmd = "merkleblock"
    <3>1. MerkleBlockArrives(m)
      BY <2>1 DEF BlockMessage
    <3>2. CASE header # None \/ m.out # "ok"
      BY <1>1, <3>1, <3>2
      DEF MerkleBlockArrives, Disconnect, Types, TypeOK, Channels
    <3>3. CASE header = None /\ m.out = "ok"
      <4>1. /\ m.offer \in Offer /\ m.offer # None
            /\ {m.txIds[i][1] : i \in DOMAIN m.txIds} = Matched(m.offer)
        BY <1>1, <2>1, <3>3, AcceptedMatches
      <4>2. header' = m.offer /\ connected' = connected
        BY <3>1, <3>3 DEF MerkleBlockArrives
      <4>3. CASE m.txIds = <<>>
        <5>1. /\ notifyBlock(m.offer, txs) /\ txs = <<>> /\ pendingTxs = {}
              /\ pendingTxs' = {} /\ txs' = <<>>
          BY <3>1, <3>3, <4>3 DEF MerkleBlockArrives, Types, TypeOK
        <5>2. txs \in Seq(TxIds)
          BY DEF Types, Channels
        <5>3. /\ blockPc' \in {"run", "onBlock"}
              /\ delivered' \in Seq([offer : Offer, txs : Seq(TxIds)])
          BY <1>1, <4>1, <5>1, <5>2, NotifyTypes
        <5> QED
          BY <1>1, <4>1, <4>2, <5>1, <5>2, <5>3 DEF Types, TypeOK
      <4>4. CASE m.txIds # <<>>
        <5>1. /\ pendingTxs' = Matched(m.offer) /\ txs' = <<>>
              /\ blockPc' = blockPc /\ delivered' = delivered
          BY <3>1, <3>3, <4>1, <4>4 DEF MerkleBlockArrives
        <5> QED
          BY <1>1, <4>1, <4>2, <5>1 DEF Types, TypeOK, Channels
      <4> QED
        BY <4>3, <4>4
    <3> QED
      BY <3>2, <3>3
  <2>2. CASE m.cmd = "tx"
    <3> DEFINE t == m.tx
    <3>1. TxArrives(t)
      BY <2>2 DEF BlockMessage
    <3> HIDE DEF t
    <3>2. CASE header = None
      BY <1>1, <3>1, <3>2 DEF TxArrives, Types, TypeOK, Channels
    <3>3. CASE header # None /\ t \notin pendingTxs
      BY <1>1, <3>1, <3>3 DEF TxArrives, Disconnect, Types, TypeOK, Channels
    <3>4. CASE header # None /\ t \in pendingTxs
      <4>1. /\ txs' = Append(txs, t) /\ pendingTxs' = pendingTxs \ {t}
            /\ header' = header /\ connected' = connected
            /\ notifyBlock(header, txs') \/ UNCHANGED <<blockPc, delivered>>
        BY <3>1, <3>4 DEF TxArrives
      <4>2. header \in Offer /\ t \in TxIds
        BY <3>4 DEF Types, TypeOK, TxIds
      <4>3. txs' \in Seq(TxIds)
        BY <4>1, <4>2 DEF Types, Channels
      <4>4. /\ blockPc' \in {"run", "onBlock"}
            /\ delivered' \in Seq([offer : Offer, txs : Seq(TxIds)])
        BY <1>1, <4>1, <4>2, <4>3, NotifyTypes DEF Types, Channels
      <4> QED
        BY <3>4, <4>1, <4>2, <4>3, <4>4 DEF Types, TypeOK
    <3> QED
      BY <3>2, <3>3, <3>4
  <2> QED
    BY <1>1, <2>1, <2>2
<1>3. manager = "idle"
  BY <1>1 DEF Types, TypeOK
<1>4. TypeOK'
  BY <1>1, <1>2, <1>3 DEF BlockMessage, Types, TypeOK
<1>5. Channels'
  BY <1>1, <1>2 DEF BlockMessage, Types, TypeOK, Channels
<1> QED
  BY <1>4, <1>5 DEF Types

(* Every step keeps the types.                                             *)
LEMMA NextTypes ==
  ASSUME Types, MerkleSound, [Next]_vars
  PROVE  Types'
<1> USE DEF wire, asked, stall, block
<1>1. ASSUME NEW m \in Incoming, Read(m)
      PROVE  Types'
  <2>1. /\ reader' = [pc |-> "report", msg |-> m] /\ reader' \in Reading
        /\ reader'.pc = "report"
    BY <1>1 DEF Read, Reading
  <2>2. sent' \in Seq(Offer)
    BY <1>1, IncomingFields DEF Read, Types, Channels
  <2>3. TypeOK'
    BY <1>1 DEF Read, Types, TypeOK
  <2>4. Channels'
    BY <1>1, <2>1, <2>2 DEF Read, Types, Channels
  <2> QED
    BY <2>3, <2>4 DEF Types
<1>2. CASE Report
  <2>1. reader \in Reading /\ reader.msg \in Control
    BY <1>2 DEF Report, Types, Channels, Idle, Reading, Control
  <2>2. stallControl' \in Seq(Control) /\ Len(stallControl') = 1
    BY <1>2, <2>1, OneMessage DEF Report, Types, TypeOK, Channels
  <2>3. reader' \in Reading /\ reader'.pc = "handle"
    BY <1>2, <2>1 DEF Report, Reading
  <2>4. TypeOK'
    BY <1>2, <2>2 DEF Report, Types, TypeOK
  <2>5. Channels'
    BY <1>2, <2>2, <2>3 DEF Report, Types, Channels
  <2> QED
    BY <2>4, <2>5 DEF Types
<1>3. CASE Write
  <2>1. /\ Head(out) \in Outgoing /\ Head(out) \in Control
        /\ Tail(out) \in Seq(Outgoing)
    BY <1>3, HeadTailProperties DEF Write, Types, Channels, Control
  <2>2. stallControl' \in Seq(Control) /\ Len(stallControl') = 1
    BY <1>3, <2>1, OneMessage DEF Write, Types, TypeOK, Channels
  <2>3. TypeOK'
    BY <1>3, <2>2 DEF Write, Types, TypeOK
  <2>4. Channels'
    BY <1>3, <2>1, <2>2 DEF Write, Types, Channels
  <2> QED
    BY <2>3, <2>4 DEF Types
<1>4. CASE ConnectionLost
  BY <1>4 DEF ConnectionLost, Disconnect, Types, TypeOK, Channels
<1>5. CASE Quit
  <2>1. connected' = connected /\ (quit' => ~connected') /\ quit' \in BOOLEAN
    BY <1>5, Zenon DEF Quit
  <2> QED
    BY <1>5, <2>1 DEF Quit, Types, TypeOK, Channels
<1>6. CASE handleMessage
  <2>1. reader \in Reading
    BY <1>6 DEF handleMessage, Types, Channels, Idle
  <2>2. TypeOK'
    BY <1>6 DEF handleMessage, Types, TypeOK
  <2>3. /\ reader' = Idle \/ reader' \in Reading
        /\ reader'.pc = "queue" => reader'.msg \in Parts
    <3>1. CASE connected /\ reader.msg.cmd \in {"merkleblock", "tx"}
      BY <1>6, <2>1, <3>1 DEF handleMessage, Reading, Parts
    <3>2. CASE ~(connected /\ reader.msg.cmd \in {"merkleblock", "tx"})
      BY <1>6, <3>2 DEF handleMessage, Idle
    <3> QED
      BY <3>1, <3>2
  <2>4. Channels'
    BY <1>6, <2>3 DEF handleMessage, Types, Channels
  <2> QED
    BY <2>2, <2>4 DEF Types
<1>7. CASE Enqueue
  <2>1. reader.msg \in Parts
    BY <1>7 DEF Enqueue, Types, Channels
  <2>2. blockQueue' \in Seq(Parts) /\ Len(blockQueue') = 1
    BY <1>7, <2>1, OneMessage DEF Enqueue, Types, TypeOK, Channels
  <2>3. TypeOK'
    BY <1>7, <2>2 DEF Enqueue, Types, TypeOK
  <2>4. Channels'
    BY <1>7, <2>2 DEF Enqueue, Types, Channels, Idle
  <2> QED
    BY <2>3, <2>4 DEF Types
<1>8. CASE StallMessage
  <2>1. Head(stallControl) \in Control /\ stallControl' = <<>>
    BY <1>8, OneMessage DEF StallMessage, Types, TypeOK, Channels
  <2>2. pendingResponses' \subseteq Offer \cup {Inv}
    BY <1>8, <2>1, ExpectType DEF StallMessage, Types, TypeOK
  <2>3. TypeOK'
    BY <1>8, <2>1, <2>2 DEF StallMessage, Types, TypeOK
  <2>4. Channels'
    BY <1>8, <2>1 DEF StallMessage, Types, Channels
  <2> QED
    BY <2>3, <2>4 DEF Types
<1>9. CASE Timeout
  BY <1>9 DEF Timeout, Types, TypeOK, Channels
<1>10. CASE StallTick
  BY <1>10 DEF StallTick, Disconnect, Types, TypeOK, Channels
<1>11. CASE StallDrain
  <2>1. /\ stallControl' \in Seq(Control) /\ Len(stallControl') <= 1
        /\ pendingResponses' = pendingResponses
    BY <1>11, OneMessage DEF StallDrain, Types, TypeOK, Channels
  <2>2. TypeOK'
    BY <1>11, <2>1 DEF StallDrain, Types, TypeOK
  <2>3. Channels'
    BY <1>11, <2>1 DEF StallDrain, Types, Channels
  <2> QED
    BY <2>2, <2>3 DEF Types
<1>12. CASE BlockMessage
  BY <1>12, BlockMessageTypes
<1>13. CASE BlockDrain
  <2>1. blockQueue' \in Seq(Parts) /\ Len(blockQueue') <= 1
    BY <1>13, OneMessage DEF BlockDrain, Types, TypeOK, Channels
  <2>2. blockPc \in {"run", "drain"} /\ blockPc' \in {"drain", "gone"} /\ ~connected
    BY <1>13 DEF BlockDrain, Types, TypeOK, Channels
  <2>3. TypeOK'
    BY <1>13, <2>1, <2>2 DEF BlockDrain, Types, TypeOK
  <2>4. Channels'
    BY <1>13, <2>1, <2>2 DEF BlockDrain, Types, Channels
  <2> QED
    BY <2>3, <2>4 DEF Types
<1>14. ASSUME NEW current \in BOOLEAN, ManagerTakes(current)
       PROVE  Types'
  <2>1. manager' = IF blockPc = "onTx" THEN "tx" ELSE manager'
    BY <1>14 DEF ManagerTakes
  <2>2. blockPc = "onTx" \/ (blockPc = "onBlock" /\ manager' \in {"clear", "block"})
    BY <1>14, Zenon DEF ManagerTakes
  <2>3. TypeOK'
    BY <1>14, <2>1, <2>2 DEF ManagerTakes, Types, TypeOK
  <2>4. Channels'
    BY <1>14 DEF ManagerTakes, Types, Channels
  <2> QED
    BY <2>3, <2>4 DEF Types
<1>15. CASE StallClear
  <2>1. [cmd |-> "clear"] \in Control
    BY DEF Control
  <2>2. stallControl' \in Seq(Control) /\ Len(stallControl') = 1
    BY <1>15, <2>1, OneMessage DEF StallClear, Types, TypeOK, Channels
  <2>3. TypeOK'
    BY <1>15, <2>2 DEF StallClear, Types, TypeOK
  <2>4. Channels'
    BY <1>15, <2>2 DEF StallClear, Types, Channels
  <2> QED
    BY <2>3, <2>4 DEF Types
<1>16. CASE Answer
  <2>1. TypeOK'
    BY <1>16 DEF Answer, Types, TypeOK
  <2>2. blockPc' = "run" /\ txs' \in Seq(TxIds)
    <3>1. blockPc' = "run" /\ (txs' = <<>> \/ txs' = txs)
      BY <1>16 DEF Answer
    <3> QED
      BY <3>1, EmptySeq DEF Types, Channels
  <2>3. Channels'
    BY <1>16, <2>2 DEF Answer, Types, Channels
  <2> QED
    BY <2>1, <2>3 DEF Types
<1>17. ASSUME NEW o \in Wanted, PushGetBlocksMsg(o)
       PROVE  Types'
  <2>1. [cmd |-> "getblocks"] \in Outgoing
    BY DEF Outgoing
  <2>2. out \in Seq(Outgoing)
    BY DEF Types, Channels
  <2>3. out' \in Seq(Outgoing)
    <3>1. CASE out' = Append(out, [cmd |-> "getblocks"])
      BY <2>1, <2>2, <3>1, AppendProperties
    <3>2. CASE out' = out
      BY <2>2, <3>2
    <3> QED
      BY <1>17, <3>1, <3>2 DEF PushGetBlocksMsg
  <2> QED
    BY <1>17, <2>3 DEF PushGetBlocksMsg, Types, TypeOK, Channels
<1>18. ASSUME NEW o \in Wanted, QueueGetData(o)
       PROVE  Types'
  <2>1. [cmd |-> "getdata", hashes |-> {o}] \in Outgoing
    BY DEF Outgoing
  <2>2. Append(out, [cmd |-> "getdata", hashes |-> {o}]) \in Seq(Outgoing)
    BY <2>1, AppendProperties DEF Types, Channels
  <2>3. out' \in Seq(Outgoing)
    BY <1>18, <2>2 DEF QueueGetData
  <2> QED
    BY <1>18, <2>3 DEF QueueGetData, Types, TypeOK, Channels
<1>19. CASE UNCHANGED vars
  BY <1>19 DEF vars, Types, TypeOK, Channels
<1> QED
  BY <1>1, <1>2, <1>3, <1>4, <1>5, <1>6, <1>7, <1>8, <1>9, <1>10, <1>11, <1>12,
     <1>13, <1>14, <1>15, <1>16, <1>17, <1>18, <1>19 DEF Next

-----------------------------------------------------------------------------
(* Order and completeness.                                                 *)

Kept == Ledger /\ Collected /\ DeliveredWhole

(* Initially nothing was read.                                             *)
LEMMA InitKept == Init => Kept
<1> SUFFICES ASSUME Init PROVE Kept
  OBVIOUS
<1>1. ~Held /\ ~AtQueue /\ ~AtReader
  BY DEF Init, Held, AtQueue, AtReader
<1>2. Len(sent) = 0 /\ Len(delivered) = 0 /\ DOMAIN delivered = {}
  BY DEF Init
<1> QED
  BY <1>1, <1>2 DEF Kept, Ledger, Collected, DeliveredWhole, Bool

(* A step that moves no merkle block keeps order and completeness.         *)
LEMMA Frame ==
  ASSUME Kept, UNCHANGED <<sent, delivered>>,
         Held' <=> Held, Held => UNCHANGED <<header, pendingTxs, txs>>,
         connected' => /\ connected
                       /\ AtQueue' <=> AtQueue
                       /\ AtQueue => Head(blockQueue)' = Head(blockQueue)
                       /\ AtReader' <=> AtReader
                       /\ AtReader => reader'.msg.offer = reader.msg.offer
  PROVE  Kept'
<1>1. DeliveredWhole'
  BY DEF Kept, DeliveredWhole
<1>2. Collected'
  BY DEF Kept, Collected, Got
<1>3. ASSUME connected' PROVE Ledger'
  <2>1. Bool(Held)' = Bool(Held)
    BY DEF Bool
  <2>2. Bool(AtQueue)' = Bool(AtQueue) /\ Bool(AtReader)' = Bool(AtReader)
    BY <1>3 DEF Bool
  <2> QED
    BY <1>3, <2>1, <2>2 DEF Kept, Ledger
<1>4. ASSUME ~connected' PROVE Ledger'
  BY <1>4 DEF Ledger
<1> QED
  BY <1>1, <1>2, <1>3, <1>4 DEF Kept

(* The places counted: d delivered, h held, q queued.                      *)
LEMMA Places ==
  ASSUME NEW d \in Nat, NEW h \in {0, 1}, NEW q \in {0, 1}
  PROVE  /\ h = 1 => d + 1 \in 1 .. d + h + q
         /\ q = 1 => d + h + 1 \in 1 .. d + h + q
         /\ d <= d + h + q /\ d + h + q \in Nat
OBVIOUS

(* A merkle block that is read is the last one of sent.                    *)
LEMMA ReadKept ==
  ASSUME Types, Kept, NEW m \in Incoming, Read(m)
  PROVE  Kept'
<1> USE DEF wire, asked, stall, block
<1>1. /\ ~AtReader /\ connected /\ connected' = connected
      /\ UNCHANGED <<delivered, header, pendingTxs, txs, blockPc, blockQueue>>
      /\ reader' = [pc |-> "report", msg |-> m] /\ reader' # Idle
  BY DEF Read, AtReader, Idle
<1>2. Collected' /\ DOMAIN delivered' = 1 .. Len(delivered)
  BY <1>1 DEF Kept, Collected, Got, Held, Types, Channels
<1>3. /\ Bool(Held)' = Bool(Held) /\ Bool(AtQueue)' = Bool(AtQueue)
      /\ Bool(AtReader) = 0 /\ (Held' <=> Held) /\ (AtQueue' <=> AtQueue)
      /\ Bool(Held) \in {0, 1} /\ Bool(AtQueue) \in {0, 1}
      /\ Held => Bool(Held) = 1
      /\ AtQueue => Bool(AtQueue) = 1
  BY <1>1 DEF Bool, Held, AtQueue
<1>4. CASE m.cmd = "merkleblock"
  <2>1. m.offer \in Offer
    BY <1>4, IncomingFields
  <2>2. /\ sent' = Append(sent, m.offer) /\ Len(sent') = Len(sent) + 1
        /\ \A i \in 1 .. Len(sent) : sent'[i] = sent[i]
        /\ sent'[Len(sent')] = m.offer /\ sent' \in Seq(Offer)
    BY <1>4, <2>1 DEF Read, Types, Channels
  <2>3. Bool(AtReader)' = 1 /\ reader'.msg.offer = m.offer
    BY <1>1, <1>4 DEF AtReader, Bool
  <2>4. /\ Len(sent) \in Nat /\ Len(delivered) \in Nat
        /\ Len(sent) = Len(delivered) + Bool(Held) + Bool(AtQueue)
    BY <1>1, <1>3 DEF Types, Channels, Kept, Ledger
  <2>5. Ledger'
    <3>1. Len(sent') = (Len(delivered) + Bool(Held) + Bool(AtQueue) + Bool(AtReader))'
      BY <1>1, <1>3, <2>2, <2>3, <2>4
    <3>0. /\ Held => Len(delivered) + 1 \in 1 .. Len(sent)
          /\ AtQueue => Len(delivered) + Bool(Held) + 1 \in 1 .. Len(sent)
      BY <1>3, <2>4, Places, Zenon
    <3>2. Held => sent'[Len(delivered) + 1] = header
      BY <1>1, <2>2, <3>0, Zenon DEF Kept, Ledger
    <3>3. AtQueue => sent'[Len(delivered) + Bool(Held) + 1] = Head(blockQueue).offer
      BY <1>1, <2>2, <3>0, Zenon DEF Kept, Ledger
    <3> QED
      BY <1>1, <1>3, <2>2, <2>3, <3>1, <3>2, <3>3 DEF Ledger
  <2>6. DeliveredWhole'
    <3>1. Len(delivered') <= Len(sent')
      BY <1>1, <1>3, <2>2, <2>4
    <3>2. \A i \in 1 .. Len(delivered) : sent'[i] = sent[i]
      BY <1>3, <2>2, <2>4
    <3>3. delivered' = delivered /\ DOMAIN delivered = 1 .. Len(delivered)
      BY <1>1, <1>2
    <3>4. DeliveredWhole
      BY DEF Kept
    <3>5. \A i \in DOMAIN delivered : sent'[i] = sent[i]
      BY <3>2, <3>3
    <3>6. \A i \in DOMAIN delivered :
            LET o == delivered[i].offer IN
            /\ o = sent'[i] /\ o.whole
            /\ Len(delivered[i].txs) = Cardinality(o.matched)
            /\ {delivered[i].txs[j] : j \in DOMAIN delivered[i].txs} = Matched(o)
      BY <3>4, <3>5, Zenon DEF DeliveredWhole
    <3> QED
      BY <3>1, <3>3, <3>6, Zenon DEF DeliveredWhole
  <2> QED
    BY <1>2, <2>5, <2>6 DEF Kept
<1>5. CASE m.cmd # "merkleblock"
  <2>1. ~AtReader' /\ sent' = sent
    BY <1>1, <1>5 DEF AtReader, Read
  <2> QED
    BY <1>1, <1>3, <2>1, Frame
<1> QED
  BY <1>4, <1>5

(* The message that is queued stays the last one of sent.                  *)
LEMMA EnqueueKept ==
  ASSUME Types, Kept, Enqueue
  PROVE  Kept'
<1> USE DEF wire, asked, stall, block
<1>1. /\ reader # Idle /\ reader' = Idle /\ connected' = connected
      /\ UNCHANGED <<sent, delivered, header, pendingTxs, txs, blockPc>>
      /\ reader.msg \in Parts
  BY DEF Enqueue, Idle, Types, Channels
<1>2. /\ blockQueue = <<>> /\ blockQueue' # <<>> /\ Head(blockQueue') = reader.msg
  BY <1>1, OneMessage DEF Enqueue, Types, TypeOK, Channels
<1>3. /\ ~AtQueue /\ ~AtReader' /\ (AtQueue' <=> AtReader)
      /\ (Held' <=> Held)
  BY <1>1, <1>2 DEF AtQueue, AtReader, Held
<1>4. /\ Bool(Held)' = Bool(Held) /\ Bool(AtQueue)' = Bool(AtReader)
      /\ Bool(AtQueue) = 0 /\ Bool(AtReader)' = 0
      /\ Bool(Held) \in {0, 1} /\ Bool(AtReader) \in {0, 1}
      /\ AtReader => Bool(AtReader) = 1
  BY <1>3 DEF Bool
<1>5. Collected' /\ DeliveredWhole'
  BY <1>1, <1>3 DEF Kept, Collected, Got, DeliveredWhole
<1>6. ASSUME connected' PROVE Ledger'
  <2>1. /\ Len(sent) = Len(delivered) + Bool(Held) + Bool(AtReader)
        /\ Len(delivered) \in Nat
    BY <1>1, <1>4, <1>6 DEF Kept, Ledger, Types, Channels
  <2>2. AtReader => sent[Len(delivered) + Bool(Held) + 1] = reader.msg.offer
    BY <1>1, <1>4, <1>6, <2>1 DEF Kept, Ledger
  <2> QED
    BY <1>1, <1>2, <1>3, <1>4, <1>6, <2>1, <2>2 DEF Kept, Ledger
<1>7. ASSUME ~connected' PROVE Ledger'
  BY <1>7 DEF Ledger
<1> QED
  BY <1>5, <1>6, <1>7 DEF Kept

(* As many transactions matched as leaves did.                             *)
LEMMA MatchedCount ==
  ASSUME NEW o \in Offer
  PROVE  /\ IsFiniteSet(Matched(o))
         /\ Cardinality(Matched(o)) = Cardinality(o.matched)
<1> DEFINE f == [j \in o.matched |-> o.txs[j]]
<1>1. f \in Surjection(o.matched, Matched(o)) /\ f \in Injection(o.matched, Matched(o))
  <2>1. f \in [o.matched -> Matched(o)]
    BY DEF Matched
  <2>2. \A t \in Matched(o) : \E j \in o.matched : f[j] = t
    BY DEF Matched
  <2>3. \A i, j \in o.matched : f[i] = f[j] => i = j
    BY PeerAssumption
  <2> HIDE DEF f
  <2> QED
    BY <2>1, <2>2, <2>3 DEF Surjection, Injection, IsInjective
<1>2. IsFiniteSet(o.matched)
  BY PeerAssumption
<1> HIDE DEF f
<1> QED
  BY <1>1, <1>2, FS_Surjection

(* A block that is given to OnBlock is the next one, and complete.         *)
LEMMA DeliverNext ==
  ASSUME Types, Kept, UNCHANGED sent, NEW o \in Offer, NEW list \in Seq(TxIds),
         delivered' = Append(delivered, [offer |-> o, txs |-> list]),
         Len(delivered) + 1 <= Len(sent), sent[Len(delivered) + 1] = o, o.whole,
         Len(list) = Cardinality(o.matched),
         {list[j] : j \in DOMAIN list} = Matched(o)
  PROVE  DeliveredWhole' /\ Len(delivered') = Len(delivered) + 1
<1> DEFINE d == [offer |-> o, txs |-> list]
           Fits(e, i) == /\ e.offer = sent[i] /\ e.offer.whole
                         /\ Len(e.txs) = Cardinality(e.offer.matched)
                         /\ {e.txs[j] : j \in DOMAIN e.txs} = Matched(e.offer)
<1>1. d \in [offer : Offer, txs : Seq(TxIds)] /\ Fits(d, Len(delivered) + 1)
  OBVIOUS
<1>2. \A i \in DOMAIN delivered : Fits(delivered[i], i)
  BY DEF Kept, DeliveredWhole
<1>3. /\ Len(delivered') = Len(delivered) + 1
      /\ DOMAIN delivered = 1 .. Len(delivered) /\ Len(delivered) \in Nat
      /\ DOMAIN delivered' = 1 .. Len(delivered) + 1
      /\ \A i \in 1 .. Len(delivered) : delivered'[i] = delivered[i]
      /\ delivered'[Len(delivered) + 1] = d
  <2> HIDE DEF d
  <2>1. delivered' = Append(delivered, d)
    BY DEF d
  <2> QED
    BY <1>1, <2>1, AppendProperties, LenProperties DEF Types, Channels
<1> HIDE DEF Fits, d
<1>4. \A i \in DOMAIN delivered' : Fits(delivered'[i], i)
  BY <1>1, <1>2, <1>3
<1>5. Len(delivered') <= Len(sent')
  BY <1>3
<1> QED
  BY <1>3, <1>4, <1>5 DEF Fits, DeliveredWhole

(* What a merkle block at the head of the queue knows of its place.        *)
LEMMA HeadPlace ==
  ASSUME Types, Kept, connected, header = None, AtQueue
  PROVE  /\ sent[Len(delivered) + 1] = Head(blockQueue).offer
         /\ Len(delivered) + 1 <= Len(sent)
         /\ Len(sent) = Len(delivered) + 1 + Bool(AtReader)
<1>1. Bool(Held) = 0 /\ Bool(AtQueue) = 1 /\ Bool(AtReader) \in {0, 1}
  BY DEF Held, Bool
<1> DEFINE n == Len(sent)
           d == Len(delivered)
<1>0. n = d + Bool(Held) + Bool(AtQueue) + Bool(AtReader)
  BY Zenon DEF Kept, Ledger
<1>2. d \in Nat
  BY LenProperties DEF Types, Channels
<1>3. sent[d + Bool(Held) + 1] = Head(blockQueue).offer
  BY Zenon DEF Kept, Ledger
<1> HIDE DEF n, d
<1> DEFINE r == Bool(AtReader)
<1>4. n = d + 0 + 1 + r /\ r \in {0, 1} /\ sent[d + 0 + 1] = Head(blockQueue).offer
  BY <1>1, <1>0, <1>3
<1> HIDE DEF r
<1>5. d + 0 + 1 = d + 1 /\ d + 1 <= n /\ n = d + 1 + r
  BY <1>2, <1>4
<1>6. sent[d + 1] = Head(blockQueue).offer
  BY <1>4, <1>5, Zenon
<1> QED
  BY <1>5, <1>6, Zenon DEF n, d, r

(* A merkle block begins a new block (peer.go:223-264).                    *)
LEMMA MerkleBlockKept ==
  ASSUME Types, Kept, MerkleSound, BlockMessage,
         Head(blockQueue).cmd = "merkleblock"
  PROVE  Kept'
<1> USE DEF wire, asked, stall, block
<1> DEFINE m == Head(blockQueue)
<1>1. /\ m \in Incoming /\ blockQueue' = <<>> /\ blockPc = "run"
      /\ AtQueue /\ ~AtQueue' /\ MerkleBlockArrives(m)
      /\ UNCHANGED <<reader, sent>> /\ (AtReader' <=> AtReader)
      /\ (Held <=> header # None)
  BY NextPart DEF BlockMessage, AtQueue, AtReader, Held
<1>2. CASE header # None \/ m.out # "ok"
  <2>1. /\ ~connected' /\ UNCHANGED <<header, pendingTxs, txs, blockPc, delivered>>
    BY <1>1, <1>2 DEF MerkleBlockArrives, Disconnect
  <2>2. Held' <=> Held
    BY <2>1 DEF Held
  <2> QED
    BY <1>1, <2>1, <2>2, Frame
<1>3. CASE header = None /\ m.out = "ok"
  <2>1. /\ m.offer \in Offer /\ m.offer # None /\ m.offer.whole
        /\ {m.txIds[i][1] : i \in DOMAIN m.txIds} = Matched(m.offer)
    BY <1>1, <1>3, AcceptedMatches
  <2>2. header' = m.offer /\ connected' = connected
    BY <1>1, <1>3 DEF MerkleBlockArrives
  <2>3. txs = <<>> /\ pendingTxs = {} /\ txs \in Seq(TxIds)
    BY <1>3 DEF Types, TypeOK, Channels
  <2>4. Bool(AtQueue)' = 0 /\ Bool(AtReader)' = Bool(AtReader)
    BY <1>1 DEF Bool
  <2>5. ASSUME connected
        PROVE  /\ sent[Len(delivered) + 1] = m.offer
               /\ Len(delivered) + 1 <= Len(sent)
               /\ Len(sent) = Len(delivered) + 1 + Bool(AtReader)
               /\ AtReader => sent[Len(sent)] = reader.msg.offer
    BY <1>1, <1>3, <2>5, HeadPlace DEF Kept, Ledger
  <2>6. Len(delivered) \in Nat /\ Bool(AtReader) \in {0, 1}
    BY DEF Types, Channels, Bool
  <2>7. CASE m.txIds = <<>>
    <3>1. /\ notifyBlock(m.offer, txs) /\ pendingTxs' = {} /\ txs' = <<>>
      BY <1>1, <1>3, <2>3, <2>7 DEF MerkleBlockArrives
    <3>2. Matched(m.offer) = {}
      BY <2>1, <2>7
    <3>3. Cardinality(m.offer.matched) = 0
      BY <2>1, <3>2, MatchedCount, FS_EmptySet
    <3>4. CASE connected
      <4>1. /\ blockPc' = "onBlock"
            /\ delivered' = Append(delivered, [offer |-> m.offer, txs |-> txs])
        BY <3>1, <3>4, Zenon DEF notifyBlock
      <4>2. Len(txs) = Cardinality(m.offer.matched)
        BY <2>3, <3>3
      <4>3. {txs[j] : j \in DOMAIN txs} = Matched(m.offer)
        BY <2>3, <3>2
      <4>4. DeliveredWhole' /\ Len(delivered') = Len(delivered) + 1
        BY <1>1, <2>1, <2>3, <2>5, <3>4, <4>1, <4>2, <4>3, DeliverNext
      <4>5. ~Held' /\ Bool(Held)' = 0
        BY <4>1 DEF Held, Bool
      <4>6. Collected'
        BY <4>5 DEF Collected
      <4>7. Ledger'
        <5>1. Len(sent') = (Len(delivered) + Bool(Held) + Bool(AtQueue) + Bool(AtReader))'
          BY <1>1, <2>4, <2>5, <2>6, <3>4, <4>4, <4>5
        <5> QED
          BY <1>1, <2>5, <3>4, <4>5, <5>1 DEF Ledger
      <4> QED
        BY <4>4, <4>6, <4>7 DEF Kept
    <3>5. CASE ~connected
      <4>1. blockPc' = blockPc /\ delivered' = delivered
        BY <3>1, <3>5 DEF notifyBlock
      <4>2. DeliveredWhole' /\ Ledger'
        BY <1>1, <2>2, <3>5, <4>1 DEF Kept, DeliveredWhole, Ledger
      <4>3. Len(txs') = 0 /\ Got' = {}
        BY <3>1 DEF Got
      <4>4. Collected'
        BY <2>1, <2>2, <3>1, <3>2, <3>3, <4>3, FS_EmptySet DEF Collected
      <4> QED
        BY <4>2, <4>4 DEF Kept
    <3> QED
      BY <3>4, <3>5
  <2>8. CASE m.txIds # <<>>
    <3>1. /\ pendingTxs' = Matched(m.offer) /\ txs' = <<>>
          /\ blockPc' = "run" /\ delivered' = delivered
      BY <1>1, <1>3, <2>1, <2>8 DEF MerkleBlockArrives
    <3>2. Held' /\ Bool(Held)' = 1
      BY <2>1, <2>2, <3>1 DEF Held, Bool
    <3>3. Len(txs') = 0 /\ Got' = {} /\ Cardinality(m.offer.matched) \in Nat
      BY <3>1, <2>1, MatchedCount, FS_CardinalityType DEF Got
    <3>4. Collected'
      BY <2>1, <2>2, <3>1, <3>3, MatchedCount DEF Collected
    <3>5. Ledger'
      <4>1. ASSUME connected
            PROVE  Len(sent') = (Len(delivered) + Bool(Held) + Bool(AtQueue)
                                   + Bool(AtReader))'
        <5> DEFINE n == Len(sent)
                   d == Len(delivered)
                   r == Bool(AtReader)
        <5>1. n = d + 1 + r /\ d \in Nat /\ r \in {0, 1}
          BY <2>5, <2>6, <4>1
        <5>2. Len(sent') = n /\ Len(delivered') = d /\ Bool(AtReader)' = r
          BY <1>1, <2>4, <3>1
        <5> HIDE DEF n, d, r
        <5>3. n = d + 1 + 0 + r
          BY <5>1
        <5> QED
          BY <2>4, <3>2, <5>2, <5>3, Zenon
      <4>2. CASE connected
        <5>1. Held' => sent'[Len(delivered') + 1] = header'
          BY <1>1, <2>2, <2>5, <3>1, <4>2
        <5>2. AtReader' => sent'[Len(sent')] = reader'.msg.offer
          BY <1>1, <2>5, <4>2
        <5> QED
          BY <1>1, <4>1, <4>2, <5>1, <5>2 DEF Ledger
      <4>3. CASE ~connected
        BY <2>2, <4>3 DEF Ledger
      <4> QED
        BY <4>2, <4>3
    <3>6. DeliveredWhole'
      BY <1>1, <3>1 DEF Kept, DeliveredWhole
    <3> QED
      BY <3>4, <3>5, <3>6 DEF Kept
  <2> QED
    BY <2>7, <2>8
<1> QED
  BY <1>2, <1>3

(* A transaction of the block is collected; the last one completes it      *)
(* (peer.go:266-297).                                                      *)
LEMMA TxKept ==
  ASSUME Types, Kept, BlockMessage, Head(blockQueue).cmd = "tx"
  PROVE  Kept'
<1> USE DEF wire, asked, stall, block
<1> DEFINE t == Head(blockQueue).tx
<1>1. /\ blockQueue' = <<>> /\ blockPc = "run" /\ TxArrives(t)
      /\ ~AtQueue /\ ~AtQueue' /\ (AtReader' <=> AtReader)
      /\ UNCHANGED <<reader, sent>> /\ (Held <=> header # None)
  BY NextPart DEF BlockMessage, AtQueue, AtReader, Held
<1> HIDE DEF t
<1>2. CASE header = None
  <2>1. /\ UNCHANGED <<header, pendingTxs, txs, connected, delivered>>
    BY <1>1, <1>2 DEF TxArrives
  <2>2. ~Held /\ ~Held'
    BY <1>2, <2>1 DEF Held
  <2> QED
    BY <1>1, <2>1, <2>2, Frame
<1>3. CASE header # None /\ t \notin pendingTxs
  <2>1. /\ ~connected' /\ UNCHANGED <<header, pendingTxs, txs, blockPc, delivered>>
    BY <1>1, <1>3 DEF TxArrives, Disconnect
  <2>2. Held' <=> Held
    BY <2>1 DEF Held
  <2> QED
    BY <1>1, <2>1, <2>2, Frame
<1>4. CASE header # None /\ t \in pendingTxs
  <2>1. /\ txs' = Append(txs, t) /\ pendingTxs' = pendingTxs \ {t}
        /\ header' = header /\ connected' = connected
        /\ IF pendingTxs' = {} THEN notifyBlock(header, txs')
           ELSE UNCHANGED <<blockPc, delivered>>
    BY <1>1, <1>4 DEF TxArrives
  <2>2. /\ Held /\ header \in Offer /\ t \in TxIds /\ header.whole
        /\ IsFiniteSet(pendingTxs) /\ Got \cup pendingTxs = Matched(header)
        /\ Len(txs) + Cardinality(pendingTxs) = Cardinality(header.matched)
    BY <1>1, <1>4 DEF Kept, Collected, Types, TypeOK, TxIds
  <2>3. /\ txs' \in Seq(TxIds) /\ Len(txs') = Len(txs) + 1 /\ Len(txs) \in Nat
        /\ DOMAIN txs' = 1 .. Len(txs) + 1 /\ DOMAIN txs = 1 .. Len(txs)
        /\ \A j \in 1 .. Len(txs) : txs'[j] = txs[j]
        /\ txs'[Len(txs) + 1] = t
    BY <2>1, <2>2, AppendProperties, LenProperties DEF Types, Channels
  <2>4. Got' = Got \cup {t}
    <3>1. Got' = {txs'[j] : j \in 1 .. Len(txs) + 1}
      BY <2>3 DEF Got
    <3>2. Got = {txs[j] : j \in 1 .. Len(txs)}
      BY <2>3 DEF Got
    <3> DEFINE k == Len(txs)
    <3>3. 1 .. k + 1 = (1 .. k) \cup {k + 1}
      <4>1. k \in Nat
        BY <2>3
      <4> HIDE DEF k
      <4> QED
        BY <4>1
    <3>4. /\ \A j \in 1 .. k : txs'[j] = txs[j]
          /\ txs'[k + 1] = t
      BY <2>3
    <3>5. Got' = {txs'[j] : j \in (1 .. k) \cup {k + 1}} /\ Got = {txs[j] : j \in 1 .. k}
      BY <3>1, <3>2, <3>3, Zenon DEF k
    <3> HIDE DEF k
    <3> QED
      BY <3>4, <3>5, Zenon
  <2>5. /\ IsFiniteSet(pendingTxs') /\ Got' \cup pendingTxs' = Matched(header)
        /\ Cardinality(pendingTxs') = Cardinality(pendingTxs) - 1
        /\ Cardinality(pendingTxs) \in Nat
    BY <1>4, <2>1, <2>2, <2>4, FS_RemoveElement, FS_CardinalityType
  <2>6. Len(txs') + Cardinality(pendingTxs') = Cardinality(header.matched)
    <3> DEFINE k == Len(txs)
               c == Cardinality(pendingTxs)
    <3>1. k \in Nat /\ c \in Nat /\ k + c = Cardinality(header.matched)
      BY <2>2, <2>3, <2>5
    <3>2. Len(txs') = k + 1 /\ Cardinality(pendingTxs') = c - 1
      BY <2>3, <2>5
    <3> HIDE DEF k, c
    <3> QED
      BY <3>1, <3>2
  <2>7. /\ Bool(Held) = 1 /\ Bool(AtQueue) = 0 /\ Bool(AtQueue)' = 0
        /\ Bool(AtReader)' = Bool(AtReader) /\ Bool(AtReader) \in {0, 1}
    BY <1>1, <2>2 DEF Bool
  <2>8. CASE pendingTxs' = {} /\ connected
    <3>1. /\ blockPc' = "onBlock"
          /\ delivered' = Append(delivered, [offer |-> header, txs |-> txs'])
      BY <2>1, <2>8, Zenon DEF notifyBlock
    <3>2. ~Held' /\ Bool(Held)' = 0
      BY <3>1 DEF Held, Bool
    <3>3. /\ sent[Len(delivered) + 1] = header
          /\ AtReader => sent[Len(sent)] = reader.msg.offer
      BY <2>2, <2>8, Zenon DEF Kept, Ledger
    <3> DEFINE n == Len(sent)
               d == Len(delivered)
               r == Bool(AtReader)
    <3>4. d + 1 <= n /\ n = d + 1 + r /\ n = d + 1 + 0 + 0 + r
      <4>1. n = d + 1 + 0 + r
        BY <2>2, <2>7, <2>8, Zenon DEF Kept, Ledger
      <4>2. d \in Nat /\ r \in {0, 1}
        BY <2>7, LenProperties DEF Types, Channels
      <4> HIDE DEF n, d, r
      <4> QED
        BY <4>1, <4>2
    <3>5. /\ Len(txs') = Cardinality(header.matched)
          /\ {txs'[j] : j \in DOMAIN txs'} = Matched(header)
      <4>1. Got' = Matched(header)
        BY <2>5, <2>8
      <4> DEFINE k == Len(txs')
                 c == Cardinality(header.matched)
      <4>2. k + 0 = c /\ k \in Nat
        BY <2>3, <2>6, <2>8, FS_EmptySet
      <4>3. k = c
        <5> HIDE DEF k, c
        <5> QED
          BY <4>2
      <4> QED
        BY <4>1, <4>3, Zenon DEF Got
    <3>6. DeliveredWhole' /\ Len(delivered') = Len(delivered) + 1
      BY <1>1, <2>2, <2>3, <3>1, <3>3, <3>4, <3>5, DeliverNext
    <3>7. Collected'
      BY <3>2 DEF Collected
    <3>8. Len(sent') = (Len(delivered) + Bool(Held) + Bool(AtQueue) + Bool(AtReader))'
      BY <1>1, <2>7, <3>2, <3>4, <3>6, Zenon
    <3>9. Ledger'
      BY <1>1, <3>2, <3>3, <3>8 DEF Ledger
    <3> QED
      BY <3>6, <3>7, <3>9 DEF Kept
  <2>9. CASE ~(pendingTxs' = {} /\ connected)
    <3>1. blockPc' = blockPc /\ delivered' = delivered
      BY <2>1, <2>9 DEF notifyBlock
    <3>2. Held' /\ Bool(Held)' = 1
      BY <1>1, <1>4, <2>1, <3>1 DEF Held, Bool
    <3>3. Collected'
      BY <2>1, <2>2, <2>5, <2>6 DEF Collected
    <3>4. DeliveredWhole'
      BY <1>1, <3>1 DEF Kept, DeliveredWhole
    <3>5. Ledger'
      <4>1. /\ Len(sent') = Len(sent) /\ Len(delivered') = Len(delivered)
            /\ Bool(Held)' = Bool(Held) /\ Bool(AtQueue)' = Bool(AtQueue)
            /\ Bool(AtReader)' = Bool(AtReader)
        BY <1>1, <2>7, <3>1, <3>2
      <4> QED
        BY <1>1, <2>1, <2>2, <3>1, <4>1 DEF Kept, Ledger
    <3> QED
      BY <3>3, <3>4, <3>5 DEF Kept
  <2> QED
    BY <2>8, <2>9
<1> QED
  BY <1>2, <1>3, <1>4

(* Every step keeps order and completeness.                                *)
LEMMA NextKept ==
  ASSUME Types, Kept, MerkleSound, [Next]_vars
  PROVE  Kept'
<1> USE DEF wire, asked, stall, block
<1>1. ASSUME NEW m \in Incoming, Read(m)
      PROVE  Kept'
  BY <1>1, ReadKept
<1>2. CASE Enqueue
  BY <1>2, EnqueueKept
<1>3. CASE BlockMessage
  <2>1. Head(blockQueue).cmd \in {"merkleblock", "tx"}
    BY <1>3, NextPart DEF BlockMessage
  <2> QED
    BY <1>3, <2>1, MerkleBlockKept, TxKept
<1>4. CASE Report
  <2>1. reader # Idle /\ reader' # Idle /\ reader'.msg = reader.msg
    BY <1>4 DEF Report, Types, Channels, Idle, Reading
  <2>2. (AtReader' <=> AtReader) /\ (AtQueue' <=> AtQueue) /\ (Held' <=> Held)
    BY <1>4, <2>1 DEF Report, AtReader, AtQueue, Held
  <2> QED
    BY <1>4, <2>1, <2>2, Frame DEF Report
<1>5. CASE handleMessage
  <2>1. reader # Idle /\ reader \in Reading
    BY <1>5 DEF handleMessage, Types, Channels, Idle
  <2>2. (AtQueue' <=> AtQueue) /\ (Held' <=> Held)
    BY <1>5 DEF handleMessage, AtQueue, Held
  <2>3. CASE connected /\ reader.msg.cmd \in {"merkleblock", "tx"}
    <3>1. reader' # Idle /\ reader'.msg = reader.msg
      BY <1>5, <2>1, <2>3 DEF handleMessage, Idle, Reading
    <3>2. AtReader' <=> AtReader
      BY <2>1, <3>1 DEF AtReader
    <3> QED
      BY <1>5, <2>2, <3>1, <3>2, Frame DEF handleMessage
  <2>4. CASE connected /\ reader.msg.cmd \notin {"merkleblock", "tx"}
    <3>1. ~AtReader' /\ ~AtReader
      BY <1>5, <2>4 DEF handleMessage, AtReader
    <3> QED
      BY <1>5, <2>2, <3>1, Frame DEF handleMessage
  <2>5. CASE ~connected
    <3>1. ~connected'
      BY <1>5, <2>5 DEF handleMessage
    <3> QED
      BY <1>5, <2>2, <3>1, Frame DEF handleMessage
  <2> QED
    BY <2>3, <2>4, <2>5
<1>6. CASE ConnectionLost \/ StallTick
  <2>1. ~connected' /\ (Held' <=> Held)
    BY <1>6 DEF ConnectionLost, StallTick, Disconnect, Held
  <2> QED
    BY <1>6, <2>1, Frame DEF ConnectionLost, StallTick
<1>7. CASE BlockDrain
  <2>1. ~connected' /\ (Held' <=> Held)
    BY <1>7 DEF BlockDrain, Types, TypeOK, Channels, Held
  <2> QED
    BY <1>7, <2>1, Frame DEF BlockDrain
<1>8. CASE Answer
  <2>1. (AtReader' <=> AtReader) /\ (AtQueue' <=> AtQueue)
    BY <1>8 DEF Answer, AtReader, AtQueue
  <2>2. (Held' <=> Held) /\ (Held => UNCHANGED <<header, pendingTxs, txs>>)
    BY <1>8 DEF Answer, Types, TypeOK, Held
  <2> QED
    BY <1>8, <2>1, <2>2, Frame DEF Answer
<1>9. CASE UNCHANGED <<connected, reader, sent, delivered, header, pendingTxs, txs,
                       blockPc, blockQueue>>
  <2>1. (AtReader' <=> AtReader) /\ (AtQueue' <=> AtQueue) /\ (Held' <=> Held)
    BY <1>9 DEF AtReader, AtQueue, Held
  <2> QED
    BY <1>9, <2>1, Frame
<1>10. CASE Write \/ Quit \/ StallMessage \/ Timeout \/ StallDrain \/ StallClear
  BY <1>9, <1>10
  DEF Write, Quit, StallMessage, Timeout, StallDrain, StallClear
<1>11. ASSUME NEW o \in Wanted, PushGetBlocksMsg(o) \/ QueueGetData(o)
       PROVE  Kept'
  BY <1>9, <1>11 DEF PushGetBlocksMsg, QueueGetData
<1>12. ASSUME NEW current \in BOOLEAN, ManagerTakes(current)
       PROVE  Kept'
  BY <1>9, <1>12 DEF ManagerTakes
<1>13. CASE UNCHANGED vars
  BY <1>9, <1>13 DEF vars
<1> QED
  BY <1>1, <1>2, <1>3, <1>4, <1>5, <1>6, <1>7, <1>8, <1>10, <1>11, <1>12, <1>13
  DEF Next

(* The types hold in every behaviour, for any offers and bounds, if        *)
(* CheckMerkleBlock is sound.                                              *)
THEOREM TypeCorrect ==
  ASSUME MerkleSound
  PROVE  Spec => []TypeOK
<1>1. Types /\ [Next]_vars => Types'
  BY NextTypes
<1>2. Types => TypeOK
  BY DEF Types
<1> QED
  BY <1>1, <1>2, InitTypes, PTL DEF Spec

(* Blocks reach OnBlock whole, in order and once, whatever the goroutines  *)
(* and the connection do (peer.go:193-298), if CheckMerkleBlock is sound.  *)
THEOREM BlocksWhole ==
  ASSUME MerkleSound
  PROVE  Spec => []DeliveredWhole
<1>1. Init => Types /\ Kept
  BY InitTypes, InitKept
<1>2. Types /\ Kept /\ [Next]_vars => Types' /\ Kept'
  BY NextTypes, NextKept
<1>3. Kept => DeliveredWhole
  BY DEF Kept
<1> QED
  BY <1>1, <1>2, <1>3, PTL DEF Spec
=============================================================================
