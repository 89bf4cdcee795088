------------------------------- MODULE Service -------------------------------
(***************************************************************************)
(* The goroutines of the SPV service and the channels between them.        *)
(*                                                                         *)
(*   handler   blockHandler of a peer: runs onBlock and onTx               *)
(*   caller    any other goroutine that calls in: those of a peer, with    *)
(*             onVersion, onInv, onReject and handleDisconnect, and those  *)
(*             of the application, with SendTransaction                    *)
(*   manager   SyncManager.blockHandler, the reader of msgChan             *)
(*   txHandler the reader of txQueue                                       *)
(*                                                                         *)
(* What a message does to the state of its reader is the subject of        *)
(* SyncManager, BlockChain and TxHandler; here a message is who sent it    *)
(* and whether it wants an answer.  All peers share one channel for the    *)
(* answers to their blocks and one for those to their transactions.        *)
(*                                                                         *)
(* A definition without a comment that stands before the one it varies is  *)
(* a plausible mistake in that code, kept to show what a property catches; *)
(* no action uses it.                                                      *)
(***************************************************************************)
EXTENDS Naturals, Sequences, FiniteSets

CONSTANTS
  Handlers, Callers,  \* goroutines of each kind
  MsgCap,   \* capacity of msgChan, 3 * MaxPeers
  TxCap,    \* capacity of txQueue, 3
  MayStop   \* whether Stop is called

ASSUME ServiceAssumption ==
  /\ {MsgCap, TxCap} \subseteq Nat \ {0}
  /\ MayStop \in BOOLEAN
  /\ IsFiniteSet(Handlers)

VARIABLES
  at,         \* where each goroutine is
  kind,       \* "block" or "tx": what a handler is working on
  msgChan,    \* queue of [kind, from]
  processed,  \* blockProcessed and txProcessed: answers in the buffer
  txQueue,    \* number of messages in txQueue
  manager,    \* where the manager is
  cur,        \* the message the manager has taken
  txHandler,  \* where txHandler is
  stop        \* how far Stop has come

vars == <<at, kind, msgChan, processed, txQueue, manager, cur,
          txHandler, stop>>

managerVars == <<manager, cur>>
loops == <<txHandler, stop>>
channels == <<msgChan, processed, txQueue>>

Threads == Handlers \cup Callers

(* What Stop has done so far; the flag shutdown is set before sm.quit is   *)
(* closed, and s.quit is closed last.                                      *)
StopStages == <<"no", "server", "flag", "manager", "store", "done">>
Reached(stage) ==
  LET pos(s) == CHOOSE i \in 1..Len(StopStages) : StopStages[i] = s
  IN pos(stop) >= pos(stage)

Shutdown == Reached("flag")
NoMsg == [kind |-> "none", from |-> "none"]

Init ==
  /\ at = [t \in Threads |-> "idle"]
  /\ kind = [h \in Handlers |-> "tx"]
  /\ msgChan = <<>>
  /\ processed = [k \in {"block", "tx"} |-> 0]
  /\ txQueue = 0
  /\ manager = "idle" /\ cur = NoMsg
  /\ txHandler = "run"
  /\ stop = "no"

Go(t, from, to) == at[t] = from /\ at' = [at EXCEPT ![t] = to]

(* msgChan <- message: blocks while the channel is full.                   *)
SendMsg(k, t) ==
  /\ Len(msgChan) < MsgCap
  /\ msgChan' = Append(msgChan, [kind |-> k, from |-> t])

----------------------------------------------------------------------------
(* Calls that begin: a message of a peer, the application.                 *)

(* A peer has delivered a block, or a transaction that belongs to none.    *)
OnBlockOrTx(h) ==
  /\ Go(h, "idle", "queue")
  /\ \E k \in {"block", "tx"} : kind' = [kind EXCEPT ![h] = k]
  /\ UNCHANGED <<channels, managerVars, loops>>

(* onInv and SendTransaction ask whether the node is current; onVersion    *)
(* and handleDisconnect only post; onReject only reports to txHandler.     *)
Begin(t) ==
  /\ \E to \in {"ask", "askSend", "post", "report"} : Go(t, "idle", to)
  /\ UNCHANGED <<kind, channels, managerVars, loops>>

----------------------------------------------------------------------------
(* Steps of a call.                                                        *)

(* QueueBlock, QueueTx: the test of shutdown.                              *)
CheckShutdown(h) ==
  /\ Go(h, "queue", IF Shutdown THEN "done" ELSE "send")
  /\ UNCHANGED <<kind, channels, managerVars, loops>>

(* QueueBlock, QueueTx: the message is sent, and the caller waits.         *)
QueueMsg(h) ==
  /\ Go(h, "send", "wait")
  /\ SendMsg(kind[h], h)
  /\ UNCHANGED <<kind, processed, txQueue, managerVars, loops>>

QueueDoneSilent(h) ==
  /\ Go(h, "done", "wait")
  /\ UNCHANGED <<kind, channels, managerVars, loops>>

(* The same when shutting down: done <- struct{}{}, by the caller itself.  *)
QueueDone(h) ==
  /\ Go(h, "done", "wait")
  /\ processed[kind[h]] = 0
  /\ processed' = [processed EXCEPT ![kind[h]] = 1]
  /\ UNCHANGED <<kind, msgChan, txQueue, managerVars, loops>>

(* <-s.blockProcessed, <-s.txProcessed: any handler may take any answer.   *)
TakeAnswer(h) ==
  /\ Go(h, "wait", IF kind[h] = "block" THEN "report" ELSE "idle")
  /\ processed[kind[h]] = 1
  /\ processed' = [processed EXCEPT ![kind[h]] = 0]
  /\ UNCHANGED <<kind, msgChan, txQueue, managerVars, loops>>

(* txQueue <- message.  A block goes on to the StateNotifier, the          *)
(* transactions of an inv (one stands for all) to the sync manager; a sent *)
(* or rejected transaction ends the call.                                  *)
Report(t) ==
  /\ \/ t \in Handlers /\ Go(t, "report", "notify")
     \/ t \in Callers /\ Go(t, "report", "idle")
     \/ Go(t, "inv", "post")
  /\ txQueue < TxCap
  /\ txQueue' = txQueue + 1
  /\ UNCHANGED <<kind, msgChan, processed, managerVars, loops>>

(* BlockCommitted of the notifiers in this repository: it works on the     *)
(* stores and may ask IsCurrent.  The block is not looked at after that.   *)
BlockCommitted(h) ==
  /\ \E to \in {"idle", "ask"} : Go(h, "notify", to)
  /\ kind' = [kind EXCEPT ![h] = "tx"]
  /\ UNCHANGED <<channels, managerVars, loops>>

(* IsCurrent: the question is sent without a look at shutdown.             *)
AskCurrent(t) ==
  /\ Go(t, "ask", "answer") \/ Go(t, "askSend", "answerSend")
  /\ SendMsg("current", t)
  /\ UNCHANGED <<kind, processed, txQueue, managerVars, loops>>

(* NewPeer, QueueInv, DonePeer: dropped when shutting down, else sent.     *)
Post(t) ==
  /\ Go(t, "post", IF Shutdown THEN "idle" ELSE "sendPost")
  /\ UNCHANGED <<kind, channels, managerVars, loops>>

SendPost(t) ==
  /\ Go(t, "sendPost", "idle")
  /\ SendMsg("post", t)
  /\ UNCHANGED <<kind, processed, txQueue, managerVars, loops>>

----------------------------------------------------------------------------
(* The readers of the channels.                                            *)

others == <<at, kind, txQueue, loops>>

(* A message is taken that has no answer.                                  *)
TakePost ==
  /\ manager = "idle" /\ msgChan # <<>> /\ Head(msgChan).kind = "post"
  /\ msgChan' = Tail(msgChan)
  /\ UNCHANGED <<others, processed, manager, cur>>

(* isCurrentMsg: the asker is waiting on its own channel.  SendTransaction *)
(* fails unless the node is current; onInv reports transactions only then. *)
AnswerCurrent ==
  LET t == Head(msgChan).from
  IN /\ manager = "idle" /\ msgChan # <<>> /\ Head(msgChan).kind = "current"
     /\ \/ t \in Handlers /\ Go(t, "answer", "idle")
        \/ t \in Callers /\ \E to \in {"post", "inv"} : Go(t, "answer", to)
        \/ \E to \in {"idle", "report"} : Go(t, "answerSend", to)
     /\ msgChan' = Tail(msgChan)
     /\ UNCHANGED <<kind, processed, txQueue, managerVars, loops>>

(* blockMsg or txMsg: handleBlockMsg or handleTxMsg begins.                *)
TakeWork ==
  /\ manager = "idle" /\ msgChan # <<>>
  /\ Head(msgChan).kind \in {"block", "tx"}
  /\ manager' = "handle"
  /\ cur' = Head(msgChan)
  /\ msgChan' = Tail(msgChan)
  /\ UNCHANGED <<others, processed>>

RefusedUnanswered ==
  /\ manager = "handle"
  /\ manager' \in {"idle", "reply"}
  /\ UNCHANGED <<others, msgChan, processed, cur>>

(* The handler returns, whether the block was committed or not (the peer   *)
(* is not the sync peer, the block is unrequested, an orphan, known, ...). *)
HandleWork ==
  /\ manager = "handle"
  /\ manager' = "reply"
  /\ UNCHANGED <<others, msgChan, processed, cur>>

(* msg.reply <- struct{}{}                                                 *)
Reply ==
  /\ manager = "reply" /\ processed[cur.kind] = 0
  /\ processed' = [processed EXCEPT ![cur.kind] = 1]
  /\ manager' = "idle" /\ cur' = NoMsg
  /\ UNCHANGED <<others, msgChan>>

(* <-sm.quit, then cleanup.                                                *)
ManagerQuit ==
  /\ manager = "idle" /\ Reached("manager")
  /\ manager' = "drain"
  /\ UNCHANGED <<others, msgChan, processed, cur>>

ManagerDrain ==
  /\ manager = "drain"
  /\ \/ msgChan # <<>> /\ msgChan' = Tail(msgChan) /\ manager' = manager
     \/ msgChan = <<>> /\ msgChan' = msgChan /\ manager' = "gone"
  /\ UNCHANGED <<others, processed, cur>>

HandleTxMsg ==
  /\ txHandler \in {"run", "drain"} /\ txQueue > 0
  /\ txQueue' = txQueue - 1
  /\ UNCHANGED <<at, kind, msgChan, processed, managerVars, loops>>

(* txHandler sees s.quit, drains txQueue and goes away.                    *)
TxHandlerQuit ==
  /\ Reached("done")
  /\ \/ txHandler = "run" /\ txHandler' = "drain"
     \/ txHandler = "drain" /\ txQueue = 0 /\ txHandler' = "gone"
  /\ UNCHANGED <<at, kind, msgChan, processed, txQueue,
                 manager, cur, stop>>

StopSkipsQuit ==
  /\ MayStop
  /\ \/ stop = "no" /\ stop' = "server"
     \/ stop = "server" /\ stop' = "flag"
  /\ UNCHANGED <<at, kind, msgChan, processed, txQueue,
                 manager, cur, txHandler>>

(* service.Stop: IServer.Stop, then the flag, close(sm.quit), the store    *)
(* and close(s.quit), without waiting for anyone.                          *)
Stop ==
  /\ MayStop
  /\ \E i \in 1..Len(StopStages) - 1 :
       stop = StopStages[i] /\ stop' = StopStages[i + 1]
  /\ UNCHANGED <<at, kind, msgChan, processed, txQueue,
                 manager, cur, txHandler>>

----------------------------------------------------------------------------
HandlerStep(h) ==
  \/ CheckShutdown(h) \/ QueueMsg(h) \/ QueueDone(h) \/ TakeAnswer(h)
  \/ BlockCommitted(h)

(* A step of a call that is under way.                                     *)
Continue(t) ==
  \/ t \in Handlers /\ HandlerStep(t)
  \/ Post(t) \/ SendPost(t) \/ AskCurrent(t) \/ Report(t)

ManagerWork == TakePost \/ AnswerCurrent \/ TakeWork \/ HandleWork \/ Reply

Next ==
  \/ \E h \in Handlers : OnBlockOrTx(h)
  \/ \E t \in Callers : Begin(t)
  \/ \E t \in Threads : Continue(t)
  \/ ManagerWork \/ ManagerQuit \/ ManagerDrain
  \/ HandleTxMsg \/ TxHandlerQuit
  \/ Stop

Spec == Init /\ [][Next]_vars

(* Goroutines that can run do.  One that waits for room in a channel or    *)
(* for an element of it is served in its turn: strong fairness.            *)
RunningSpec ==
  /\ Spec
  /\ \A t \in Threads : SF_vars(Continue(t))
  /\ WF_vars(ManagerWork) /\ WF_vars(HandleTxMsg)

(* When the service is stopped: Stop runs to its end once it was called,   *)
(* and a select chooses at random among its ready cases, so the quit case  *)
(* of a loop, and the default of its drain, come about in the end.  Now    *)
(* the peers answer themselves, and the manager's reply takes its turn.    *)
StoppingSpec ==
  /\ RunningSpec
  /\ WF_vars(stop # "no" /\ Stop)
  /\ SF_vars(Reply)
  /\ SF_vars(ManagerQuit) /\ WF_vars(ManagerDrain)
  /\ SF_vars(ManagerDrain /\ msgChan = <<>>)

----------------------------------------------------------------------------
(* Properties.                                                             *)

Waiting(k) == {h \in Handlers : at[h] = "wait" /\ kind[h] = k}
Queued(list, k) == {i \in DOMAIN list : list[i].kind = k}
InHand(k) == IF manager \in {"handle", "reply"} /\ cur.kind = k THEN 1 ELSE 0
Owed(k) == Cardinality(Queued(msgChan, k)) + InHand(k) + processed[k]

(* As many answers are on their way as peers wait for one on the shared    *)
(* channels; only the drain of the manager loses some.  So a reply of the  *)
(* manager always finds a peer that makes room for it (manager.go:617).    *)
AnswersBalance ==
  \A k \in {"block", "tx"} :
    /\ Owed(k) <= Cardinality(Waiting(k))
    /\ manager \notin {"drain", "gone"} => Owed(k) = Cardinality(Waiting(k))

(* While the service runs every call returns: the peers' goroutines, the   *)
(* manager, txHandler and the notifier's own questions to the manager      *)
(* never wait for each other in a circle.                                  *)
CallsReturn == \A t \in Threads : at[t] # "idle" ~> at[t] = "idle"

(* Stop ends the manager's goroutine, whatever it was doing and however    *)
(* full its channel was.                                                   *)
ManagerStops == Shutdown ~> manager = "gone"
=============================================================================
