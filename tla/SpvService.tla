------------------------------ MODULE SpvService ------------------------------
(* The interface service (interface/spvservice.go) over its data store       *)
(* (interface/store): the transactions of watched addresses, the outputs     *)
(* they own, the queue of notifications, and with Arbiters and CustomID what *)
(* a side chain reads from the main chain.                                   *)
(*                                                                           *)
(* Three kinds of actor meet here.  The chain database works on one block at *)
(* a time (chaindb.go, under BlockChain's lock) and calls PutTxs, DelTxs and *)
(* PutForkTxs; a handler, the goroutine of the peer that sent the block, then *)
(* runs BlockCommitted; the application registers listeners, submits         *)
(* receipts and asks.  A batch is collected transaction by transaction and   *)
(* written as a whole, so the others run between its steps.                  *)
(*                                                                           *)
(* A definition without a comment that stands just before another one is a   *)
(* plausible mistake in it; the specification does not use it.               *)
EXTENDS CustomID, BlockTree, FiniteSets

CONSTANTS BlockTxs,     \* the transactions of a block, in order
          Tx,           \* what a transaction is, by its hash
          Listener,     \* listeners: [addr, type, confirmed, syncing]
          Handler,      \* goroutines that deliver blocks
          CoinbaseConfirmations, \* confirmations of a coinbase transaction
          MaxBlocks,    \* bound: blocks stored, the genesis block included
          MaxFaults     \* bound: crashes and failed writes of a run

ASSUME SpvAssumption ==
  /\ \A b \in Block : /\ BlockTxs[b] \in Seq(DOMAIN Tx)
                       /\ BlockTxs[b] # Error
  /\ <<>> # Error /\ CoinbaseConfirmations \in Nat

(* Heights are numbers, and a block changes the arbiters once at most: the   *)
(* batch takes the positions from the database, not from what it collected.  *)
ASSUME TurnAssumption ==
  /\ \A t \in DOMAIN Tx :
       /\ Tx[t].kind \in {"NextTurn", "Fee"} => Tx[t].at \in Nat \ {0}
       /\ Tx[t].kind = "RevertToPOW" => Tx[t].at \in Nat
       /\ Tx[t].kind = "RevertToDPOS" => Tx[t].interval \in Nat
       /\ Tx[t].kind = "Result" =>
            Tx[t].results \in Seq([about : {"Reserve", "Receive", "Fee"},
                                   proposal : DOMAIN Tx, approved : BOOLEAN])
  /\ \A b \in Block : \A i, j \in DOMAIN BlockTxs[b] :
       Tx[BlockTxs[b][i]].kind = "NextTurn" /\ Tx[BlockTxs[b][j]].kind = "NextTurn"
         => i = j

(* nil is no value: no height, list, set of arbiters, proposal or map; nor   *)
(* is an error.                                                              *)
NamedIDs == UNION {Tx[t].ids : t \in {u \in DOMAIN Tx :
                                         Tx[u].kind \in {"Reserve", "Receive"}}}
NamedDIDs == {Tx[t].did : t \in {u \in DOMAIN Tx : Tx[u].kind = "Receive"}}
ASSUME NilAssumption ==
  /\ None \notin Nat /\ Error \notin Nat /\ None \notin Seq(Nat)
  /\ None \notin Seq([workingHeight : Nat, mode : {"POW", "DPOS"}])
  /\ None \notin [ref : {TRUE}, val : Nat] /\ None # TRUE
  /\ \A t \in DOMAIN Tx :
       /\ Tx[t].kind = "NextTurn" => Full(Tx[t].set) # None
       /\ Tx[t].kind = "Reserve" => Tx[t].ids # None
       /\ Tx[t].kind = "Receive" => [id \in Tx[t].ids |-> Tx[t].did] # None
       /\ Tx[t].kind = "Fee" =>
            Tx[t].rate # None /\ [rate |-> Tx[t].rate, workingHeight |-> Tx[t].at] # None
  /\ \A S \in SUBSET NamedIDs :
       None \notin [S -> Nat] /\ None \notin [S -> [did : NamedDIDs, height : Nat]]

Hash == DOMAIN Tx
Key == Listener \X Hash

VARIABLES
  \* header store: headers, the tip, the last header put at a height
  stored, tip, index,
  \* data store: transactions with their height, their hashes by height, fork
  \* blocks, outpoints with their address, queue items and their index, the rest
  txs, heightTxs, fork, ops, que, queIdx, ids, watchDB,
  \* in memory: listeners, the filters of addresses and types, Arbiters' and
  \* CustomID's maps
  listeners, watch, mem,
  \* the chain database's operation, its batch, the handlers
  job, batch, hand,
  \* history: notifications made; blocks put before the ones below them; what
  \* committed batches said; what went wrong in ways the code allows
  told, late, log, wrong, faults

chain == <<stored, tip, index>>
data  == <<txs, heightTxs, fork, ops, que, queIdx, ids, watchDB>>
past  == <<told, late, log, wrong>>
vars  == <<chain, data, listeners, watch, mem, job, batch, hand, past, faults>>

NoBatch == [txs |-> <<>>, ops |-> <<>>, que |-> <<>>, ids |-> <<>>]
Idle    == [op |-> "idle"]
Resting == [pc |-> "idle"]
FreshMem == Over(ArbMem, CidMem)

Init ==
  /\ stored = {Genesis} /\ tip = Genesis /\ index = Row(0, Genesis)
  /\ txs = <<>> /\ fork = <<>> /\ ops = <<>> /\ que = <<>> /\ queIdx = {}
  /\ heightTxs = [n \in 0 .. MaxHeight |-> <<>>] /\ ids = <<>>
  /\ watchDB = {} /\ watch = {} /\ listeners = {} /\ mem = FreshMem
  /\ job = Idle /\ batch = NoBatch /\ hand = [h \in Handler |-> Resting]
  /\ told = {} /\ late = {} /\ wrong = {} /\ faults = 0
  /\ log = [arb |-> <<>>, reserved |-> <<>>, received |-> <<>>, fee |-> <<>>,
            deposits |-> {}]

-----------------------------------------------------------------------------
(* RegisterTransactionListener.  A filter entry is an address or, for a      *)
(* listener without one, a transaction type; it is cached and stored.        *)
WatchOf(l) == IF l.addr = None THEN l.type ELSE l.addr

PutWatch(e) ==
  /\ watch' = watch \cup {e}
  /\ watchDB' = IF e \in watch THEN watchDB ELSE watchDB \cup {e}

Register(l) ==
  /\ l \notin listeners
  /\ listeners' = listeners \cup {l}
  /\ PutWatch(WatchOf(l))
  /\ UNCHANGED <<chain, txs, heightTxs, fork, ops, que, queIdx, ids, mem, job,
                 batch, hand, past, faults>>

(* "listeners must be registered before call Start() method"                 *)
Started == listeners = Listener

-----------------------------------------------------------------------------
(* putTx: what the transaction changes in the side chain data.               *)
PutIds(w, t, n) ==
  LET tx == Tx[t] IN
  CASE tx.kind = "RevertToPOW"  -> BatchPutRevertTransaction(ids, w, tx.at, "POW")
    [] tx.kind = "RevertToDPOS" -> BatchPutRevertTransaction(ids, w, n + tx.interval, "DPOS")
    [] tx.kind = "NextTurn"     -> BatchPut(ids, w, tx.at, tx.set)
    [] tx.kind = "Deposit"      -> BatchPutRetSideChainDepositCoinTx(w, tx.deposits)
    [] tx.kind = "Reserve"      -> BatchPutControversialReservedCustomIDs(w, t, tx.ids)
    [] tx.kind = "Receive"      -> BatchPutControversialReceivedCustomIDs(w, t, tx.ids, tx.did)
    [] tx.kind = "Fee"          -> BatchPutControversialChangeCustomIDFee(w, t, tx.rate, tx.at)
    [] tx.kind = "Result"       -> BatchPutCustomIDProposalResults(ids, w, tx.results, n)
    [] OTHER -> w

(* The filters: addresses and transaction types.                             *)
ContainAddr(a) == a \in watch
ContainTxType(type) == type \in watch

OutsHit(t) == {i \in DOMAIN Tx[t].outs : ContainAddr(Tx[t].outs[i])}

(* The outpoints are looked up in the database, not in the batch.            *)
HaveOp(op) == op \in DOMAIN ops

(* Outputs to watched addresses, and addresses whose outputs are spent.      *)
HitsPaid(t) == {Tx[t].outs[i] : i \in OutsHit(t)}
Hits(t) == {Tx[t].outs[i] : i \in OutsHit(t)}
             \cup {ops[op] : op \in {o \in Tx[t].ins : HaveOp(o)}}
Wanted(t) == Hits(t) # {} \/ ContainTxType(Tx[t].kind)
Matching(t) == {l \in listeners : /\ l.type = Tx[t].kind
                                  /\ l.addr # None => l.addr \in Hits(t)}

(* Where the chain database goes when it has put the transactions of a       *)
(* block: on a reorganisation first down the old branch, then up the new     *)
(* one, whose last block has been put before (chaindb.go:38).                *)
PutJob(b, list, j) == [op |-> "put", at |-> b, list |-> list, left |-> list,
                       for |-> j.for, old |-> j.old]
Done(j) == [op |-> "done", for |-> j.for]

(* GetForkTxs of a block that was never filed is an error, which ends the    *)
(* reorganisation where it is.                                               *)
GetForkTxs(b) == IF b \in DOMAIN fork THEN fork[b] ELSE Error
Connect(b, j) ==
  IF b = tip \/ GetForkTxs(b) = Error THEN Done(j) ELSE PutJob(b, GetForkTxs(b), j)
AfterPut(j) ==
  IF j.at # tip THEN Connect(ChildToward(j.at, tip), j)
  ELSE IF j.old = Prev[tip] THEN Done(j)
  ELSE [op |-> "detach", at |-> j.old, for |-> j.for, old |-> j.old]

Working == job.op = "put"

PutTx ==
  /\ Working /\ job.left # <<>>
  /\ LET t == Head(job.left)
         n == Height[job.at]
         w == PutIds([b |-> batch.ids, mem |-> mem, err |-> FALSE], t, n)
     IN /\ mem' = w.mem
        /\ \/ /\ w.err
              /\ job' = Done(job)
              /\ batch' = NoBatch
              /\ wrong' = wrong \cup {"lost"}
           \/ /\ ~w.err
              /\ job' = [job EXCEPT !.left = Tail(@)]
              /\ batch' = IF Wanted(t)
                 THEN [txs |-> Over(Row(t, n), batch.txs),
                       ops |-> Over([op \in {<<t, i>> : i \in OutsHit(t)} |->
                                       Tx[t].outs[op[2]]], batch.ops),
                       que |-> Over([k \in Matching(t) \X {t} |-> n], batch.que),
                       ids |-> w.b]
                 ELSE [batch EXCEPT !.ids = w.b]
              /\ UNCHANGED wrong
  /\ UNCHANGED <<chain, data, listeners, watch, hand, told, late, log, faults>>

(* A write to leveldb: keys mapped to None are deleted.                      *)
Write(db, b) ==
  LET all == Over(b, db) IN [k \in {x \in DOMAIN all : all[x] # None} |-> all[k]]

QueItem(n, last) == [height |-> n, last |-> last]

(* que.Put: the items, and an index entry for each.                          *)
PutItems(items) ==
  /\ que' = Over(items, que)
  /\ queIdx' = queIdx \cup {<<items[k].height, k>> : k \in DOMAIN items}

(* History: what a committed transaction says, last word first; and whether  *)
(* the batch replaces a set of arbiters others may refer to.                 *)
SaysResult(l, r, n) ==
  LET p == Tx[r.proposal] IN
  CASE r.approved /\ r.about = "Reserve" ->
         [l EXCEPT !.reserved = Over([id \in p.ids |-> n], @)]
    [] r.approved /\ r.about = "Receive" ->
         [l EXCEPT !.received =
            Over([id \in p.ids |-> [did |-> p.did, height |-> n]], @)]
    [] r.approved /\ r.about = "Fee" ->
         [l EXCEPT !.fee = Over(Row(p.at, p.rate),
                                Without(@, {g \in DOMAIN @ : g >= p.at}))]
    [] OTHER -> l
Says(l, t, n) ==
  LET tx == Tx[t] IN
  CASE tx.kind = "NextTurn" ->
         [l EXCEPT !.arb = Over(Row(tx.at, tx.set),
                                Without(@, {q \in DOMAIN @ : q >= tx.at}))]
    [] tx.kind = "Deposit" -> [l EXCEPT !.deposits = @ \cup tx.deposits]
    [] tx.kind = "Result" ->
         FoldLeft(LAMBDA a, r : SaysResult(a, r, n), l, tx.results)
    [] OTHER -> l
Overwrites ==
  \E key \in DOMAIN batch.ids \cap DOMAIN ids :
     key[1] = "arbdata" /\ ~ids[key].ref

(* dataBatch.Commit writes the batch.  The transactions were put through a   *)
(* txsBatch that is gone: its Commit, which writes the hashes by height, is  *)
(* never called.                                                             *)
CommitTxs ==
  /\ Working /\ job.left = <<>>
  /\ txs' = Over(batch.txs, txs) /\ ops' = Over(batch.ops, ops)
  /\ PutItems([k \in DOMAIN batch.que |-> QueItem(batch.que[k], "never")])
  /\ ids' = Write(ids, batch.ids)
  /\ job' = AfterPut(job) /\ batch' = NoBatch
  /\ log' = FoldLeft(LAMBDA l, t : Says(l, t, Height[job.at]), log, job.list)
  /\ wrong' = IF Overwrites THEN wrong \cup {"overwritten"} ELSE wrong
  /\ UNCHANGED <<chain, heightTxs, fork, watchDB, listeners, watch, mem, hand,
                 told, late, faults>>

(* The write fails: PutTxs returns the error and Rollback drops the batch.   *)
CommitFails ==
  /\ Working /\ job.left = <<>> /\ faults < MaxFaults
  /\ job' = Done(job) /\ batch' = NoBatch /\ faults' = faults + 1
  /\ wrong' = IF DOMAIN batch.ids # {} THEN wrong \cup {"lost"} ELSE wrong
  /\ UNCHANGED <<chain, data, listeners, watch, mem, hand, told, late, log>>

-----------------------------------------------------------------------------
(* The chain database.  Every block has the same work: the tip is the        *)
(* highest block, the first one of a height.                                 *)

Reorg(b) == Height[b] > Height[tip] /\ Prev[b] # tip
Reorganising == job.op \in {"put", "detach"} /\ job.old # Prev[tip]

(* A handler that has read the queue before a reorganisation, or in it.      *)
Outdate(hs) == [h \in Handler |-> IF hs[h].pc \in {"scan", "put"}
                                  THEN [hs[h] EXCEPT !.stale = TRUE] ELSE hs[h]]

(* headers.Put: the header and the index of its height, on a fork too.       *)
PutHeaderBelow(b) ==
  stored' = stored \cup {b} /\ index' = Over(Row(Height[Prev[b]], b), index)
PutHeader(b) ==
  stored' = stored \cup {b} /\ index' = Over(Row(Height[b], b), index)

PutForkTxs(b, list) == fork' = Over(Row(b, list), fork)

(* BlockChain.CommitBlock up to the transactions.  Those of a fork block are *)
(* filed by its hash.                                                        *)
CommitBlock(b, h) ==
  /\ Started /\ job = Idle /\ hand[h] = Resting
  /\ b \notin stored /\ Prev[b] \in stored /\ Cardinality(stored) < MaxBlocks
  /\ PutHeader(b)
  /\ LET hs == [hand EXCEPT ![h] = [pc |-> "wait", height |-> Height[b]]] IN
     \/ /\ Height[b] > Height[tip]
        /\ tip' = b
        /\ job' = PutJob(b, BlockTxs[b], [for |-> h, old |-> tip])
        /\ hand' = IF Reorg(b) THEN Outdate(hs) ELSE hs
        /\ late' = IF Reorg(b) THEN late \cup {b} ELSE late
        /\ UNCHANGED fork
     \/ /\ Height[b] <= Height[tip]
        /\ PutForkTxs(b, BlockTxs[b])
        /\ job' = Done([for |-> h]) /\ hand' = hs
        /\ UNCHANGED <<tip, late>>
  /\ UNCHANGED <<txs, heightTxs, ops, que, queIdx, ids, watchDB, listeners, watch,
                 mem, batch, told, log, wrong, faults>>

(* DelTxs: DelAll of the height and its commit.  The transactions are found  *)
(* by their height, the queue items by the queue's own index.  As CommitTxs  *)
(* leaves heightTxs empty there never is one, and no error of DeleteCustomID. *)
GetTxs(n) == heightTxs[n]
DelAllQue(n) ==
  /\ que' = Without(que, {e[2] : e \in {x \in queIdx : x[1] = n}})
  /\ queIdx' = {e \in queIdx : e[1] # n}
DelAll(n) ==
  LET gone == {GetTxs(n)[i] : i \in DOMAIN GetTxs(n)}
      w == FoldLeft(LAMBDA acc, t : DeleteCustomID(ids, acc, t, Tx[t]),
                    [b |-> <<>>, mem |-> mem, err |-> FALSE], GetTxs(n))
  IN /\ txs' = Without(txs, gone)
     /\ ops' = Without(ops, {op \in DOMAIN ops : op[1] \in gone})
     /\ heightTxs' = [heightTxs EXCEPT ![n] = <<>>]
     /\ DelAllQue(n)
     /\ ids' = Write(ids, w.b) /\ mem' = w.mem

(* ProcessReorganize, one block of the old branch: what GetTxs finds becomes *)
(* a fork block, then DelTxs.  Below the last one the new branch begins.     *)
Detach ==
  /\ job.op = "detach"
  /\ LET n == Height[job.at]
         below == Prev[job.at]
     IN /\ PutForkTxs(job.at, GetTxs(n))
        /\ DelAll(n)
        /\ job' = IF below = Ancestor(job.old, tip)
                  THEN Connect(ChildToward(below, tip), job)
                  ELSE [job EXCEPT !.at = below]
  /\ hand' = Outdate(hand)
  /\ UNCHANGED <<chain, watchDB, listeners, watch, batch, past, faults>>

(* The sync manager answers: the handler goes on in onBlock, whether the     *)
(* block was committed or not.                                               *)
BlockProcessed ==
  /\ job.op = "done"
  /\ hand' = [hand EXCEPT ![job.for].pc = "committed"]
  /\ job' = Idle
  /\ UNCHANGED <<chain, data, listeners, watch, mem, batch, past, faults>>

-----------------------------------------------------------------------------
(* BlockCommitted reads the whole queue and goes through it.                 *)

Snapshot == {[key |-> k, height |-> que[k].height, last |-> que[k].last] :
               k \in DOMAIN que}

Todo(h) == IF hand[h].pc = "scan" THEN hand[h].todo ELSE {}

GetAll(h) ==
  /\ hand[h].pc = "committed"
  /\ hand' = [hand EXCEPT ![h] = [pc |-> "scan", height |-> @.height,
                                  todo |-> Snapshot, stale |-> Reorganising]]
  /\ UNCHANGED <<chain, data, listeners, watch, mem, job, batch, past, faults>>

(* que.Del: the value is taken for the height.  That of an item which has    *)
(* been notified ends with the time, its index entry is not found.           *)
Del(k) ==
  /\ que' = Without(que, {k})
  /\ queIdx' = IF k \in DOMAIN que /\ que[k].last = "never"
               THEN queIdx \ {<<que[k].height, k>>} ELSE queIdx

getConfirmations(t) ==
  IF Tx[t].kind = "CoinBase" THEN CoinbaseConfirmations ELSE DefaultConfirmations

(* Whether the listener is called yet, by the height the handler was told.   *)
RipeCountsItself(l, t, committed, height) ==
  l.confirmed => committed >= height /\ committed - height + 1 >= getConfirmations(t)
Ripe(l, t, committed, height) ==
  LET deep == IF committed > height THEN committed - height ELSE 0
  IN l.confirmed => deep >= getConfirmations(t)

(* What BlockCommitted looks up for an item.                                 *)
HeaderAt(n) == IF n \in DOMAIN index THEN index[n] ELSE None
HaveTx(t) == t \in DOMAIN txs

(* One item, up to and with notifyTransaction: skipped when it was notified  *)
(* a short while ago, when its header or transaction is gone, or when its    *)
(* listener waits for more confirmations; removed while the service is still *)
(* syncing and the listener does not want to hear then; notified otherwise.  *)
NotifyTx(h, item, current) ==
  LET l == item.key[1]
      t == item.key[2]
      ripe == Ripe(l, t, hand[h].height, item.height)
      known == /\ item.last # "recent" /\ HeaderAt(item.height) # None
               /\ HaveTx(t) /\ l \in listeners
      rest == [hand[h] EXCEPT !.todo = @ \ {item}]
  IN /\ item \in Todo(h)
     /\ \/ /\ ~known \/ ~ripe
           /\ hand' = [hand EXCEPT ![h] = rest]
           /\ UNCHANGED <<que, queIdx, told>>
        \/ /\ known /\ ripe /\ ~current /\ ~l.syncing
           /\ Del(item.key)
           /\ hand' = [hand EXCEPT ![h] = rest]
           /\ UNCHANGED told
        \/ /\ known /\ ripe /\ (current \/ l.syncing)
           /\ hand' = [hand EXCEPT ![h] =
                         [pc |-> "put", height |-> @.height, todo |-> rest.todo,
                          stale |-> @.stale, item |-> item,
                          proof |-> HeaderAt(item.height)]]
           /\ told' = IF l.confirmed THEN told ELSE told \cup {item.key}
           /\ UNCHANGED <<que, queIdx>>
     /\ UNCHANGED <<chain, txs, heightTxs, fork, ops, ids, watchDB, listeners,
                    watch, mem, job, batch, late, log, wrong, faults>>

(* The item goes back with the time of the notification, then the listener   *)
(* is called (for the second time if it does not wait for confirmations).    *)
PutBackNoIndex(h) ==
  /\ hand[h].pc = "put"
  /\ LET item == hand[h].item IN
     /\ que' = Over(Row(item.key, QueItem(item.height, "recent")), que)
     /\ told' = told \cup {item.key}
  /\ wrong' = IF hand[h].stale THEN wrong \cup {"revived"} ELSE wrong
  /\ hand' = [hand EXCEPT ![h] = [pc |-> "scan", height |-> @.height,
                                  todo |-> @.todo, stale |-> @.stale]]
  /\ UNCHANGED <<chain, txs, heightTxs, fork, ops, queIdx, ids, watchDB, listeners,
                 watch, mem, job, batch, late, log, faults>>
PutBack(h) ==
  /\ hand[h].pc = "put"
  /\ LET item == hand[h].item IN
     /\ PutItems([k \in {item.key} |-> QueItem(item.height, "recent")])
     /\ told' = told \cup {item.key}
  /\ wrong' = IF hand[h].stale THEN wrong \cup {"revived"} ELSE wrong
  /\ hand' = [hand EXCEPT ![h] = [pc |-> "scan", height |-> @.height,
                                  todo |-> @.todo, stale |-> @.stale]]
  /\ UNCHANGED <<chain, txs, heightTxs, fork, ops, ids, watchDB, listeners, watch,
                 mem, job, batch, late, log, faults>>

EndNotify(h) ==
  /\ hand[h].pc = "scan" /\ hand[h].todo = {}
  /\ hand' = [hand EXCEPT ![h] = Resting]
  /\ UNCHANGED <<chain, data, listeners, watch, mem, job, batch, past, faults>>

-----------------------------------------------------------------------------
(* The application, the clock, the end of the process.                       *)

SubmitTransactionReceipt(k) ==
  /\ k \in told
  /\ Del(k)
  /\ told' = told \ {k}
  /\ UNCHANGED <<chain, txs, heightTxs, fork, ops, ids, watchDB, listeners, watch,
                 mem, job, batch, hand, late, log, wrong, faults>>

(* notifyTimeout is over: the item may be notified again.                    *)
NotifyTimeout(k) ==
  /\ k \in DOMAIN que /\ que[k].last = "recent"
  /\ que' = [que EXCEPT ![k].last = "old"]
  /\ UNCHANGED <<chain, txs, heightTxs, fork, ops, queIdx, ids, watchDB, listeners,
                 watch, mem, job, batch, hand, past, faults>>

(* The queries fill the maps they find empty.                                *)
Query ==
  /\ mem' = FillPos(ids, FillRevertPos(ids,
               FillReserved(ids, FillReceived(ids, FillFeePos(ids, mem)))))
  /\ mem' # mem
  /\ UNCHANGED <<chain, data, listeners, watch, job, batch, hand, past, faults>>

(* The process ends and starts again: the stores are as they were written,   *)
(* the filters are read from them, the listeners register again.             *)
LoadFilters == watch' = watchDB

Restart ==
  /\ faults < MaxFaults /\ faults' = faults + 1
  /\ listeners' = {} /\ LoadFilters /\ mem' = FreshMem
  /\ job' = Idle /\ batch' = NoBatch /\ hand' = [h \in Handler |-> Resting]
  /\ UNCHANGED <<chain, data, past>>

Next ==
  \/ \E l \in Listener : Register(l)
  \/ \E b \in Block \ {Genesis}, h \in Handler : CommitBlock(b, h)
  \/ PutTx \/ CommitTxs \/ CommitFails \/ Detach \/ BlockProcessed
  \/ \E h \in Handler : GetAll(h) \/ PutBack(h) \/ EndNotify(h)
  \/ \E h \in Handler, current \in BOOLEAN :
        \E item \in Todo(h) : NotifyTx(h, item, current)
  \/ \E k \in Key : SubmitTransactionReceipt(k) \/ NotifyTimeout(k)
  \/ Query \/ Restart

Spec == Init /\ [][Next]_vars
-----------------------------------------------------------------------------
(* Properties.                                                               *)

Settled == job = Idle
Quiet == DOMAIN batch.ids = {}

(* No crash, no failed write, no block given up for an error in its data.    *)
Orderly == faults = 0 /\ "lost" \notin wrong

InBlock(t, b) == \E i \in DOMAIN BlockTxs[b] : BlockTxs[b][i] = t

(* Every item of the notification queue is in the index under its own        *)
(* height, whatever put it there, so that DelTxs of that height removes it   *)
(* (quebatch.go: DelAll goes by the index alone).                            *)
QueueIndexed == \A k \in DOMAIN que : <<que[k].height, k>> \in queIdx

(* FlagNotifyConfirmed: "this transaction should be callback after reach the *)
(* confirmed height".  A listener with that flag is called for a transaction *)
(* of the main chain with enough blocks above it, unless the chain was being *)
(* reorganised when the queue was read or has been since; and as long as no  *)
(* handler has put an item back that it had read before a reorganisation, no *)
(* block was given up half way and the process has not crashed.              *)
NotifiedConfirmed ==
  \A h \in Handler :
    (/\ hand[h].pc = "put" /\ hand[h].item.key[1].confirmed
     /\ ~hand[h].stale /\ "revived" \notin wrong /\ Orderly) =>
      LET item == hand[h].item
          t == item.key[2]
      IN \E b \in Branch[tip] :
           /\ Height[b] = item.height /\ InBlock(t, b)
           /\ Height[tip] - item.height >= getConfirmations(t)

(* The proof handed to a listener is of the block that has the transaction   *)
(* (interface.go: "the merkle tree proof to verify it"), as long as the      *)
(* store has no header of another branch at its height: the index by height  *)
(* has the last header put, whatever branch it is on.                        *)
ProofVerifies ==
  \A h \in Handler :
    (/\ hand[h].pc = "put" /\ ~hand[h].stale /\ "revived" \notin wrong /\ Orderly
     /\ \A b \in stored : Height[b] = hand[h].item.height => b \in Branch[tip]) =>
      InBlock(hand[h].item.key[2], hand[h].proof)

(* "It is important to put transactions by order, so we can process UTXOs    *)
(* STXOs correctly": a transaction of the main chain that spends a watched   *)
(* output of an earlier block of it is in the store, when it came in a block *)
(* that did not cause a reorganisation; those that a reorganisation connects *)
(* below such a block included.  The genesis block is never put.             *)
SpendsWatched(t, s) ==
  \E o \in DOMAIN Tx[s].outs : Tx[s].outs[o] \in watchDB /\ <<s, o>> \in Tx[t].ins
SpendsFollowed ==
  Settled /\ Orderly =>
    \A b \in Branch[tip] \ late, c \in Branch[tip] \ {Genesis} :
      Height[c] < Height[b] =>
        \A t, s \in Hash :
          InBlock(t, b) /\ InBlock(s, c) /\ SpendsWatched(t, s) => t \in DOMAIN txs

(* The lists of positions are in ascending order, on disk and in memory: the *)
(* searches stop at the first one that fits.                                 *)
Ascending(list, At(_)) == \A i, j \in DOMAIN list : i < j => At(list[i]) < At(list[j])
PositionsSorted ==
  LET itself(p) == p
      working(r) == r.workingHeight
  IN /\ Ascending(getCurrentPositions(ids), itself) /\ Ascending(mem.pos, itself)
     /\ Ascending(ListOf(ids, <<"cidfps">>), itself) /\ Ascending(mem.feePos, itself)
     /\ Ascending(getCurrentRevertPositions(ids), working)
     /\ Ascending(mem.revertPos, working)

(* The positions on disk are those of committed batches: what a batch that   *)
(* was given up has left in posCache does not get there with the next one.   *)
PositionsCommitted ==
  {getCurrentPositions(ids)[i] : i \in DOMAIN getCurrentPositions(ids)}
    = DOMAIN log.arb

(* GetArbiters answers with the set that was put last for the height, and    *)
(* GetNextArbiters with the last one of all, across restarts and rolled back *)
(* positions, as long as no batch was given up and no height that has a set  *)
(* in full was written again; GetConsensusAlgorithmByHeight answers from     *)
(* memory what the database says.                                            *)
Top(S) == CHOOSE p \in S : \A q \in S : q <= p
ArbitersAt(n) ==
  LET all == DOMAIN log.arb
      below == {p \in all : p < n}
  IN IF all = {} \/ (all # {} /\ Top(all) + ArbitersCount < n) THEN Error
     ELSE IF below = {} THEN OriginArbiters ELSE log.arb[Top(below)]
ModeAt(n) ==
  LET info == getCurrentRevertPositions(ids)
      passed == {i \in DOMAIN info : info[i].workingHeight <= n}
  IN IF passed = {} THEN "DPOS" ELSE info[Top(passed)].mode
ArbitersAnswer ==
  (Quiet /\ wrong \cap {"lost", "overwritten"} = {}) =>
    /\ \A n \in 0 .. MaxHeight + ArbitersCount + 2 :
         /\ GetByHeight(ids, mem, n) = ArbitersAt(n)
         /\ GetConsensusAlgorithmByHeight(ids, mem, n) = ModeAt(n)
    /\ DOMAIN log.arb # {} =>
         LET last == Top(DOMAIN log.arb)
         IN GetNext(ids) = [workingHeight |-> last, arbiters |-> log.arb[last]]

(* Custom IDs and fee: what results of committed blocks said, once there     *)
(* have been DefaultConfirmations blocks in one stretch of DPOS since.       *)
Confirmed(current, proposal, info) ==
  \E i \in 0 .. Len(info) :
    LET from == IF i = 0 THEN 0 ELSE info[i].workingHeight
        mode == IF i = 0 THEN "DPOS" ELSE info[i].mode
        last == IF i < Len(info) /\ info[i + 1].workingHeight < current
                THEN info[i + 1].workingHeight ELSE current
    IN /\ mode = "DPOS"
       /\ last - (IF proposal > from THEN proposal ELSE from) >= DefaultConfirmations
FeeAt(n) ==
  LET below == {p \in DOMAIN log.fee : p < n} IN
  IF below = {} THEN Error
  ELSE log.fee[Top(below)]
CustomIDsAnswer ==
  (Quiet /\ "lost" \notin wrong) =>
    /\ \A t \in Hash : Tx[t].kind = "Deposit" => \A d \in Tx[t].deposits :
         HaveRetSideChainDepositCoinTx(ids, d) = (d \in log.deposits)
    /\ \A n \in 0 .. MaxHeight + 3 :
      LET info == GetRevertInfo(ids, mem) IN
      /\ GetReservedCustomIDs(ids, mem, n, info) =
           {id \in DOMAIN log.reserved : Confirmed(n, log.reserved[id], info)}
      /\ GetReceivedCustomIDs(ids, mem, n, info) =
           [id \in {i \in DOMAIN log.received :
                      Confirmed(n, log.received[i].height, info)}
              |-> log.received[id].did]
      /\ GetCustomIDFeeRate(ids, mem, n) = FeeAt(n)
=============================================================================
