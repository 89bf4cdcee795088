-------------------------------- MODULE Wallet --------------------------------
(* The SPV wallet: the daemon (spvwallet.go) that keeps the coins of the     *)
(* wallet's addresses in sqlite (wallet/store/sqlite), and the command line  *)
(* client (wallet/client), a process of its own on the same database, which  *)
(* adds addresses and makes transactions out of the coins it finds.          *)
(*                                                                           *)
(* The chain database works on one block at a time and calls PutTxs, DelTxs  *)
(* and PutForkTxs.  A batch is an sqlite transaction: it is committed or     *)
(* dropped as a whole, and reads made meanwhile do not see it.               *)
(*                                                                           *)
(* A definition without a comment that stands just before another one is a   *)
(* plausible mistake in it; the specification does not use it.               *)
EXTENDS BlockTree, Tables, FiniteSetsExt, SequencesExt

CONSTANTS BlockTxs,        \* the transactions of a block, in order
          Tx,              \* by hash: [coinbase, ins, outs], an output is
                           \* [addr, value, lock]
          Addr, MainAddr,  \* addresses the client may add; the first one
          Payment,         \* what is paid: [from, amount], fee included
          CoinbaseLock,    \* blocks a coinbase output is locked for
          None,            \* nil
          MaxBlocks,       \* bound: blocks stored, the genesis block included
          MaxNotices,      \* bound: blocks answered and not yet notified
          MaxPayments,     \* bound: transactions the client makes
          MaxFaults        \* bound: crashes and failed writes

ASSUME WalletAssumption ==
  /\ MainAddr \in Addr /\ CoinbaseLock \in Nat
  /\ \A p \in Payment : p.amount \in Nat \ {0}
  /\ \A b \in Block : BlockTxs[b] \in Seq(DOMAIN Tx)
  /\ \A t \in DOMAIN Tx :
       /\ IsFiniteSet(DOMAIN Tx[t].outs)
       /\ \A i \in DOMAIN Tx[t].outs :
            Tx[t].outs[i].value \in Nat /\ Tx[t].outs[i].lock \in Nat

(* A transaction is on a branch once: what full nodes see to, and this code  *)
(* takes for granted when it uses the hash as a key.                         *)
ASSUME OnceAssumption ==
  \A top \in Block : \A b, c \in Branch[top] :
    \A i \in DOMAIN BlockTxs[b], j \in DOMAIN BlockTxs[c] :
      BlockTxs[b][i] = BlockTxs[c][j] => b = c /\ i = j

Hash == DOMAIN Tx
OutPoint == UNION {{<<t, i>> : i \in DOMAIN Tx[t].outs} : t \in Hash}
Output(op) == Tx[op[1]].outs[op[2]]

VARIABLES
  stored, tip,                            \* headers
  addrs, utxos, stxos, txs, fork, height, \* tables of wallet.db
  filter, loading,                        \* address filter; addresses that
                                          \* loadAddrFilter has still to add
  job, batch,                             \* the chain database's operation
  notices,                                \* blocks answered, for BlockCommitted
  client,
  made, known, seen, wrong, faults        \* history: transactions made;
                                          \* addresses loaded; those when a
                                          \* transaction was put; what went
                                          \* wrong in ways the code allows
chain == <<stored, tip>>
coins == <<utxos, stxos, txs>>
past  == <<made, known, seen, wrong>>
vars  == <<chain, addrs, coins, fork, height, filter, loading, job, batch,
           notices, client, past, faults>>

Idle == [pc |-> "idle"]
NoBatch == [utxos |-> <<>>, stxos |-> <<>>, txs |-> <<>>]

Init ==
  /\ stored = {Genesis} /\ tip = Genesis
  /\ addrs = {MainAddr} /\ utxos = <<>> /\ stxos = <<>> /\ txs = <<>>
  /\ fork = <<>> /\ height = 0 /\ filter = None /\ loading = None
  /\ job = Idle /\ batch = NoBatch /\ notices = {} /\ client = Idle
  /\ made = {} /\ known = {} /\ seen = <<>> /\ wrong = {} /\ faults = 0

-----------------------------------------------------------------------------
(* The address filter.  loadAddrFilter puts a new, empty filter in place and *)
(* fills it; other goroutines read it meanwhile.                             *)

GetAllAddrs == addrs
StartLoad == loading' = GetAllAddrs /\ filter' = {}

(* The first use of the filter loads it.                                     *)
getAddrFilter ==
  /\ filter = None /\ StartLoad
  /\ UNCHANGED <<chain, addrs, coins, fork, height, job, batch, notices, client,
                 past, faults>>

AddAddr(a) == filter' = filter \cup {a}

loadAddrFilter(a) ==
  /\ loading # None /\ a \in loading
  /\ AddAddr(a) /\ known' = known \cup {a}
  /\ loading' = IF loading = {a} THEN None ELSE loading \ {a}
  /\ UNCHANGED <<chain, addrs, coins, fork, height, job, batch, notices, client,
                 made, seen, wrong, faults>>

(* NewSubAccount, AddMultiSignAccount: the address is stored, then the       *)
(* daemon is told; whether it heard is not looked at.                        *)
AddAddress(a) ==
  /\ client = Idle /\ a \notin addrs
  /\ addrs' = addrs \cup {a} /\ client' = [pc |-> "notify"]
  /\ UNCHANGED <<chain, coins, fork, height, filter, loading, job, batch, notices,
                 past, faults>>

notifyNewAddress ==
  /\ client.pc = "notify" /\ client' = Idle
  /\ \/ loading = None /\ StartLoad
     \/ UNCHANGED <<filter, loading>>
  /\ UNCHANGED <<chain, addrs, coins, fork, height, job, batch, notices, past,
                 faults>>

-----------------------------------------------------------------------------
(* putTx.  Coins spent are looked up in the database; a coin is kept when it *)
(* has been spent, only a record of the spending is added.                   *)

GetUTXO(op) == IF op \in DOMAIN utxos THEN utxos[op] ELSE None
ContainAddr(a) == a \in filter
Spends(t) == {op \in Tx[t].ins : GetUTXO(op) # None}
Paid(t) == {i \in DOMAIN Tx[t].outs : ContainAddr(Tx[t].outs[i].addr)}

UnlockedUTXO(t, i, n) ==
  LET out == Tx[t].outs[i] IN
  [addr |-> out.addr, value |-> out.value, at |-> n, lock |-> out.lock]
NewUTXO(t, i, n) ==
  LET out == Tx[t].outs[i] IN
  [addr |-> out.addr, value |-> out.value, at |-> n,
   lock |-> IF Tx[t].coinbase THEN n + CoinbaseLock ELSE out.lock]
NewSTXO(op, n, t) == [utxo |-> GetUTXO(op), spendHeight |-> n, spendTx |-> t]

(* nil is neither a coin nor a set of addresses.                             *)
ASSUME NoneAssumption ==
  /\ \A S \in SUBSET Addr : S # None
  /\ \A t \in Hash, b \in Block : \A i \in DOMAIN Tx[t].outs :
       NewUTXO(t, i, Height[b]) # None

(* The batch's puts of coins and of spendings.                               *)
PutUTXOs(table, t, n, paid) ==
  Over([op \in {<<t, i>> : i \in paid} |-> NewUTXO(t, op[2], n)], table)
PutSTXOs(table, t, n, spends) ==
  Over([op \in spends |-> NewSTXO(op, n, t)], table)

SavedIfPaid(b, t, n, spends, paid) ==
  [utxos |-> PutUTXOs(b.utxos, t, n, paid),
   stxos |-> PutSTXOs(b.stxos, t, n, spends),
   txs   |-> IF paid = {} THEN b.txs ELSE Over(Row(t, n), b.txs)]
Saved(b, t, n, spends, paid) ==
  [utxos |-> PutUTXOs(b.utxos, t, n, paid),
   stxos |-> PutSTXOs(b.stxos, t, n, spends),
   txs   |-> IF spends = {} /\ paid = {} THEN b.txs ELSE Over(Row(t, n), b.txs)]

Putting == job.pc = "put"

(* When a spending cannot be written putTx returns no error: the rest of the *)
(* transaction is left out and the batch goes on.                            *)
PutTx ==
  /\ Putting /\ job.left # <<>> /\ filter # None
  /\ LET t == Head(job.left)
         n == Height[tip]
         racing == IF loading # None THEN {"loading"} ELSE {}
     IN /\ \/ /\ batch' = Saved(batch, t, n, Spends(t), Paid(t))
              /\ wrong' = wrong \cup racing /\ UNCHANGED faults
           \/ /\ faults < MaxFaults /\ faults' = faults + 1
              /\ wrong' = wrong \cup racing \cup {"cut short"}
              /\ \E done \in SUBSET Spends(t) :
                   /\ done # Spends(t)
                   /\ batch' = [batch EXCEPT !.stxos = PutSTXOs(@, t, n, done)]
        /\ seen' = Over(Row(t, known), seen)
  /\ job' = [job EXCEPT !.left = Tail(@)]
  /\ UNCHANGED <<chain, addrs, coins, fork, height, filter, loading, notices, client,
                 made, known>>

(* The end of the chain database's work on a block: it was connected, or a   *)
(* reorganisation begins.                                                    *)
Answer(b) == job' = Idle /\ notices' = notices \cup {b}
AfterPut == IF job.old = Prev[tip] THEN Answer(tip)
            ELSE job' = [pc |-> "detach", old |-> job.old] /\ UNCHANGED notices

Commit ==
  /\ Putting /\ job.left = <<>>
  /\ utxos' = Over(batch.utxos, utxos) /\ stxos' = Over(batch.stxos, stxos)
  /\ txs' = Over(batch.txs, txs)
  /\ batch' = NoBatch /\ AfterPut
  /\ UNCHANGED <<chain, addrs, fork, height, filter, loading, client, past, faults>>

CommitFails ==
  /\ Putting /\ job.left = <<>> /\ faults < MaxFaults
  /\ faults' = faults + 1 /\ batch' = NoBatch /\ Answer(tip)
  /\ UNCHANGED <<chain, addrs, coins, fork, height, filter, loading, client, past>>

-----------------------------------------------------------------------------
(* The chain database.  Every block has the same work.                       *)

PutForkTxs(b, list) == fork' = Over(Row(b, list), fork)
GetTxs(n) == {t \in DOMAIN txs : txs[t] = n}

CommitBlock(b) ==
  /\ job = Idle /\ Cardinality(notices) < MaxNotices
  /\ b \notin stored /\ Prev[b] \in stored /\ Cardinality(stored) < MaxBlocks
  /\ stored' = stored \cup {b}
  /\ \/ /\ Height[b] > Height[tip] /\ tip' = b
        /\ job' = [pc |-> "put", left |-> BlockTxs[b], old |-> tip]
        /\ UNCHANGED <<fork, notices>>
     \/ /\ Height[b] <= Height[tip]
        /\ PutForkTxs(b, {BlockTxs[b][i] : i \in DOMAIN BlockTxs[b]})
        /\ Answer(b) /\ UNCHANGED tip
  /\ UNCHANGED <<addrs, coins, height, filter, loading, batch, client, past, faults>>

(* ProcessReorganize: the transactions of the old tip become those of a fork *)
(* block, then DelTxs.  RollbackHeight removes the coins of the height,      *)
(* takes back what was spent there, and at last deletes from a table TXNs    *)
(* that does not exist (it is called Txs): the transaction is dropped, and   *)
(* the reorganisation ends with the error.                                   *)
DelTxs ==
  /\ job.pc = "detach"
  /\ PutForkTxs(job.old, GetTxs(Height[job.old]))
  /\ wrong' = wrong \cup {"reorganised"} /\ Answer(tip)
  /\ UNCHANGED <<chain, addrs, coins, height, filter, loading, batch, client, made,
                 known, seen, faults>>

(* A block that is known or has no parent here is answered as well.          *)
Refuse(b) ==
  /\ job = Idle /\ Cardinality(notices) < MaxNotices
  /\ b \in stored \/ Prev[b] \notin stored
  /\ Answer(b)
  /\ notices' # notices
  /\ UNCHANGED <<chain, addrs, coins, fork, height, filter, loading, batch, client,
                 past, faults>>

(* BlockCommitted, called for every block that was answered.                 *)
BlockCommitted(b, current) ==
  /\ b \in notices /\ notices' = notices \ {b}
  /\ height' = IF current THEN Height[b] ELSE height
  /\ client' = IF "dropped" \in DOMAIN client /\ height' < height
               THEN [client EXCEPT !.dropped = TRUE] ELSE client
  /\ UNCHANGED <<chain, addrs, coins, fork, filter, loading, job, batch, past,
                 faults>>

(* The daemon ends and starts again; the client is not affected.             *)
RestartStillLoading ==
  /\ faults < MaxFaults /\ faults' = faults + 1
  /\ filter' = None /\ known' = {} /\ job' = Idle /\ batch' = NoBatch /\ notices' = {}
  /\ UNCHANGED <<chain, addrs, coins, fork, height, loading, client, made, seen, wrong>>
Restart ==
  /\ faults < MaxFaults /\ faults' = faults + 1
  /\ filter' = None /\ loading' = None /\ known' = {} /\ job' = Idle
  /\ batch' = NoBatch /\ notices' = {}
  /\ UNCHANGED <<chain, addrs, coins, fork, height, client, made, seen, wrong>>

-----------------------------------------------------------------------------
(* createTransaction.  It reads the coins, then the height that decides      *)
(* which of them are locked, and in the end the height again, for the lock   *)
(* time of the transaction.                                                  *)

GetAddrAll(a) == [op \in {o \in DOMAIN utxos : utxos[o].addr = a} |-> utxos[op]]
BestHeight == height

GetAddressUTXOs(p) ==
  /\ client = Idle /\ Cardinality(made) < MaxPayments /\ p.from \in addrs
  /\ client' = [pc |-> "coins", pay |-> p, dropped |-> FALSE,
                coins |-> GetAddrAll(p.from)]
  /\ UNCHANGED <<chain, addrs, coins, fork, height, filter, loading, job, batch,
                 notices, past, faults>>

AlmostUnlocked(have) ==
  {op \in DOMAIN have : have[op].at # 0 /\ have[op].lock <= BestHeight + 1}
removeLockedUTXOs(have) ==
  {op \in DOMAIN have : have[op].at # 0 /\ have[op].lock <= BestHeight}

(* SortByValue; which of two coins of the same value comes first is open.    *)
SortByValue(have, available) ==
  {list \in SetToSeqs(available) :
     \A i, j \in DOMAIN list : i < j => have[list[i]].value <= have[list[j]].value}

(* Coins are taken, the smallest first, until the rest is covered; what is   *)
(* over goes back to the spender.                                            *)
TakeCoin(have, v, op) ==
  LET value == have[op].value IN
  IF v.rest = 0 THEN v
  ELSE [ins |-> v.ins \cup {op},
        rest |-> IF value >= v.rest THEN 0 ELSE v.rest - value,
        change |-> IF value > v.rest THEN value - v.rest ELSE 0]

TakeCoins(have, amount, list) ==
  FoldLeft(LAMBDA v, op : TakeCoin(have, v, op),
           [ins |-> {}, rest |-> amount, change |-> 0], list)
Worth(have, S) == MapThenSumSet(LAMBDA op : have[op].value, S)

SelectCoins ==
  /\ client.pc = "coins"
  /\ LET have == client.coins
         available == removeLockedUTXOs(have)
     IN \E list \in SortByValue(have, available) :
          client' = [pc |-> "selected", pay |-> client.pay, dropped |-> client.dropped,
                     taken |-> TakeCoins(have, client.pay.amount, list),
                     enough |-> Worth(have, available) >= client.pay.amount]
  /\ UNCHANGED <<chain, addrs, coins, fork, height, filter, loading, job, batch,
                 notices, past, faults>>

(* The transaction is made, or refused as there is not enough.               *)
newTransaction ==
  /\ client.pc = "selected" /\ client' = Idle
  /\ made' = made \cup {[pay |-> client.pay, ins |-> client.taken.ins,
                         made |-> client.taken.rest = 0, enough |-> client.enough,
                         change |-> client.taken.change, lockTime |-> BestHeight,
                         dropped |-> client.dropped]}
  /\ UNCHANGED <<chain, addrs, coins, fork, height, filter, loading, job, batch,
                 notices, known, seen, wrong, faults>>

Next ==
  \/ getAddrFilter \/ \E a \in Addr : loadAddrFilter(a) \/ AddAddress(a)
  \/ notifyNewAddress
  \/ PutTx \/ Commit \/ CommitFails \/ DelTxs \/ Restart
  \/ \E b \in Block \ {Genesis} : CommitBlock(b) \/ Refuse(b)
  \/ \E b \in Block, current \in BOOLEAN : BlockCommitted(b, current)
  \/ \E p \in Payment : GetAddressUTXOs(p)
  \/ SelectCoins \/ newTransaction

Spec == Init /\ [][Next]_vars
-----------------------------------------------------------------------------
(* Properties.                                                               *)

TypeOK ==
  /\ stored \subseteq Block /\ tip \in stored /\ notices \subseteq Block
  /\ DOMAIN utxos \subseteq OutPoint /\ DOMAIN stxos \subseteq OutPoint
  /\ DOMAIN txs \subseteq Hash /\ DOMAIN fork \subseteq stored
  /\ height \in {Height[b] : b \in Block}
  /\ filter # None => filter \cup known \subseteq addrs
  /\ loading # None => loading \subseteq addrs /\ filter # None
  /\ job.pc \in {"idle", "put", "detach"}
  /\ client.pc \in {"idle", "notify", "coins", "selected"}

(* The three tables agree, whatever was rolled back, lost or put again on    *)
(* another branch: the transaction of every coin and of every spending is    *)
(* there, at the height that the coin or the spending has, and a coin that   *)
(* was spent is still there; unless a failed write has cut a transaction     *)
(* short, or one was put while the filter was being loaded.                  *)
TablesAgree ==
  wrong \cap {"cut short", "loading"} = {} =>
  /\ \A op \in DOMAIN utxos : op[1] \in DOMAIN txs /\ txs[op[1]] = utxos[op].at
  /\ \A op \in DOMAIN stxos :
       LET s == stxos[op] IN
       /\ op \in DOMAIN utxos /\ op \in Tx[s.spendTx].ins
       /\ s.spendTx \in DOMAIN txs /\ txs[s.spendTx] = s.spendHeight

(* The coins are those of the main chain: every output to an address that    *)
(* was loaded, locked as its transaction says, with the spendings of later   *)
(* blocks; until the first reorganisation or fault, and unless the filter    *)
(* was being loaded when a transaction was put.                              *)
LockOf(op, b) ==
  IF Tx[op[1]].coinbase THEN Height[b] + CoinbaseLock ELSE Output(op).lock
OnChain(op, b) == /\ \E i \in DOMAIN BlockTxs[b] : BlockTxs[b][i] = op[1]
                  /\ op[2] \in DOMAIN Tx[op[1]].outs
                  /\ op[1] \in DOMAIN seen /\ Output(op).addr \in seen[op[1]]
CoinsFollowChain ==
  (job = Idle /\ wrong = {} /\ faults = 0) =>
    /\ DOMAIN utxos = {op \in OutPoint : \E b \in Branch[tip] : OnChain(op, b)}
    /\ \A b \in Branch[tip], op \in DOMAIN utxos : OnChain(op, b) =>
         /\ utxos[op] = [addr |-> Output(op).addr, value |-> Output(op).value,
                         at |-> Height[b], lock |-> LockOf(op, b)]
         /\ (op \in DOMAIN stxos) =
              (\E c \in Branch[tip] : /\ Height[c] > Height[b]
                 /\ \E i \in DOMAIN BlockTxs[c] : op \in Tx[BlockTxs[c][i]].ins)

(* A transaction the client makes spends coins of the sender worth what is   *)
(* paid and the change, none that could be left out, and none that is still  *)
(* locked at its lock time unless a block of less height was notified while  *)
(* it was made.  It is refused only if there was not enough.                 *)
TransactionsValid ==
  \A m \in made :
    LET worth(S) == Worth([op \in S |-> Output(op)], S) IN
    IF ~m.made THEN ~m.enough
    ELSE /\ worth(m.ins) = m.pay.amount + m.change
         /\ \E op \in m.ins : worth(m.ins \ {op}) < m.pay.amount
         /\ \A op \in m.ins :
              /\ Output(op).addr = m.pay.from
              /\ ~m.dropped => \E b \in stored :
                   /\ \E i \in DOMAIN BlockTxs[b] : BlockTxs[b][i] = op[1]
                   /\ LockOf(op, b) <= m.lockTime
=============================================================================
