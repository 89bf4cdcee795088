# Elastos.ELA.SPV in TLA+

A verification development for the SPV (light client) node in `src/`: TLA+
modules of its core, TLC runs on small instances, and TLAPS proofs for every
value of the constants. Paths below are relative to `src/`.

## 1. The system

An SPV node follows the proof-of-work chain by its headers, asks its peers for
blocks filtered by a bloom filter, stores the transactions it is interested in,
and tells the application about them.

| Component | Code | State | Operations |
|---|---|---|---|
| block chain | `blockchain/blockchain.go`, `difficulty.go` | none of its own; a lock | `New`, `CommitBlock`, `getCommonAncestor`, locators |
| chain database | `database/chaindb.go` over `headers.go`, `txsdb.go` | a header store and a transaction store | `CommitBlock`, `ProcessReorganize` |
| header stores | `interface/store/headers.go`, `wallet/store/headers/` (both leveldb) | headers, chain tip, a cache with the tip; the first one a height index too | `Put`, `Get`, `GetBest`, `GetByHeight` |
| sync manager | `sync/manager.go` | per-peer request queues and maps, global request maps, mempool, sync peer | one handler per message, `requestQueuedInv`, `startSync`, `Stop` |
| peer | `peer/peer.go` | block being assembled, pending responses, last getblocks | `handleMessage`, `blockHandler`, `stallHandler`, `StallClear`, `PushGetBlocksMsg` |
| SPV service | `sdk/service.go` | channels; maps of sent transactions | callbacks of a peer, `SendTransaction`, `txHandler`, `peerHandler`, `Stop` |
| interface service | `interface/spvservice.go` | listeners, address and type filters | `RegisterTransactionListener`, `PutTxs`, `DelTxs`, `PutForkTxs`, `BlockCommitted`, `SubmitTransactionReceipt`, queries of a side chain |
| its data store | `interface/store/` (`datastore`, `databatch`, `txs`, `ops`, `que`, `addrs`, `txtype`) | transactions by hash and height, outpoints, notification queue with a height index, fork transactions, addresses | batches: `Put`, `Del`, `DelAll(height)` |
| arbiter store | `interface/store/arbiters.go` | sets of arbiters by height, positions, changes of consensus; caches of them | `BatchPut`, `GetByHeight`, `GetNext`, `BatchPutRevertTransaction`, `GetConsensusAlgorithmByHeight` |
| custom ID store | `interface/store/customid.go` | proposals, approved IDs, fees, deposits; caches | `BatchPut...`, `Get...`, `BatchDelete...`, `isProposalConfirmed` |
| wallet daemon | `spvwallet.go`, `wallet/store/sqlite/` | UTXOs, STXOs, transactions, addresses, height in sqlite; an address filter | `PutTxs`, `DelTxs`, `PutForkTxs`, `BlockCommitted`, `loadAddrFilter` |
| wallet client | `wallet/client/` | the same database, from another process; a key store | new addresses, `createTransaction`, signing |
| bloom | `bloom/` | none | filter, `NewMerkleBlock`, `CheckMerkleBlock`, `GetTxMerkleBranch` |
| false positive rate | `fprate/fprate.go` | a running average | `Update`, `Reset` |

How they interact. Each peer has a goroutine that reads its connection
(`handleMessage`) and one that assembles blocks (`peer.blockHandler`); both call
the service, which queues messages for the sync manager in `msgChan`. One
goroutine (`SyncManager.blockHandler`) handles these one at a time and is the
only caller of `CommitBlock`, which runs under a lock and writes to two
databases. A second goroutine (`txHandler`) follows the transactions the
application sends, a third (`peerHandler`) the peers. The peers wait for the
manager over two channels that all of them share. Notifications come back on
the peers' goroutines (`BlockCommitted`) or on goroutines of their own. A
commit stores the block's transactions through the `TxsDB` interface, which the
interface service (for side chains) and the wallet daemon each implement over a
database of their own; the application calls the former, and a command line
client works on the latter's database, while blocks arrive.

What is hard. A commit is many writes and may be cut off anywhere; a
reorganisation walks two branches and moves data a block at a time; requests
are kept in two places (per peer and globally) that must agree while peers come
and go, roles change and maps overflow; announcements, blocks, transactions,
verdicts and timer ticks come in any order; goroutines wait for each other over
bounded channels; shutdown stops them in mid-flight; the stores keep maps in
memory that change before the batch they belong to is written, and find what is
to be rolled back by height, through indexes; the queue of notifications is read
as a whole and written back item by item while blocks are being rolled back.
`PROJECT.json` lists the most important hazards, each at its line and with the
properties aimed at it.

What makes each part correct:

* chain: headers stay connected, the tip is the heaviest, both survive a crash;
  main storage holds exactly the best chain's transactions;
* sync manager: nothing needed is held back as pending when nobody will deliver
  it; a peer that left leaves nothing behind; maps are bounded; the node finds
  somebody to sync with;
* service: the application hears one verdict per send, nothing waits for ever,
  a block is announced when it is committed, shutdown does not pull the store
  away from a commit;
* interface service: a listener hears of a transaction of the main chain, with
  the confirmations it waits for and with the proof of its block; a spending is
  seen because the output it spends was; queued items can be found by height;
* side chain data: what memory and disk answer is what committed blocks said;
* wallet: the coins are those of the main chain, the tables agree, and a payment
  spends enough unlocked coins of its sender;
* peer: a block is assembled from its own transactions only, and what is kept of
  it proves them; a peer that does not answer is dropped.

## 2. The modules

```
ChainSpec  <--refines--  BlockChain     MCBlockChain; BlockChainProofs
Lists  <-----------------SyncManager    MCSyncManager; SyncManagerProofs
                         TxHandler      TxHandlerProofs
                         Service        ServiceProofs
Tables, Lists <-- Arbiters <-- CustomID <-- SpvService --> BlockTree
                                        MCSpvService; SpvServiceProofs
Tables <-- Wallet --> BlockTree         MCWallet; WalletProofs
MerkleBlock <-- Peer                    MCPeer; PeerProofs
FoldProofs  --INSTANCE in--> SyncManagerProofs, SpvServiceProofs, WalletProofs
```

An arrow is EXTENDS; an MC module extends the module of its row for TLC, a
Proofs module for TLAPS. `SpvService` composes the service with its data store,
the two stores of side chain data and the chain database that drives them;
`Peer` composes a peer's goroutines with the merkle blocks they check and with
the part of the sync manager they meet. `Tables` has the three operations on a
database table or a map that the stores are built from: rows put over a table,
one row, keys deleted. `Lists` has the loop that copies the elements of a list
that are in a set, which the manager and the stores of side chain data share.
`FoldProofs` models nothing: it is what the proofs know of a loop.

Several modules hold definitions without a comment that stand just before the
definition they vary: plausible mistakes in that piece of code (a dropped guard,
a missing reset). No specification uses them. `PROJECT.json` ("mutants") names,
for every property, one that breaks it.

### ChainSpec
What a header chain promises: known blocks only grow, each extends a known one
and adds its work, the tip moves only to a known block that is strictly heavier.

### BlockChain
`CommitBlock` with everything below it. `pc` says which write comes next:

| step | code |
|---|---|
| `CommitOrphan`, `CommitIgnored` | the early returns of `CommitBlock` (parent unknown; bad proof of work, known tip) |
| `CommitBlock` | the decision and the first leveldb write, that of the header; a new tip enters the cache *before* it (`headers.go:70`) |
| `PutTip`, `PutIndex` | the other two leveldb writes of `headers.Put` |
| `PutTxs`, `PutForkTxs` | `chainDB.CommitBlock` |
| `getCommonAncestor` | one round of its loop, with the two walks `major` and `minor` |
| `StartReorganize`, `MoveToFork`, `DelTxs` | walking down the old branch |
| `StartConnect`, `MoveToMain`, `FinishReorganize` | walking up the new branch |
| `TxsError`, `ConnectError` | an error of the transaction store; the call returns with what it has done |
| `Crash` | the program stops and is started again: volatile state is read back |

Data: a block is its hash, a transaction list is the block that carried it, a
header is its height and total work. `Prev`, `Work` and `ValidPoW` are arbitrary
constants; total work is a natural number, as the code uses `big.Int`. The
transaction store is the `TxsDB` interface as documented; `SpvService` and
`Wallet` model the two stores that implement it. Not here: failing leveldb writes of the header
store, eviction from its cache (a cache miss reads the database), `Clear`,
`Close`.

### SyncManager
One action per message of `blockHandler`, each the whole handler.
`requestQueuedInv`, which ends two handlers, takes one step per inventory
(`Request`), since `limitMap` evicts an arbitrary entry each time; `busy` keeps
every other handler out meanwhile. Branches of `handleBlockMsg` are actions of
their own (`BlockUnrequested`, `BlockOrphanCurrent`, `BlockOrphanSyncing`,
`BlockNotNew`, `BlockTooManyFalsePositives`, `BlockCurrent`, `BlockSyncing`).
Peers are unconstrained: they announce and send anything, asked or not. The
chain is `known` and `tip`, moved by `CommitBlock` in one step, with an error of
the transaction store possible after the header is in. Choices where the code
computes: the bad-block rate, the false-positive rate and its filter reload, and
which candidate the iteration over a Go map yields first. Messages of unknown
peers only disconnect them and are left out. `out` holds the messages the last
handler sent, for composition with a network.

### TxHandler
The goroutine of that name. `unconfirmed` maps a transaction to the ticks it has
left, in units of `txRebroadcastDuration`; `sends` and `told` are history. Any
message may come at any time, since peers, the application and the timer are
independent.

### Service
The goroutines and channels of the service and the manager's loop. A thread is
a place in the code (`at`); a message is its kind and sender; the bodies of the
handlers are the business of the modules above. Sends into `msgChan` and
`txQueue` block when full; the test of `shutdown` and the send after it are two
steps; `blockProcessed` and `txProcessed` are shared by all peers, as in the
code. `BlockCommitted` is what the notifiers of this repository do on the peer's
goroutine: they may ask `IsCurrent`, which goes through the manager again. One
transaction stands for all of an inv's. `Stop` is five steps in the code's order
and waits for nobody. `IServer` (the p2p library) is external: peers' goroutines
may still call in after `IServer.Stop`, since nothing waits for them.

### BlockTree
The tree of blocks with heights, branches and the point where two of them part,
for the modules that work on whole blocks. Every block has the same work there,
so the tip is the first block of the greatest height.

### Arbiters, CustomID
The two stores as operators over `db` (leveldb: bucket keys are tuples), a batch
`b` and the maps in memory `mem`, each operator taking and returning the whole
state. They keep the code's names. A batched put changes `mem` at once and `db`
only with the caller's commit. `Arbiters` has the lists of positions, the sets
written in full or as a reference to the height that has them, the search for
the set in force (`findSlot` stands for the search in `GetByHeight`) and the
changes between proof of work and DPOS. `CustomID` has proposals under their
hash, results that move them into the maps, fees, deposits, the rule of
confirmation (`isProposalConfirmed`, a fold over the changes of consensus) and
`DeleteCustomID`, which undoes them. Key lists, IDs and rates are opaque values;
the encoding of a list as bytes appears only where the code tells two values
apart by their length.

### SpvService
| action | code |
|---|---|
| `Register` | `RegisterTransactionListener` with the filter entry it stores |
| `CommitBlock` | `BlockChain.CommitBlock` and the header store up to the transactions; fork blocks are filed |
| `PutTx`, `CommitTxs`, `CommitFails` | `putTx` for one transaction of the batch; the commit of the batch, or its failure and `Rollback` |
| `Detach` | one block of the old branch in `ProcessReorganize`: `GetTxs`, `PutForkTxs`, `DelTxs` |
| `BlockProcessed` | the sync manager's answer, with which `onBlock` goes on |
| `GetAll`, `NotifyTx`, `PutBack`, `EndNotify` | `BlockCommitted`: the copy of the queue, one item of it, `que.Put` and the call of the listener |
| `SubmitTransactionReceipt`, `NotifyTimeout`, `Query`, `Restart` | the application; the clock; a query that fills empty maps; a crash |

`hand` has a place in `BlockCommitted` for every goroutine that delivers blocks.
Data: a transaction is its kind, the addresses of its outputs, the outpoints it
spends and, for side chain data, its payload's fields; a queue item is a height
and whether it was notified never, recently or a while ago. `told`, `late`,
`log` and `wrong` are history: `log` is what committed blocks said, `wrong` names
the situations in which the code is known to go astray (see below), and the
properties say in which of them they are not claimed. The merkle proof is the
block it was made from.

### MerkleBlock
Hashes are the terms they were computed from. Building
(`traverseAndBuild`), checking (`CheckMerkleBlock`, a fold of the loop's turns
over its stack of nodes) and the branch of one transaction
(`GetTxMerkleBranch`) are the code's algorithms with its numbering of nodes;
`inDeadZone` walks the rows as the code does. `GetMerkleRoot`, which verifies a
branch, belongs to the main chain and is external.

### Peer
The goroutines of one peer over two channels that hold one message, as in the
code: the reader and writer of the wrapped peer (external: they report each
message to `stallControl` before it is handled or after it was sent),
`stallHandler` with its drain, `blockHandler` with its drain, and the sync
manager while it handles this peer's block, in which it may call `StallClear`.
An offer is the list of a block's transactions, those that match and whether
the message is complete; `lastActive` is recent or old. `sent` and `delivered`
are history.

### Wallet
The daemon and the client on one database. `PutTx`, `Commit`, `CommitFails`,
`CommitBlock`, `DelTxs` and `Refuse` are the chain database's calls into
`spvwallet.go` and the batch behind them, an sqlite transaction;
`getAddrFilter`, `loadAddrFilter` and `notifyNewAddress` load the address filter
one address at a time; `BlockCommitted` stores the height; `AddAddress`,
`GetAddressUTXOs`, `SelectCoins` and `newTransaction` are the client, whose
reads are separate steps. `DelTxs` fails and rolls back, because that is what
`RollbackHeight` does. Amounts are small naturals (the code's are 64-bit fixed
point numbers, and what a wallet holds is far from their limits); scripts and
signatures are left out.

## 3. The runs

| run | instance | shows |
|---|---|---|
| `chain_reorg` | 9 blocks: two branches of 3, a third leaving the first, one bad block; equal work; no faults | `MainIsBestChain`, `ForkIsKept`, `CommitReturns`; no deadlock |
| `chain_faults` | 7 blocks, work that varies, 2 crashes or errors anywhere | type, header tree, tips, walks, heights, index, refinement of `ChainSpec` |
| `chain_heavier_fork` | work that varies | *violation* of `MainIsBestChain` |
| `sync_requests` | 2 peers of different height, 4 blocks with a fork, 1 transaction, maps and messages of 2 | the five properties of the manager |
| `tx_outcomes` | 2 transactions sent twice, 2 ticks of life | the four properties of `TxHandler` |
| `service_run` | 2 peers, 1 other caller, channels of 1 | `CallsReturn`; no deadlock |
| `service_stop` | 2 peers, `Stop` at any time | `AnswersBalance`, `ManagerStops` |
| `spv_queue` | 7 blocks in two branches of 3 with a payment and its spending at different heights, 2 listeners, 2 delivering goroutines, 1 fault | `QueueIndexed`, `NotifiedConfirmed`, `ProofVerifies`, `SpendsFollowed` |
| `spv_ids` | all sequences of up to 3 blocks of 5 contents, in any order and on any branch, 5 blocks in all, 1 fault | `PositionsSorted`, `PositionsCommitted`, `ArbitersAnswer`, `CustomIDsAnswer` |
| `peer_blocks` | merkle blocks of 1, 3 and 5 transactions, one cut short; 3 messages, 1 request | `DeliveredWhole`, `ProofsHold`, `StalledDisconnected` |
| `peer_stall_clear` | 1 merkle block, 2 messages | *violation* of `NothingLeftWaiting` |
| `wallet_coins` | 5 blocks with a fork; a coinbase, two payments with a lock, a spending; 2 addresses, 1 payment, 1 fault | `TablesAgree`, `CoinsFollowChain`, `TransactionsValid` |

What the properties of the last five mean. `QueueIndexed`: an item is under its own height in
the index, so a rollback of that height finds it, also after `BlockCommitted`
has written it back. `NotifiedConfirmed`, `ProofVerifies`: a listener is called
for a transaction that is on the main chain at that height, deep enough, with
the proof of its block. `SpendsFollowed`: a transaction that spends a watched
output is stored. These three are claimed for runs in which no block was given
up half way (`Orderly`: no crash or failed write, no error in a block's data):
the chain database does not undo what it has done of a reorganisation when it
meets an error, so the old branch's items, and the new one's gaps, stay. `PositionsSorted`,
`PositionsCommitted`: the lists searches rely on are in order and no abandoned batch leaks into them. `ArbitersAnswer`,
`CustomIDsAnswer`: what a side chain is told, through caches, references and
restarts, is what an independent reading of the committed blocks (`log`) says.
`DeliveredWhole`: blocks reach the sync manager in the order sent, whole and
once. `ProofsHold`: the check accepts what was delivered and the branches lead
to the root, on even and odd rows. `StalledDisconnected`: a silent peer that owes an
answer is dropped. `TablesAgree`: coins, spendings and transactions of the
wallet refer to each other at the same heights. `CoinsFollowChain`: the coins
are those computed from the main chain. `TransactionsValid`: a payment has
enough unlocked coins of its sender, no more than it needs, and the right
change.

Bounds, and why they are enough. Branches of three blocks make every walk of a
reorganisation take more than one round, with an old branch that is shorter,
equal or longer than the new one; a third branch makes a reorganisation follow
another and puts blocks back that were moved out. Two faults let a crash hit the
recovery from an earlier error. Two peers are enough for a role to change, an
announcement to be forgotten in favour of another's, and a peer to leave while
the other takes over; limits of 2 are reached, and message and map limits are
equal, as in the code, where both are `msg.MaxInvPerMsg`. Channel capacities of
1 are full most of the time; two handlers are the least that can confuse their
answers. Two branches of three let a reorganisation detach two blocks, connect
two and leave one confirmation on top, with two goroutines in `BlockCommitted`
at once. In `spv_ids` a content may be rolled over by any other at its height.
Trees of 1, 3 and 5 leaves have an odd row at the bottom, and in the middle.
The wallet's branches put the same spending at two heights. One fault is enough
to leave caches and disk apart. Symmetry is used for the two handlers, which no
temporal property tells apart. The proofs below hold for every size.

Fairness, and what justifies it. `chain_reorg`: a `CommitBlock` that has begun
keeps running (weak fairness of its steps); no block need be offered.
`tx_outcomes`: the ticker ticks; peers, blocks and the application owe nothing.
`service_run`: a goroutine that can run does, and one that waits for a channel
is served in its turn (strong fairness), because Go keeps blocked senders and
receivers in FIFO order. `service_stop`: in addition `Stop` finishes, and a
`select` with several ready cases takes the quit case in the end, because it
chooses among them at random. No call need ever begin. `peer_blocks`,
`peer_stall_clear`: weak fairness of `Progress`, the disjunction of what the
goroutines can do: as long as one of them can go on, one does; time passes and
the ticker ticks. Nobody has to send or to ask for anything. This is less than
Go's scheduler gives, so the property holds with more reason, and in the
violation nothing but the peer's own end is left to happen.

Deadlock is checked in the chain, sync and `service_run` runs. It is off where
the system may stop: after the last bounded send, block or payment, after
`Stop`, and when a peer is gone.

### What does not hold

Two runs show a disagreement between the code and its own words, recorded as
findings in `PROJECT.json`:

* `chain_heavier_fork`: a reorganisation to a branch that is heavier but not
  higher loses the new tip's transactions. With equal work per block
  (`chain_reorg`) the same property holds: a heavier branch is then higher.
* `peer_stall_clear`: when a peer disconnects while its last block is being
  handled, `StallClear` may block the sync manager's only goroutine for ever.

Also met while modelling. The models do what the code does; where a property
below is restricted, it is because of one of these.

* sync: such a reorganisation makes the node not current again while requests to
  other peers stay in the global map; `startSync` takes the first candidate, not
  the best (`manager.go:182`); `limitMap` bounds the global maps but no peer's
  own.
* service: `BlockCommitted` is called for refused blocks too (`service.go:415`);
  a peer may take the answer to another peer's block (`:419`, against
  `manager.go:682`); the drain of `peerQueue` leaves `newPeer` without its reply
  (`:204`, against `:199`); `Stop` closes the store without waiting for the
  manager (`:482`).
* chain database: the new tip's transactions are put before its ancestors'
  (`chaindb.go:29`, against the comment at `:86`), so a spending in the block
  that causes a reorganisation is missed: `SpendsFollowed` excepts those blocks
  (`late`).
* data store: the list of hashes by height is never written, because each call
  of `dataBatch.Txs()` makes a new `txsBatch` (`databatch.go:30`); a rollback
  therefore removes queue items and nothing else. `BlockCommitted` may write
  back an item that was rolled back or acknowledged meanwhile (`"revived"`,
  `spvservice.go:592`). The height index has the last header put at a height,
  whatever its branch (`headers.go:92`): `ProofVerifies` is claimed where the
  store has no other header at that height. `HaveOp` does not see the batch
  being collected (`ops.go:31`).
* side chain data: when a batch is given up the caches keep its data
  (`"lost"`); when a height that has a set in full is written again, references
  to it lead to another set or to itself (`"overwritten"`, `arbiters.go:85`); of
  two fees approved in one block the first is lost, since the list of their heights is taken from the database
  (`customid.go:339`);
  `NotifyRevertToDPOS` is called for `RevertToPOW` transactions
  (`spvservice.go:596`).
* wallet: `RollbackHeight` deletes from a table `TXNs` that does not exist
  (`databatch.go:78`), so every reorganisation fails (`"reorganised"`); "Move
  UTXO to STXO" copies the coin and leaves it (`spvwallet.go:48`), and the client
  offers it again; outputs are missed while the filter is loaded (`"loading"`,
  `:239`); a failed spending cuts a transaction short without an error
  (`"cut short"`, `:58`).

## 4. The proofs

What is proved, for every value of the constants that satisfies the assumptions.
A property named here is one that a run checks too.

| module | theorems | under |
|---|---|---|
| `BlockChainProofs` | `TypeOK`, `HeadersConnected`, `TipHeaviest`, `TipsAgree`, `DataAtHeight`, `IndexSound`, `AncestorFound`, `RootReached`, refinement of `ChainSpec` | any faults |
| | `MainIsBestChain`, `ForkIsKept` | `EqualWork`, or `[]NewTipHigher` |
| `SyncManagerProofs` | `TypeOK`, `NoOwnerlessRequest`, `SyncPeerConnected`, `RequestsBounded` | |
| | `PendingAtSyncPeer` | `EqualWork`, or `TipNeverLower` |
| `TxHandlerProofs` | `TypeOK`, `OneState`, `OneOutcomePerSend` | |
| `ServiceProofs` | `AnswersBalance`, and that a reply is awaited | |
| `SpvServiceProofs` | `QueueIndexed`, `PositionsSorted`, `PositionsCommitted` | any faults |
| | `NotifiedConfirmed`, `ProofVerifies`, `SpendsFollowed`, `ArbitersAnswer` | the cases the properties name |
| | `CustomIDsAnswer` | the same, and `OneFeePerBlock` |
| | that the loop of `isProposalConfirmed` decides what it should | a sorted list of changes |
| `PeerProofs` | `TypeOK`, `DeliveredWhole` | `MerkleSound` |
| `WalletProofs` | `TypeOK`, `TablesAgree`, `TransactionsValid` | any faults |
| | `CoinsFollowChain` | the case the property names: no fault, nothing went wrong |
| `FoldProofs` | that a fold over a list is the end of a run | every list |

Assumptions on constants, which TLC evaluates in the runs. `ConstantsAssumption`
(genesis is a hash without parent, work is positive), `SyncAssumption` (sets and
limits have the obvious types, limits are positive), `TxAssumption`,
`ArbitersAssumption`, `ConfirmationsAssumption` (bounds are naturals),
`ServiceAssumption` (capacities are positive, there are finitely many peers),
`SpvAssumption` and `WalletAssumption` (a block is a sequence of transactions,
amounts, locks and confirmations are numbers, a transaction has finitely many
outputs, a payment is of more than nothing, which is up to the application),
`TurnAssumption` (the fields of side chain data are what they are; a turn of
arbiters begins at a positive height, and there is one in a block at most: the
main chain puts it there itself when a turn begins), `OnceAssumption` (a
transaction is on a branch once: full nodes see to that, and the code, which
uses its hash as a key, takes it for granted), `PeerAssumption` (a block has a
transaction and has none twice). `NoneAssumption` of `BlockChain` and of
`Wallet`, `NilAssumption` and a conjunct of `SpvAssumption` say that an absent
value (nil, an error) is not one of the values it stands beside.
`TreeAssumption` of `BlockTree` and of `SyncManager` are the recursion equations
of the functions of height, work and branch: the prover cannot derive them from
the recursive definitions, which needs an induction with an operator parameter.
They hold because a header contains its parent's hash, so no branch comes back
to itself.

Four hypotheses stand in theorems instead. `EqualWork`: all blocks have the
same work, as blocks with the same `Bits` have. It is needed:
`chain_heavier_fork` breaks `MainIsBestChain` without it. What it is used for is
stated apart (`EqualWorkHigher`, `EqualWorkRises`), and the results are proved
from that weaker condition, that a new tip is higher than the one before it
(`NewTipHigher`), or not lower (`TipNeverLower`). `MerkleSound`: a merkle
block that `CheckMerkleBlock` accepts is whole and names what matched; the check
walks a tree whose shape is found by halving, and `MCPeer` has TLC evaluate it
for the trees of the runs. `OneFeePerBlock`: the results in a block approve one
fee at most. It is needed, as of two fees the code loses the first (section 3),
and it is nothing the code sees to; only the answer about the fee depends on it.
`Changes` in `ConfirmationLoop` is what `PositionsAlwaysSorted` shows of the
list that the loop is given.

**BlockChainProofs.** `IInv` is `TypeOK`, `HeadersConnected`, `TipsAgree`,
`TipHeaviest`, `DataAtHeight` and `IndexSound` together. None of the last four
is inductive alone: a block is weighed against the *cached* tip and
`TipHeaviest` speaks of the *durable* one, so `TipsAgree` must tie them; and
`CommitBlock` may write a header again, which is harmless only because
`HeadersConnected` determines what is written (lemma `HeadersKept`). From
`IInv` follow the six properties, `AncestorFound` (both walks have a parent to
go to until they meet, because only genesis has height 0), and `Refinement`: a
header write is `Learn` or a stutter, a tip write is `Advance`, everything else
stutters. This covers any number of crashes and errors.

The second part of the module is about reorganisations. The recursive `Chain` is
unfolded once, through an equivalent definition without recursion (`Below`);
everything else the proofs need of branches is the invariant `Tree`, which a new
header keeps because its branch is its parent's and itself. `Walks` says where
the walks of a reorganisation are: what the two walks still have in common is
what the branches have in common, so when they meet they have met at the common
ancestor, and the walk down cannot pass it. `TxsFollow` says for each stage of a
commit what is in main and in fork storage; in the middle of a reorganisation
main storage holds the shared part, what is left of the old branch or has been
connected of the new one, and the new tip, which was put first. Deleting the
heights of the old branch leaves the new tip alone only if it is higher than all
of them: this is where `NewTipHigher` is needed.

**SyncManagerProofs.** `IInv` is `NoOwnerlessRequest`, `SyncPeerConnected` and
`RequestsBounded` with the shape of the request maps, their finiteness and the
fact that `requestQueuedInv` serves a connected peer: without the last a request
could be entered for a peer that has gone. Lemma `ShrinkInv` covers all handlers
that enter no request. For `PendingAtSyncPeer` the loop must serve the sync peer
unless the node is current (`ServesListened`), and a node that is current must
stay so while its sync peer is the same: with a tip that gets lower it would
fall back to catching up while other peers owe it blocks. `TypeOK` needs the
loop of `handleInvMsg` that keeps the inventories not known yet: an invariant of
its run (`FoldProofs`).

**FoldProofs.** The loops of the code are folds in the model, which the library
defines by recursion over sets of positions and of which the provers know
nothing. `FoldRun` says what a fold is: the last value of a run `r` with
`r[0]` what the loop starts from and `r[k + 1]` one turn of it on `r[k]` and
element `k + 1`. The existence of the function that solves the recursion is
shown by building it, and what holds along a run by the least number principle
(`CountUp`), both from the library's theorem on sets of naturals, which takes a
set and not an operator. The loop's turn is a constant of the module, so that an
instance of it is expanded before the provers see it. A module that reasons
about a loop instantiates it once per loop.

**TxHandlerProofs.** `IInv` is `TypeOK`, `OneState` and `Accounted`, which is
`OneOutcomePerSend` with its conditional sums written as implications. It is
inductive because a transaction enters `unconfirmed` only with a send, and
leaves it with at most one verdict.

**ServiceProofs.** `AnswersBalance` is inductive with the types. The work is in
counting: an append to `msgChan` adds one message of its kind, a receive removes
one, a peer that begins or ends to wait changes the set of waiting peers by one.
`ReplyIsAwaited` follows: a balance that is not zero has somebody on the other
side.

**SpvServiceProofs.** `QueueAlwaysIndexed` is `QueueIndexed` with any number of
faults. `IInv` adds `QueItems`, that an item is a record of a height and a time:
only then does the tick of the clock, which changes one field, leave the height
alone. There is one lemma per operation of the queue: a put enters the item and
its entry together (so an item may be revived, but never without its entry),
`que.Del` removes at most the entry of the item it removes, and `DelAll` removes
with an entry the item it names.

The next three properties need to know where the chain database is.
`BranchFacts`, `AncestorFacts` and `ChildFacts` are about the tree: a branch has
one block per height, two branches share what is at or below the point where
they part, and there is a next block up a branch. They are shown by the least
number principle, from the library's induction theorem for sets of naturals. On
them rest three invariants, of which the last two are of orderly runs:

* `Sound`, with any faults: the header store is closed under parents and its tip
  is the highest; a block being put is on the new branch, one being detached on
  the old branch above the common ancestor; the handler that delivered the block
  waits.
* `OnMain`: a queue item is of a transaction of the main chain at its height, or
  the reorganisation has yet to come to its height (`Leaving`); what a handler
  has read is of the main chain unless a reorganisation has made it stale. The
  step that matters is `Detach`, where `QueueIndexed` lets `DelAll` find every
  item of the height. `AlwaysConfirmed` and `ProofAlwaysVerifies` follow.
* `Followed`: every stored block has been put in full, or is filed with all its
  transactions and waits to be connected (`Pending`), or is being put. A detached
  block is filed with none, which is harmless only because nothing of it was
  taken out of the store. When a block is put in full those below it were, so
  their outputs were known; the block that causes a reorganisation is the one
  exception (`Early`). Blocks that wait are always found (`Found`), so a
  reorganisation never ends early. `SpendsAlwaysFollowed` follows.

The side chain data is the second half of the module. A put changes the maps in
memory at once and the database with the batch, so each invariant says what
memory and batch are while the transactions of a block are put one by one:

* `SortedInv`: the lists of positions are ascending on disk, in the batch and in
  memory, and a proposal that will change one is filed with a height. A list is
  written as the elements below a height with that height appended, so it is
  enough to know what `Keep` keeps (`KeepPlaces`: the places it takes them from
  ascend).
* `TurnsInv`: the batch has the positions of the database and the turns among
  the transactions put so far (`HowFar`), so what is committed is the positions
  of the blocks that were committed, whatever a batch that was given up has left
  in `posCache`.
* `ArbInv`, `LastTurn`: a list in memory is empty or what the database will say
  once the batch is written; a set that is said to be known at a height is there
  in full; every position that blocks have set leads to the set they named,
  directly or by one reference. A batch that writes a height again that has a
  set in full (`Covers`) is the exception, named `"overwritten"`.
* `FileInv`, `CidInv`: `Mirrors` says that what was said, the maps in memory and
  the database with the batch over it are the same: the maps of names, written
  as a whole, the list of fees with its rows (`FeeMirrors`), the deposits. It
  holds at every point of a block for what the transactions put so far have said
  (`SaidSoFar`), and for the loop over the results of one transaction by a run of
  that loop beside a run of the history.

`ConfirmationLoop` compares the loop of `isProposalConfirmed` with its
definition by stretches: after each turn the loop has seen the stretches that
have ended, remembers the one that is open, and has stopped exactly if one of
them confirms.

**PeerProofs.** `Types` has the contents of the channels and of what each
goroutine holds. `Ledger` accounts for every merkle block that was read: it was
delivered, or is at the reader, in the queue or with `blockHandler`, the oldest
one furthest on; `Collected` says that what is collected and what is pending are
together the transactions that matched.

**WalletProofs.** The difficult case is a transaction that is put again at
another height while the rows of its first time are still there, since no
rollback succeeds: all of them must be overwritten. `CoinsLoaded` (addresses of
coins are in the filter once it is loaded), `BatchAtTip` and `BatchCovers` (the
batch has every row that a transaction of it has in the tables) say that they
are.

`SoundPayments` says of the client, at every stage of a payment, that what it
holds is of coins of the sender that it has read; the loop that selects coins
(`TakeCoins`) is a run in which the sum so far is the worth of the coins so far
and less than the amount until it ends. It must hold however the daemon moves on
between the client's reads, so it speaks of stored blocks and of the height that
was read, not of the tables. `Following` says that the tables are those of the
main chain between blocks, and in the middle of a block those of its parent with
the batch of the transactions put so far (`BatchOf`); that a transaction is on a
branch once keeps the rows of different blocks apart, and that every address of
the filter is known when a block is put makes them complete.

Only model-checked:

* liveness (`CommitReturns`, `EventuallySettled`, `CallsReturn`, `ManagerStops`,
  `StalledDisconnected`), which needs fairness;
* `ProofsHold` of `Peer`, and `MerkleSound`: what the recursive building of a
  partial merkle tree and the loop that checks it compute needs an induction over
  the shape of the tree, with facts about powers of two that the provers lack.

## 5. Not modelled, and the plan

Left out for good: hashing, signatures, key stores and the bloom filter's bits,
floating point averages, serialisation, the command line, configuration, logs,
RPC. A header's proof of work and the filter's verdict are constants or choices.
Also left out: `Clear`, `Close` and `ClearData` of the stores, the unbatched
puts and deletes nobody calls, `RevertListener` and `BlockListener` (calls
without state of their own), `peerHandler` (a map behind a queue), and the
wallet's header store, whose two writes are the first two of the service's.
The components of `PROJECT.json` say for each part what is missing.

Left to do, in this order:

1. Proofs: `MerkleSound`, by replacing the stack of nodes of `CheckMerkleBlock`
   by the row and position each node has, so that the check becomes one run over
   the hashes of the message.
2. An abstract specification of the notification queue (an item is queued, told,
   acknowledged or rolled back) that `SpvService` implements.
3. The composition of `SyncManager` with `Peer` and peers that answer, for the
   liveness of a sync and the effect of the getblocks filter; block locators and
   the bounds of difficulty retargeting.
