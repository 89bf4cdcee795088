----------------------------- MODULE BlockChain -----------------------------
(***************************************************************************)
(* The block chain of the SPV node: blockchain.BlockChain over a           *)
(* database.ChainStore.  CommitBlock is the only writer; it runs under     *)
(* BlockChain.lock, so at most one commit is in progress, but it is not    *)
(* one write: the header, the chain tip and the height index go to leveldb *)
(* one Put at a time (interface/store/headers.go), the transactions to a   *)
(* second database (database.TxsDB), and a reorganisation moves them one   *)
(* block at a time (database/chaindb.go).  The program may stop between    *)
(* any two of those writes, and any TxsDB call may return an error, which  *)
(* CommitBlock hands to its caller with everything written so far kept.    *)
(*                                                                         *)
(* A definition with no comment that stands before the one it varies is a  *)
(* plausible mistake in that code; it is not used by the specification.    *)
(*                                                                         *)
(* Data: a block is its hash; a transaction list is identified with the    *)
(* block that carried it.                                                  *)
(***************************************************************************)
EXTENDS Naturals, FiniteSets

CONSTANTS
  Hash,       \* block hashes the node may ever be offered
  Genesis,    \* the genesis header, stored by New
  None,       \* "no such header / no such record"
  Prev,       \* the previous-block hash a header carries
  Work,       \* the work CalcWork derives from a header's Bits
  ValidPoW,   \* the hashes whose header passes checkProofOfWork
  MaxFaults   \* bound on crashes and TxsDB errors in a behaviour

ASSUME ConstantsAssumption ==
  /\ Genesis \in Hash
  /\ None \notin Hash
  /\ Prev \in [Hash -> Hash \cup {None}]
  /\ Prev[Genesis] = None
  /\ Work \in [Hash -> Nat \ {0}]
  /\ ValidPoW \subseteq Hash
  /\ MaxFaults \in Nat

(* A record of fork storage is never mistaken for its absence.             *)
ASSUME NoneAssumption == \A S \in SUBSET Hash : S # None

VARIABLES
  \* durable: the header database
  headers,    \* BKTHeaders: hash |-> [height, work]
  diskTip,    \* BKTChainTip
  index,      \* BKTIndexes: height |-> hash
  \* durable: the transaction database
  main,       \* {<<height, list>>}: the lists GetTxs(height) returns
  fork,       \* ForkTxs: hash |-> the lists GetForkTxs(hash) returns, or None
  \* volatile: the header cache and the commit in progress
  cacheTip,   \* headers.cache.tip, what GetBest returns
  pc,         \* where CommitBlock is; "idle" between calls
  blk,        \* the block being committed
  best,       \* bestHeader, the tip read at the start of the call
  newTip,     \* the local of the same name
  major,      \* majority, the walk from the new tip in getCommonAncestor
  minor,      \* minority, the walk from the old tip; then the loop header
  root,       \* commonAncestor
  ret,        \* what the last call returned
  \* history
  faults,     \* crashes and TxsDB errors so far
  torn        \* blocks whose header was written and whose tip write was not

headerVars == <<headers, diskTip, index>>
txVars     == <<main, fork>>
callVars   == <<blk, best, newTip>>
walkVars   == <<major, minor, root>>
histVars   == <<faults, torn>>
vars == <<headerVars, txVars, cacheTip, pc, callVars, walkVars, ret, histVars>>

Header == [height : Nat, work : Nat]
Stored == DOMAIN headers

Stages == {"idle", "tip", "index", "txs", "ancestor", "disconnect",
           "delete", "connect"}
Results == {"none", "orphan", "invalid", "known", "stored", "newTip",
            "reorg", "error"}

----------------------------------------------------------------------------
(* Helpers.                                                                *)

(* f with key k set to v: one Put of a key-value store.                    *)
Set(f, k, v) == [x \in DOMAIN f \cup {k} |-> IF x = k THEN v ELSE f[x]]

ExtendTip(b) == [height |-> headers[cacheTip].height + 1,
                 work   |-> headers[cacheTip].work + Work[b]]
ExtendSameHeight(b) == [height |-> headers[Prev[b]].height,
                        work   |-> headers[Prev[b]].work + Work[b]]

(* The height and total work CommitBlock stores with a header.             *)
Extend(b) == [height |-> headers[Prev[b]].height + 1,
              work   |-> headers[Prev[b]].work + Work[b]]

HeavierOrEqual(b) == Extend(b).work >= headers[cacheTip].work
Higher(b) == Extend(b).height > headers[cacheTip].height

(* The block becomes the new tip.                                          *)
Heavier(b) == Extend(b).work > headers[cacheTip].work

(* The blocks from h down to the root of its branch, h included.           *)
Chain[h \in Hash] == IF Prev[h] \in Hash THEN {h} \cup Chain[Prev[h]] ELSE {h}

(* The call switches branches: it makes a new tip that does not extend     *)
(* the old one.                                                            *)
Reorg == newTip /\ Prev[blk] # best

(* subChain of ProcessReorganize: the blocks above the common ancestor.    *)
SubChain == Chain[blk] \ Chain[root]

GetTxsFrom(height) == {e[2] : e \in {x \in main : x[1] >= height}}

(* The transactions filed in main under a height.                          *)
GetTxs(height) == {e[2] : e \in {x \in main : x[1] = height}}

Return(result) ==
  /\ pc' = "idle"
  /\ ret' = result

----------------------------------------------------------------------------
(* New stores the genesis header, with no work, in an empty database.      *)
Init ==
  /\ headers = [h \in {Genesis} |-> [height |-> 0, work |-> 0]]
  /\ diskTip = Genesis
  /\ index = [n \in {0} |-> Genesis]
  /\ main = {}
  /\ fork = [h \in Hash |-> None]
  /\ cacheTip = Genesis
  /\ pc = "idle"
  /\ blk = Genesis /\ best = Genesis /\ newTip = FALSE
  /\ major = Genesis /\ minor = Genesis /\ root = Genesis
  /\ ret = "none"
  /\ faults = 0
  /\ torn = {}

----------------------------------------------------------------------------
(* CommitBlock up to its first write.                                      *)

(* The parent is not stored (the tip always is): OrphanBlockError.         *)
CommitOrphan(b) ==
  /\ pc = "idle"
  /\ Prev[b] \notin Stored
  /\ Return("orphan")
  /\ UNCHANGED <<headerVars, txVars, cacheTip, callVars, walkVars, histVars>>

(* checkHeader fails, or the block is the tip already: nothing happens and *)
(* no error is returned.                                                   *)
CommitIgnored(b) ==
  /\ pc = "idle"
  /\ Prev[b] \in Stored
  /\ \/ b \notin ValidPoW /\ Return("invalid")
     \/ b \in ValidPoW /\ b = cacheTip /\ Return("known")
  /\ UNCHANGED <<headerVars, txVars, cacheTip, callVars, walkVars, histVars>>

(* The header is accepted; headers.Put moves the cached tip and then       *)
(* writes the header record.                                               *)
CommitBlock(b) ==
  /\ pc = "idle"
  /\ Prev[b] \in Stored
  /\ b \in ValidPoW /\ b # cacheTip
  /\ blk' = b
  /\ best' = cacheTip
  /\ newTip' = Heavier(b)
  /\ headers' = Set(headers, b, Extend(b))
  /\ cacheTip' = IF newTip' THEN b ELSE cacheTip
  /\ pc' = IF newTip' THEN "tip" ELSE "index"
  /\ ret' = "none"
  /\ UNCHANGED <<diskTip, index, txVars, walkVars, histVars>>

----------------------------------------------------------------------------
(* The rest of headers.Put: the chain tip, then the height index, which is *)
(* written for fork blocks too.                                            *)
PutTip ==
  /\ pc = "tip"
  /\ diskTip' = blk
  /\ torn' = torn \ {blk}
  /\ pc' = "index"
  /\ UNCHANGED <<headers, index, txVars, cacheTip, callVars, walkVars, ret,
                 faults>>

PutIndexAboveTip ==
  /\ pc = "index"
  /\ index' = Set(index, headers[best].height + 1, blk)
  /\ pc' = "txs"
  /\ UNCHANGED <<headers, diskTip, txVars, cacheTip, callVars, walkVars, ret,
                 histVars>>

PutIndex ==
  /\ pc = "index"
  /\ index' = Set(index, headers[blk].height, blk)
  /\ pc' = "txs"
  /\ UNCHANGED <<headers, diskTip, txVars, cacheTip, callVars, walkVars, ret,
                 histVars>>

(* The second half of chainDB.CommitBlock; without a reorganisation the    *)
(* call is done.                                                           *)
PutTxs ==
  /\ pc = "txs" /\ newTip
  /\ main' = main \cup {<<headers[blk].height, blk>>}
  /\ IF Reorg
       THEN pc' = "ancestor" /\ major' = blk /\ minor' = best /\ ret' = ret
       ELSE Return("newTip") /\ UNCHANGED <<major, minor>>
  /\ UNCHANGED <<headerVars, fork, cacheTip, callVars, root, histVars>>

PutForkTxs ==
  /\ pc = "txs" /\ ~newTip
  /\ fork' = [fork EXCEPT ![blk] = {blk}]
  /\ Return("stored")
  /\ UNCHANGED <<headerVars, main, cacheTip, callVars, walkVars, histVars>>

----------------------------------------------------------------------------
(* getCommonAncestor: roll the higher branch back to the height of the     *)
(* lower one, then both together until they meet.  A GetPrevious that      *)
(* finds nothing would end the call with an error; AncestorFound and       *)
(* RootReached below say that it never does.                               *)
HasPrevious(h) == Prev[h] \in Stored

Rollback(h) == IF HasPrevious(h) THEN Prev[h] ELSE h

RollbackMajorOnly ==
  /\ pc = "ancestor" /\ major # minor
  /\ major' = Rollback(major)
  /\ UNCHANGED <<headerVars, txVars, cacheTip, pc, callVars, minor, root, ret,
                 histVars>>

RollbackUnchecked ==
  /\ pc = "ancestor" /\ major # minor
  /\ major' = Prev[major]
  /\ minor' = Prev[minor]
  /\ UNCHANGED <<headerVars, txVars, cacheTip, pc, callVars, root, ret,
                 histVars>>

getCommonAncestor ==
  /\ pc = "ancestor" /\ major # minor
  /\ major' = IF headers[major].height >= headers[minor].height
                THEN Rollback(major) ELSE major
  /\ minor' = IF headers[minor].height >= headers[major].height
                THEN Rollback(minor) ELSE minor
  /\ UNCHANGED <<headerVars, txVars, cacheTip, pc, callVars, root, ret,
                 histVars>>

----------------------------------------------------------------------------
(* ProcessReorganize.                                                      *)

StartReorganize ==
  /\ pc = "ancestor" /\ major = minor
  /\ root' = major
  /\ minor' = best
  /\ pc' = "disconnect"
  /\ UNCHANGED <<headerVars, txVars, cacheTip, callVars, major, ret, histVars>>

(* 1. Move the transactions of the old main chain to fork storage, from    *)
(* the old tip down.                                                       *)
MoveNothingToFork ==
  /\ pc = "disconnect" /\ minor # root
  /\ fork' = [fork EXCEPT ![minor] = {}]
  /\ pc' = "delete"
  /\ UNCHANGED <<headerVars, main, cacheTip, callVars, walkVars, ret, histVars>>

MoveToFork ==
  /\ pc = "disconnect" /\ minor # root
  /\ fork' = [fork EXCEPT ![minor] = GetTxs(headers[minor].height)]
  /\ pc' = "delete"
  /\ UNCHANGED <<headerVars, main, cacheTip, callVars, walkVars, ret, histVars>>

DelNothing ==
  /\ pc = "delete"
  /\ minor' = Rollback(minor)
  /\ pc' = "disconnect"
  /\ UNCHANGED <<headerVars, txVars, cacheTip, callVars, major, root, ret,
                 histVars>>

DelTxs ==
  /\ pc = "delete"
  /\ main' = {e \in main : e[1] # headers[minor].height}
  /\ minor' = Rollback(minor)
  /\ pc' = "disconnect"
  /\ UNCHANGED <<headerVars, fork, cacheTip, callVars, major, root, ret,
                 histVars>>

NextOnAnyBranch(h) == {c \in Stored : Prev[c] = h}

(* The header after h on the way from the common ancestor to the new tip.  *)
NextHeader(h) == {c \in Stored : c \in SubChain /\ Prev[c] = h}

StartConnect ==
  /\ pc = "disconnect" /\ minor = root
  /\ minor' \in NextHeader(root)
  /\ pc' = "connect"
  /\ UNCHANGED <<headerVars, txVars, cacheTip, callVars, major, root, ret,
                 histVars>>

(* 2. Put the transactions of the new branch, from the common ancestor up  *)
(* to but not including the new tip.                                       *)
MoveToMain ==
  /\ pc = "connect" /\ minor # blk
  /\ fork[minor] # None
  /\ main' = main \cup {<<headers[minor].height, t>> : t \in fork[minor]}
  /\ minor' \in NextHeader(minor)
  /\ UNCHANGED <<headerVars, fork, cacheTip, pc, callVars, major, root, ret,
                 histVars>>

(* GetForkTxs finds no record for a block of the new branch.               *)
ConnectError ==
  /\ pc = "connect" /\ minor # blk
  /\ fork[minor] = None
  /\ Return("error")
  /\ UNCHANGED <<headerVars, txVars, cacheTip, callVars, walkVars, histVars>>

(* The closing headers.Put(newTip, true).                                  *)
FinishReorganize ==
  /\ pc = "connect" /\ minor = blk
  /\ cacheTip' = blk /\ diskTip' = blk
  /\ index' = Set(index, headers[blk].height, blk)
  /\ Return("reorg")
  /\ UNCHANGED <<headers, txVars, callVars, walkVars, histVars>>

----------------------------------------------------------------------------
(* Faults.                                                                 *)

(* A TxsDB call fails: CommitBlock returns the error, and what was written *)
(* before stays.                                                           *)
TxsError ==
  /\ pc \in {"txs", "delete"} \/ (pc = "disconnect" /\ minor # root)
                              \/ (pc = "connect" /\ minor # blk)
  /\ faults < MaxFaults
  /\ faults' = faults + 1
  /\ Return("error")
  /\ UNCHANGED <<headerVars, txVars, cacheTip, callVars, walkVars, torn>>

CrashKeepsCache ==
  /\ pc # "idle"
  /\ faults < MaxFaults
  /\ faults' = faults + 1
  /\ torn' = IF pc = "tip" THEN torn \cup {blk} ELSE torn
  /\ Return("none")
  /\ UNCHANGED <<headerVars, txVars, cacheTip, callVars, walkVars>>

(* The program stops and is started again: NewHeaderStore reads the cached *)
(* tip back from BKTChainTip, and New finds a best header.                 *)
Crash ==
  /\ pc # "idle"
  /\ faults < MaxFaults
  /\ faults' = faults + 1
  /\ cacheTip' = diskTip
  /\ torn' = IF pc = "tip" THEN torn \cup {blk} ELSE torn
  /\ Return("none")
  /\ UNCHANGED <<headerVars, txVars, callVars, walkVars>>

----------------------------------------------------------------------------
Commit == \E b \in Hash : CommitOrphan(b) \/ CommitIgnored(b) \/ CommitBlock(b)

Step ==
  \/ PutTip \/ PutIndex \/ PutTxs \/ PutForkTxs
  \/ getCommonAncestor \/ StartReorganize
  \/ MoveToFork \/ DelTxs \/ StartConnect \/ MoveToMain \/ ConnectError
  \/ FinishReorganize

Next == Commit \/ Step \/ TxsError \/ Crash

Spec == Init /\ [][Next]_vars

(* A call that has begun runs to its end; nobody has to offer a block.     *)
FairSpec == Spec /\ WF_vars(Step)
----------------------------------------------------------------------------
(* Properties.                                                             *)

TypeOK ==
  /\ Stored \subseteq Hash
  /\ headers \in [Stored -> Header]
  /\ diskTip \in Stored /\ cacheTip \in Stored
  /\ DOMAIN index \subseteq Nat
  /\ index \in [DOMAIN index -> Stored]
  /\ main \subseteq Nat \X Stored
  /\ fork \in [Hash -> (SUBSET Stored) \cup {None}]
  /\ pc \in Stages
  /\ blk \in Stored /\ best \in Stored /\ newTip \in BOOLEAN
  /\ major \in Stored /\ minor \in Stored /\ root \in Stored
  /\ ret \in Results
  /\ faults \in 0..MaxFaults
  /\ torn \subseteq Stored

(* "We didn't store orphan blocks in database, all headers should be       *)
(* connected" (blockchain.go:111): at every moment, and after any crash,   *)
(* a stored header other than genesis has its parent stored, one lower and *)
(* with exactly its own work less.                                         *)
HeadersConnected ==
  /\ Genesis \in Stored
  /\ headers[Genesis] = [height |-> 0, work |-> 0]
  /\ \A h \in Stored \ {Genesis} :
       /\ Prev[h] \in Stored
       /\ headers[h].height = headers[Prev[h]].height + 1
       /\ headers[h].work = headers[Prev[h]].work + Work[h]

(* The node follows the most work: no stored block is heavier than the     *)
(* durable tip, save the one whose tip write is due and those whose tip    *)
(* write a crash cut off.  Ties keep the first block seen.                 *)
TipHeaviest ==
  \A h \in Stored :
    \/ headers[h].work <= headers[diskTip].work
    \/ h \in torn
    \/ pc = "tip" /\ h = blk

(* GetBest and the database name the same tip at every moment but one, and *)
(* there the cached tip is the heavier one: what callers are told about    *)
(* the chain survives a restart.                                           *)
TipsAgree ==
  /\ pc # "tip" => cacheTip = diskTip
  /\ pc = "tip" => /\ newTip /\ cacheTip = blk
                   /\ headers[blk].work > headers[diskTip].work
  /\ pc \notin {"idle", "tip"} /\ newTip => diskTip = blk
  /\ pc \notin {"idle", "tip", "index", "txs"} => newTip

(* getCommonAncestor never runs off the end of a branch: while the two     *)
(* walks are apart, each walk that is to move has a stored parent.         *)
AncestorFound ==
  pc = "ancestor" /\ major # minor =>
    /\ headers[major].height >= headers[minor].height => HasPrevious(major)
    /\ headers[minor].height >= headers[major].height => HasPrevious(minor)

(* ProcessReorganize stays between the common ancestor and the two tips:   *)
(* the walk down never passes the ancestor, which is on both branches, and *)
(* the walk up always has a next header until it is at the new tip.        *)
RootReached ==
  /\ pc \in {"disconnect", "delete", "connect"} =>
       root \in Chain[best] \cap Chain[blk]
  /\ pc = "disconnect" => minor \in Chain[best] /\ root \in Chain[minor]
  /\ pc = "delete" => minor \in Chain[best] \ Chain[root] /\ HasPrevious(minor)
  /\ pc = "connect" => minor \in SubChain

(* A transaction list is only ever filed under the height of the block     *)
(* that carried it, in main and in fork storage, whatever fails between:   *)
(* the height is what confirmations are counted from.                      *)
DataAtHeight ==
  /\ \A e \in main : headers[e[2]].height = e[1]
  /\ \A h \in Hash : fork[h] # None =>
       h \in Stored /\ \A t \in fork[h] : headers[t].height = headers[h].height

(* The height index leads to a stored header of that height, and leads     *)
(* somewhere for every stored header unless a crash came in between.       *)
IndexSound ==
  /\ \A n \in DOMAIN index : headers[index[n]].height = n
  /\ faults = 0 => \A h \in Stored :
       \/ headers[h].height \in DOMAIN index
       \/ pc \in {"tip", "index"} /\ h = blk

(* "ProcessReorganize switch chain data to the new best chain"             *)
(* (chaindb.go:36): between calls, when nothing has failed, GetTxs returns *)
(* the transactions of the best chain, all of them and no others.          *)
MainIsBestChain ==
  pc = "idle" /\ faults = 0 =>
    main = {<<headers[h].height, h>> : h \in Chain[cacheTip] \ {Genesis}}

(* Nothing is lost to a reorganisation: the transactions of every stored   *)
(* block off the best chain can be put back.                               *)
ForkIsKept ==
  pc = "idle" /\ faults = 0 =>
    \A h \in Stored \ Chain[cacheTip] : fork[h] = {h}

(* Every CommitBlock returns: its three walks over the header database     *)
(* terminate.                                                              *)
CommitReturns == pc # "idle" ~> pc = "idle"

(* The durable header chain implements the abstract one: a header write is *)
(* a Learn, a tip write an Advance, everything else (the transaction       *)
(* database, faults, restarts) leaves it alone.                            *)
Abstract == INSTANCE ChainSpec WITH
  work <- [h \in Stored |-> headers[h].work], tip <- diskTip

ImplementsChainSpec == Abstract!Spec
=============================================================================
