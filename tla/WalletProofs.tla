----------------------------- MODULE WalletProofs -----------------------------
(***************************************************************************)
(* What the wallet keeps for any tree of blocks, any transactions and      *)
(* addresses and any number of faults, in three parts.                     *)
(*                                                                         *)
(* The tables agree (Agree).  The point is a transaction that is put again,*)
(* on another branch and at another height, while the rows of its first    *)
(* time are still there.  They must all be overwritten.  They are, as      *)
(* coins are never removed, so that it spends at least the coins that it   *)
(* spent then, and as an address that was loaded once is in every later    *)
(* filter, so that it is paid at least what it was paid then.              *)
(*                                                                         *)
(* Payments are sound (SoundPayments): what the client holds at each stage *)
(* of createTransaction, the loop over the coins included.                 *)
(*                                                                         *)
(* The coins are those of the main chain (Following), as long as nothing   *)
(* went wrong: between blocks, and block by block within a commit.         *)
(***************************************************************************)
EXTENDS Wallet, SequenceTheorems, FiniteSetTheorems, TLAPS

(* No transaction was cut short or put while the filter was being loaded.  *)
Clean == wrong \cap {"cut short", "loading"} = {}

(* Types of what the actions work on.                                      *)
Job == {Idle} \cup [pc : {"put"}, left : Seq(Hash), old : stored]
              \cup [pc : {"detach"}, old : stored]
Working ==
  /\ job \in Job /\ addrs \subseteq Addr
  /\ filter = None \/ filter \subseteq addrs
  /\ known \subseteq addrs
  /\ loading = None \/ loading \subseteq addrs
  /\ "pc" \in DOMAIN client
  /\ DOMAIN batch = {"utxos", "stxos", "txs"}
  /\ DOMAIN batch.utxos \subseteq OutPoint /\ DOMAIN batch.stxos \subseteq OutPoint
  /\ DOMAIN batch.txs \subseteq Hash
  /\ job.pc # "put" => batch = NoBatch
Types == TypeOK /\ Working

-----------------------------------------------------------------------------
(* Rows over a table.                                                      *)
LEMMA OverRows ==
  ASSUME NEW rows, NEW table
  PROVE  /\ \A k : k \in DOMAIN Over(rows, table)
                     <=> k \in DOMAIN rows \/ k \in DOMAIN table
         /\ \A k \in DOMAIN rows : Over(rows, table)[k] = rows[k]
         /\ \A k \in DOMAIN table \ DOMAIN rows : Over(rows, table)[k] = table[k]
BY DEF Over

LEMMA OverRow ==
  ASSUME NEW key, NEW value, NEW table
  PROVE  /\ \A k : k \in DOMAIN Over(Row(key, value), table)
                     <=> k = key \/ k \in DOMAIN table
         /\ Over(Row(key, value), table)[key] = value
         /\ \A k \in DOMAIN table \ {key} : Over(Row(key, value), table)[k] = table[k]
BY DEF Over, Row

(* The puts of one transaction (spvwallet.go:39-88).                       *)
LEMMA PutCoins ==
  ASSUME NEW table, NEW t, NEW n, NEW paid
  PROVE  /\ \A op : op \in DOMAIN PutUTXOs(table, t, n, paid)
                      <=> (\E i \in paid : op = <<t, i>>) \/ op \in DOMAIN table
         /\ \A i \in paid : PutUTXOs(table, t, n, paid)[<<t, i>>] = NewUTXO(t, i, n)
         /\ \A op \in DOMAIN table : (\A i \in paid : op # <<t, i>>) =>
              PutUTXOs(table, t, n, paid)[op] = table[op]
BY DEF PutUTXOs, Over

LEMMA PutSpendings ==
  ASSUME NEW table, NEW t, NEW n, NEW spends
  PROVE  /\ \A op : op \in DOMAIN PutSTXOs(table, t, n, spends)
                      <=> op \in spends \/ op \in DOMAIN table
         /\ \A op \in spends : PutSTXOs(table, t, n, spends)[op] = NewSTXO(op, n, t)
         /\ \A op \in DOMAIN table \ spends :
              PutSTXOs(table, t, n, spends)[op] = table[op]
BY DEF PutSTXOs, Over

-----------------------------------------------------------------------------
(* Types.                                                                  *)

(* Initially there is the genesis block and the main address.              *)
LEMMA InitTypes == Init => Types
<1> SUFFICES ASSUME Init PROVE Types
  OBVIOUS
<1>1. DOMAIN utxos = {} /\ DOMAIN stxos = {} /\ DOMAIN txs = {} /\ DOMAIN fork = {}
  BY DEF Init
<1>2. /\ batch = NoBatch /\ DOMAIN batch.utxos = {} /\ DOMAIN batch.stxos = {}
      /\ DOMAIN batch.txs = {}
      /\ DOMAIN batch = {"utxos", "stxos", "txs"}
  BY DEF Init, NoBatch
<1>3. job \in Job /\ job.pc = "idle" /\ client.pc = "idle" /\ "pc" \in DOMAIN client
  BY DEF Init, Job, Idle
<1>4. TypeOK
  BY <1>1, <1>3, TreeAssumption DEF Init, TypeOK
<1>5. Working
  BY <1>2, <1>3, TreeAssumption, WalletAssumption DEF Init, Working
<1> QED
  BY <1>4, <1>5 DEF Types

(* The coins a transaction spends and the outputs it is paid to, as found  *)
(* in the tables and the filter.                                           *)
LEMMA SpendsPaid ==
  ASSUME NEW t
  PROVE  /\ Spends(t) \subseteq Tx[t].ins /\ Spends(t) \subseteq DOMAIN utxos
         /\ Paid(t) \subseteq DOMAIN Tx[t].outs
BY DEF Spends, Paid, GetUTXO

(* What a put leaves in the batch.                                         *)
LEMMA PutTxTypes ==
  ASSUME Types, PutTx
  PROVE  Types'
<1> USE DEF chain, coins, past
<1>1. /\ job \in [pc : {"put"}, left : Seq(Hash), old : stored]
      /\ Head(job.left) \in Hash /\ Tail(job.left) \in Seq(Hash)
  <2>1. job \in [pc : {"put"}, left : Seq(Hash), old : stored]
    <3>1. job \in Job /\ job.pc = "put"
      BY DEF PutTx, Putting, Types, Working
    <3> QED
      BY <3>1 DEF Job, Idle
  <2>2. job.left \in Seq(Hash) /\ job.left # <<>>
    BY <2>1 DEF PutTx
  <2>3. Head(job.left) \in Hash /\ Tail(job.left) \in Seq(Hash)
    BY <2>2, HeadTailProperties
  <2> QED
    BY <2>1, <2>3
<1>2. job' \in [pc : {"put"}, left : Seq(Hash), old : stored']
  <2>1. job' = [job EXCEPT !.left = Tail(job.left)] /\ stored' = stored
    BY DEF PutTx
  <2> QED
    BY <1>1, <2>1
<1> PICK t \in Hash : t = Head(job.left)
  BY <1>1
<1>3. {<<t, i>> : i \in Paid(t)} \subseteq OutPoint /\ Spends(t) \subseteq OutPoint
  BY <1>1, SpendsPaid DEF OutPoint, Types, TypeOK
<1>4. /\ DOMAIN batch' = {"utxos", "stxos", "txs"}
      /\ DOMAIN batch'.utxos \subseteq OutPoint /\ DOMAIN batch'.stxos \subseteq OutPoint
      /\ DOMAIN batch'.txs \subseteq Hash
  <2>1. CASE batch' = Saved(batch, t, Height[tip], Spends(t), Paid(t))
    <3> DEFINE n == Height[tip]
    <3>1. /\ batch'.utxos = PutUTXOs(batch.utxos, t, n, Paid(t))
          /\ batch'.stxos = PutSTXOs(batch.stxos, t, n, Spends(t))
          /\ batch'.txs = IF Spends(t) = {} /\ Paid(t) = {} THEN batch.txs
                          ELSE Over(Row(t, n), batch.txs)
          /\ DOMAIN batch' = {"utxos", "stxos", "txs"}
      BY <2>1 DEF Saved
    <3> HIDE DEF n
    <3>2. DOMAIN batch'.utxos \subseteq OutPoint
      BY <1>3, <3>1, PutCoins DEF Types, Working
    <3>3. DOMAIN batch'.stxos \subseteq OutPoint
      BY <1>3, <3>1, PutSpendings DEF Types, Working
    <3>4. DOMAIN batch'.txs \subseteq Hash
      BY <1>1, <3>1, OverRow DEF Types, Working
    <3> QED
      BY <3>1, <3>2, <3>3, <3>4
  <2>2. CASE \E done \in SUBSET Spends(t) :
               batch' = [batch EXCEPT !.stxos = PutSTXOs(@, t, Height[tip], done)]
    <3>1. PICK done \in SUBSET Spends(t) :
            batch' = [batch EXCEPT !.stxos = PutSTXOs(batch.stxos, t, Height[tip], done)]
      BY <2>2
    <3>2. /\ batch'.utxos = batch.utxos /\ batch'.txs = batch.txs
          /\ batch'.stxos = PutSTXOs(batch.stxos, t, Height[tip], done)
          /\ DOMAIN batch' = {"utxos", "stxos", "txs"}
      BY <3>1 DEF Types, Working
    <3>3. DOMAIN PutSTXOs(batch.stxos, t, Height[tip], done) \subseteq OutPoint
      BY <1>3, PutSpendings DEF Types, Working
    <3> QED
      BY <3>2, <3>3 DEF Types, Working
  <2> QED
    BY <2>1, <2>2 DEF PutTx
<1>5. TypeOK'
  BY <1>2 DEF PutTx, Types, TypeOK
<1>6. Working'
  BY <1>2, <1>4 DEF PutTx, Types, Working, Job
<1> QED
  BY <1>5, <1>6 DEF Types

(* NoBatch is a batch.                                                     *)
LEMMA NoBatchTyped ==
  /\ DOMAIN NoBatch = {"utxos", "stxos", "txs"}
  /\ DOMAIN NoBatch.utxos = {} /\ DOMAIN NoBatch.stxos = {}
  /\ DOMAIN NoBatch.txs = {}
BY DEF NoBatch

(* Every step keeps the types.                                             *)
LEMMA NextTypes ==
  ASSUME Types, [Next]_vars
  PROVE  Types'
<1> USE DEF chain, coins, past
<1>0. /\ tip \in Block /\ tip \in stored
      /\ \A S \in SUBSET addrs : S # None
  BY NoneAssumption DEF Types, TypeOK, Working
<1>1. CASE getAddrFilter
  BY <1>0, <1>1, NoneAssumption
  DEF getAddrFilter, StartLoad, GetAllAddrs, Types, TypeOK, Working, Job
<1>2. ASSUME NEW a \in Addr, loadAddrFilter(a)
      PROVE  Types'
  <2>1. /\ loading # None /\ a \in loading /\ loading \subseteq addrs
        /\ filter # None /\ filter \subseteq addrs /\ a \in addrs
    BY <1>2 DEF loadAddrFilter, Types, TypeOK, Working
  <2>2. /\ filter' = filter \cup {a} /\ known' = known \cup {a}
        /\ filter' \subseteq addrs /\ known' \subseteq addrs
        /\ loading' = None \/ loading' \subseteq addrs
        /\ filter' # None
    BY <1>0, <1>2, <2>1 DEF loadAddrFilter, AddAddr, Types, Working
  <2>3. TypeOK'
    BY <1>2, <2>2 DEF loadAddrFilter, Types, TypeOK
  <2>4. Working'
    BY <1>2, <2>2 DEF loadAddrFilter, Types, Working, Job
  <2> QED
    BY <2>3, <2>4 DEF Types
<1>3. ASSUME NEW a \in Addr, AddAddress(a)
      PROVE  Types'
  <2>1. client' = [pc |-> "notify"] /\ client'.pc = "notify" /\ "pc" \in DOMAIN client'
    BY <1>3 DEF AddAddress
  <2>2. TypeOK'
    BY <1>3, <2>1 DEF AddAddress, Types, TypeOK
  <2>3. Working'
    BY <1>3, <2>1 DEF AddAddress, Types, Working, Job
  <2> QED
    BY <2>2, <2>3 DEF Types
<1>4. CASE notifyNewAddress
  <2>1. client'.pc = "idle" /\ "pc" \in DOMAIN client'
    BY <1>4 DEF notifyNewAddress, Idle
  <2>2. CASE StartLoad
    BY <1>0, <1>4, <2>1, <2>2
    DEF notifyNewAddress, StartLoad, GetAllAddrs, Types, TypeOK, Working, Job
  <2>3. CASE UNCHANGED <<filter, loading>>
    BY <1>4, <2>1, <2>3 DEF notifyNewAddress, Types, TypeOK, Working, Job
  <2> QED
    BY <1>4, <2>2, <2>3 DEF notifyNewAddress
<1>5. CASE PutTx
  BY <1>5, PutTxTypes
<1>6. CASE Commit
  <2>1. /\ DOMAIN utxos' \subseteq OutPoint /\ DOMAIN stxos' \subseteq OutPoint
        /\ DOMAIN txs' \subseteq Hash
    BY <1>6, OverRows DEF Commit, Types, TypeOK, Working
  <2>2. /\ job.pc = "put" /\ job.old \in stored
    BY <1>6 DEF Commit, Putting, Types, Working, Job, Idle
  <2>3. /\ job' \in Job /\ job'.pc \in {"idle", "detach"} /\ notices' \subseteq Block
    BY <1>0, <1>6, <2>2 DEF Commit, AfterPut, Answer, Types, TypeOK, Job, Idle
  <2>4. TypeOK'
    BY <1>6, <2>1, <2>3 DEF Commit, Types, TypeOK
  <2>5. Working'
    BY <1>6, <2>3, NoBatchTyped DEF Commit, Types, Working, Job
  <2> QED
    BY <2>4, <2>5 DEF Types
<1>7. CASE CommitFails
  <2>1. /\ job' \in Job /\ job'.pc = "idle" /\ notices' \subseteq Block
    BY <1>0, <1>7 DEF CommitFails, Answer, Types, TypeOK, Job, Idle
  <2>2. TypeOK'
    BY <1>7, <2>1 DEF CommitFails, Types, TypeOK
  <2>3. Working'
    BY <1>7, <2>1, NoBatchTyped DEF CommitFails, Types, Working, Job
  <2> QED
    BY <2>2, <2>3 DEF Types
<1>8. CASE DelTxs
  <2>1. job.pc = "detach" /\ job.old \in stored /\ batch = NoBatch
    BY <1>8 DEF DelTxs, Types, Working, Job, Idle
  <2>2. /\ job' \in Job /\ job'.pc = "idle" /\ notices' \subseteq Block
    BY <1>0, <1>8 DEF DelTxs, Answer, Types, TypeOK, Job, Idle
  <2>3. DOMAIN fork' \subseteq stored
    BY <1>8, <2>1, OverRow DEF DelTxs, PutForkTxs, Types, TypeOK
  <2>4. TypeOK'
    BY <1>8, <2>2, <2>3 DEF DelTxs, Types, TypeOK
  <2>5. Working'
    BY <1>8, <2>1, <2>2, NoBatchTyped DEF DelTxs, Types, Working, Job
  <2> QED
    BY <2>4, <2>5 DEF Types
<1>9. CASE Restart
  <2>1. job' \in Job' /\ job'.pc = "idle"
    BY <1>9 DEF Restart, Job, Idle
  <2>2. TypeOK'
    BY <1>9, <2>1 DEF Restart, Types, TypeOK
  <2>3. Working'
    BY <1>9, <2>1, NoBatchTyped DEF Restart, Types, Working
  <2> QED
    BY <2>2, <2>3 DEF Types
<1>10. ASSUME NEW b \in Block \ {Genesis}, CommitBlock(b)
       PROVE  Types'
  <2>1. /\ stored' = stored \cup {b} /\ stored' \subseteq Block
        /\ job = Idle /\ job.pc = "idle" /\ batch = NoBatch
    BY <1>10 DEF CommitBlock, Types, TypeOK, Working, Idle
  <2>2. CASE Height[b] > Height[tip]
    <3>1. /\ tip' = b /\ job' = [pc |-> "put", left |-> BlockTxs[b], old |-> tip]
          /\ UNCHANGED <<fork, notices>>
      <4>1. ~(Height[b] <= Height[tip])
        BY <1>0, <2>2, WalletAssumption, TreeAssumption
      <4> QED
        BY <1>10, <4>1, Zenon DEF CommitBlock
    <3>2. job' \in Job' /\ job'.pc = "put"
      <4>1. BlockTxs[b] \in Seq(Hash) /\ tip \in stored'
        BY <1>0, <2>1, WalletAssumption DEF Hash
      <4> QED
        BY <3>1, <4>1 DEF Job
    <3>3. TypeOK'
      BY <1>10, <2>1, <3>1, <3>2 DEF CommitBlock, Types, TypeOK
    <3>4. Working'
      BY <1>10, <3>2 DEF CommitBlock, Types, Working
    <3> QED
      BY <3>3, <3>4 DEF Types
  <2>3. CASE ~(Height[b] > Height[tip])
    <3>1. /\ tip' = tip /\ Answer(b)
          /\ PutForkTxs(b, {BlockTxs[b][i] : i \in DOMAIN BlockTxs[b]})
      BY <1>10, <2>3 DEF CommitBlock
    <3>2. job' \in Job' /\ job'.pc = "idle" /\ notices' \subseteq Block
      BY <3>1 DEF Answer, Types, TypeOK, Job, Idle
    <3>3. DOMAIN fork' \subseteq stored'
      BY <2>1, <3>1, OverRow DEF PutForkTxs, Types, TypeOK
    <3>4. TypeOK'
      BY <1>10, <2>1, <3>1, <3>2, <3>3 DEF CommitBlock, Types, TypeOK
    <3>5. Working'
      BY <1>10, <2>1, <3>2 DEF CommitBlock, Types, Working
    <3> QED
      BY <3>4, <3>5 DEF Types
  <2> QED
    BY <2>2, <2>3
<1>11. ASSUME NEW b \in Block \ {Genesis}, Refuse(b)
       PROVE  Types'
  <2>1. /\ job = Idle /\ batch = NoBatch /\ notices' \subseteq Block
        /\ job' \in Job' /\ job'.pc = "idle"
    BY <1>11 DEF Refuse, Answer, Types, TypeOK, Working, Job, Idle
  <2>2. TypeOK'
    BY <1>11, <2>1 DEF Refuse, Types, TypeOK
  <2>3. Working'
    BY <1>11, <2>1 DEF Refuse, Types, Working
  <2> QED
    BY <2>2, <2>3 DEF Types
<1>12. ASSUME NEW b \in Block, NEW current \in BOOLEAN, BlockCommitted(b, current)
       PROVE  Types'
  <2>1. height' \in {Height[c] : c \in Block}
    BY <1>12 DEF BlockCommitted, Types, TypeOK
  <2>2. client'.pc = client.pc /\ "pc" \in DOMAIN client'
    BY <1>12 DEF BlockCommitted, Types, Working
  <2>3. TypeOK'
    BY <1>12, <2>1, <2>2 DEF BlockCommitted, Types, TypeOK
  <2>4. Working'
    BY <1>12, <2>2 DEF BlockCommitted, Types, Working, Job
  <2> QED
    BY <2>3, <2>4 DEF Types
<1>13. ASSUME NEW p \in Payment, GetAddressUTXOs(p)
       PROVE  Types'
  <2>1. client'.pc = "coins" /\ "pc" \in DOMAIN client'
    BY <1>13 DEF GetAddressUTXOs
  <2> QED
    BY <1>13, <2>1 DEF GetAddressUTXOs, Types, TypeOK, Working, Job
<1>14. CASE SelectCoins
  <2>1. client'.pc = "selected" /\ "pc" \in DOMAIN client'
    BY <1>14 DEF SelectCoins
  <2> QED
    BY <1>14, <2>1 DEF SelectCoins, Types, TypeOK, Working, Job
<1>15. CASE newTransaction
  <2>1. client'.pc = "idle" /\ "pc" \in DOMAIN client'
    BY <1>15 DEF newTransaction, Idle
  <2> QED
    BY <1>15, <2>1 DEF newTransaction, Types, TypeOK, Working, Job
<1>16. CASE UNCHANGED vars
  BY <1>16 DEF vars, Types, TypeOK, Working, Job
<1> QED
  BY <1>1, <1>2, <1>3, <1>4, <1>5, <1>6, <1>7, <1>8, <1>9, <1>10, <1>11, <1>12,
     <1>13, <1>14, <1>15, <1>16 DEF Next

-----------------------------------------------------------------------------
(* Agreement.                                                              *)

(* A coin, stored or about to be, is there, and its address is one the     *)
(* filter has, or will have when it is loaded.                             *)
CoinsLoaded ==
  /\ \A op \in DOMAIN utxos : utxos[op] # None
  /\ \A op \in DOMAIN batch.utxos : batch.utxos[op] # None
  /\ \A op \in DOMAIN utxos \cup DOMAIN batch.utxos :
       /\ Output(op).addr \in addrs
       /\ filter # None => \/ Output(op).addr \in filter
                           \/ loading # None /\ Output(op).addr \in loading

(* Everything in the batch is of the height of the tip.                    *)
BatchAtTip ==
  /\ \A t \in DOMAIN batch.txs : batch.txs[t] = Height[tip]
  /\ \A op \in DOMAIN batch.utxos : batch.utxos[op].at = Height[tip]
  /\ \A op \in DOMAIN batch.stxos :
       LET s == batch.stxos[op] IN
       /\ s.spendHeight = Height[tip] /\ op \in DOMAIN utxos
       /\ op \in Tx[s.spendTx].ins

(* The batch holds the transactions of its coins and spendings, and of     *)
(* each transaction every row that the tables have of it.                  *)
BatchCovers ==
  Clean =>
  /\ \A op \in DOMAIN batch.utxos : op[1] \in DOMAIN batch.txs
  /\ \A op \in DOMAIN batch.stxos : batch.stxos[op].spendTx \in DOMAIN batch.txs
  /\ \A op \in DOMAIN utxos : op[1] \in DOMAIN batch.txs => op \in DOMAIN batch.utxos
  /\ \A op \in DOMAIN stxos :
       stxos[op].spendTx \in DOMAIN batch.txs => op \in DOMAIN batch.stxos

Agree == CoinsLoaded /\ BatchAtTip /\ BatchCovers /\ TablesAgree

(* Initially the tables and the batch are empty.                           *)
LEMMA InitAgree == Init => Agree
<1> SUFFICES ASSUME Init PROVE Agree
  OBVIOUS
<1>1. /\ DOMAIN utxos = {} /\ DOMAIN stxos = {} /\ DOMAIN txs = {}
      /\ DOMAIN batch.utxos = {} /\ DOMAIN batch.stxos = {} /\ DOMAIN batch.txs = {}
  BY NoBatchTyped DEF Init
<1> QED
  BY <1>1 DEF Agree, CoinsLoaded, BatchAtTip, BatchCovers, TablesAgree

(* An empty batch agrees with any tables.                                  *)
LEMMA EmptyBatch ==
  ASSUME batch = NoBatch
  PROVE  BatchAtTip /\ BatchCovers
BY NoBatchTyped DEF BatchAtTip, BatchCovers

(* An outpoint is that of an output.                                       *)
LEMMA OutPointParts ==
  ASSUME NEW op \in OutPoint
  PROVE  op = <<op[1], op[2]>> /\ op[1] \in Hash /\ op[2] \in DOMAIN Tx[op[1]].outs
BY DEF OutPoint

(* A transaction that is put: the rows that it gets, among them every row  *)
(* the tables had of it if the filter was loaded.                          *)
LEMMA PutTxAgree ==
  ASSUME Types, Agree, PutTx
  PROVE  Agree'
<1> USE DEF chain, coins, past
<1> DEFINE n == Height[tip]
<1>1. job.left \in Seq(Hash) /\ job.left # <<>> /\ job.pc = "put"
  <2>1. job \in Job /\ job.pc = "put" /\ job.left # <<>>
    BY DEF PutTx, Putting, Types, Working
  <2> QED
    BY <2>1 DEF Job, Idle
<1>2. PICK t \in Hash : t = Head(job.left)
  BY <1>1, HeadTailProperties
<1>3. /\ filter # None /\ filter \subseteq addrs /\ tip \in Block
      /\ UNCHANGED <<stored, tip, addrs, utxos, stxos, txs, filter, loading>>
      /\ wrong \subseteq wrong'
      /\ loading # None => "loading" \in wrong'
  BY <1>2 DEF PutTx, Types, TypeOK, Working
<1>4. /\ \A i \in Paid(t) : /\ i \in DOMAIN Tx[t].outs
                            /\ Tx[t].outs[i].addr \in filter
                            /\ Output(<<t, i>>) = Tx[t].outs[i]
                            /\ NewUTXO(t, i, n) # None /\ NewUTXO(t, i, n).at = n
      /\ \A op \in Spends(t) : /\ op \in DOMAIN utxos /\ op \in Tx[t].ins
                               /\ NewSTXO(op, n, t).spendHeight = n
                               /\ NewSTXO(op, n, t).spendTx = t
  <2>1. \A i \in Paid(t) : i \in DOMAIN Tx[t].outs /\ Tx[t].outs[i].addr \in filter
    BY DEF Paid, ContainAddr
  <2>2. \A i \in Paid(t) : NewUTXO(t, i, n) # None
    BY <1>2, <1>3, <2>1, NoneAssumption
  <2>3. \A i \in Paid(t) : NewUTXO(t, i, n).at = n /\ Output(<<t, i>>) = Tx[t].outs[i]
    BY DEF NewUTXO, Output
  <2>4. \A op \in Spends(t) : /\ NewSTXO(op, n, t).spendHeight = n
                              /\ NewSTXO(op, n, t).spendTx = t
    BY DEF NewSTXO
  <2> QED
    BY <2>1, <2>2, <2>3, <2>4, SpendsPaid
<1> HIDE DEF n
<1>5. TablesAgree' /\ (Clean' => Clean)
  BY <1>3 DEF Agree, TablesAgree, Clean
<1>6. CASE batch' = Saved(batch, t, n, Spends(t), Paid(t))
  <2>1. /\ batch'.utxos = PutUTXOs(batch.utxos, t, n, Paid(t))
        /\ batch'.stxos = PutSTXOs(batch.stxos, t, n, Spends(t))
        /\ batch'.txs = IF Spends(t) = {} /\ Paid(t) = {} THEN batch.txs
                        ELSE Over(Row(t, n), batch.txs)
    BY <1>6 DEF Saved
  <2>2. /\ \A op : op \in DOMAIN batch'.utxos
                     <=> (\E i \in Paid(t) : op = <<t, i>>) \/ op \in DOMAIN batch.utxos
        /\ \A i \in Paid(t) : batch'.utxos[<<t, i>>] = NewUTXO(t, i, n)
        /\ \A op \in DOMAIN batch.utxos : (\A i \in Paid(t) : op # <<t, i>>) =>
             batch'.utxos[op] = batch.utxos[op]
    BY <2>1, PutCoins
  <2>3. /\ \A op : op \in DOMAIN batch'.stxos
                     <=> op \in Spends(t) \/ op \in DOMAIN batch.stxos
        /\ \A op \in Spends(t) : batch'.stxos[op] = NewSTXO(op, n, t)
        /\ \A op \in DOMAIN batch.stxos \ Spends(t) :
             batch'.stxos[op] = batch.stxos[op]
    BY <2>1, PutSpendings
  <2>4. /\ \A u : u \in DOMAIN batch'.txs
                    <=> \/ u = t /\ ~(Spends(t) = {} /\ Paid(t) = {})
                        \/ u \in DOMAIN batch.txs
        /\ \A u \in DOMAIN batch'.txs :
             batch'.txs[u] = n \/ (u \in DOMAIN batch.txs /\ batch'.txs[u] = batch.txs[u])
    BY <2>1, OverRow
  <2>5. CoinsLoaded'
    <3>1. \A op \in DOMAIN batch'.utxos : batch'.utxos[op] # None
      BY <1>4, <2>2 DEF Agree, CoinsLoaded
    <3>2. ASSUME NEW op \in DOMAIN utxos' \cup DOMAIN batch'.utxos
          PROVE  /\ Output(op).addr \in addrs
                 /\ \/ Output(op).addr \in filter
                    \/ loading # None /\ Output(op).addr \in loading
      <4>1. CASE op \in DOMAIN utxos \cup DOMAIN batch.utxos
        BY <1>3, <4>1 DEF Agree, CoinsLoaded
      <4>2. CASE \E i \in Paid(t) : op = <<t, i>>
        BY <1>3, <1>4, <4>2
      <4> QED
        BY <1>3, <2>2, <3>2, <4>1, <4>2
    <3> QED
      BY <1>3, <3>1, <3>2 DEF Agree, CoinsLoaded
  <2>6. BatchAtTip'
    <3>1. \A u \in DOMAIN batch'.txs : batch'.txs[u] = n
      BY <2>4 DEF Agree, BatchAtTip, n
    <3>2. \A op \in DOMAIN batch'.utxos : batch'.utxos[op].at = n
      BY <1>4, <2>2 DEF Agree, BatchAtTip, n
    <3>3. \A op \in DOMAIN batch'.stxos :
            /\ batch'.stxos[op].spendHeight = n /\ op \in DOMAIN utxos
            /\ op \in Tx[batch'.stxos[op].spendTx].ins
      BY <1>4, <2>3 DEF Agree, BatchAtTip, n
    <3> QED
      BY <1>3, <3>1, <3>2, <3>3 DEF BatchAtTip, n
  <2>7. ASSUME Clean' PROVE BatchCovers'
    <3>0. Clean /\ loading = None
      BY <1>3, <1>5, <2>7 DEF Clean
    <3>1. \A op \in DOMAIN batch'.utxos : op[1] \in DOMAIN batch'.txs
      BY <2>2, <2>4, <3>0 DEF Agree, BatchCovers
    <3>2. \A op \in DOMAIN batch'.stxos : batch'.stxos[op].spendTx \in DOMAIN batch'.txs
      BY <1>4, <2>3, <2>4, <3>0 DEF Agree, BatchCovers
    <3>3. ASSUME NEW op \in DOMAIN utxos, op[1] \in DOMAIN batch'.txs
          PROVE  op \in DOMAIN batch'.utxos
      <4>1. CASE op[1] \in DOMAIN batch.txs
        BY <2>2, <3>0, <4>1 DEF Agree, BatchCovers
      <4>2. CASE op[1] = t
        <5>1. op = <<t, op[2]>> /\ op[2] \in DOMAIN Tx[t].outs
          BY <4>2, OutPointParts DEF Types, TypeOK
        <5>2. Output(op).addr \in filter
          BY <1>3, <3>0 DEF Agree, CoinsLoaded
        <5>3. op[2] \in Paid(t)
          BY <4>2, <5>1, <5>2 DEF Output, Paid, ContainAddr
        <5> QED
          BY <2>2, <5>1, <5>3
      <4> QED
        BY <2>4, <3>3, <4>1, <4>2
    <3>4. ASSUME NEW op \in DOMAIN stxos, stxos[op].spendTx \in DOMAIN batch'.txs
          PROVE  op \in DOMAIN batch'.stxos
      <4>1. CASE stxos[op].spendTx \in DOMAIN batch.txs
        BY <2>3, <3>0, <4>1 DEF Agree, BatchCovers
      <4>2. CASE stxos[op].spendTx = t
        <5>1. op \in DOMAIN utxos /\ op \in Tx[t].ins
          BY <3>0, <4>2 DEF Agree, TablesAgree, Clean
        <5>2. op \in Spends(t)
          BY <5>1 DEF Spends, GetUTXO, Agree, CoinsLoaded
        <5> QED
          BY <2>3, <5>2
      <4> QED
        BY <2>4, <3>4, <4>1, <4>2
    <3> QED
      BY <1>3, <3>1, <3>2, <3>3, <3>4 DEF BatchCovers
  <2>8. BatchCovers'
    BY <2>7 DEF BatchCovers
  <2> QED
    BY <1>5, <2>5, <2>6, <2>8 DEF Agree
<1>7. CASE /\ "cut short" \in wrong'
           /\ \E done \in SUBSET Spends(t) :
                batch' = [batch EXCEPT !.stxos = PutSTXOs(batch.stxos, t, n, done)]
  <2>1. PICK done \in SUBSET Spends(t) :
          batch' = [batch EXCEPT !.stxos = PutSTXOs(batch.stxos, t, n, done)]
    BY <1>7
  <2>2. /\ batch'.utxos = batch.utxos /\ batch'.txs = batch.txs
        /\ batch'.stxos = PutSTXOs(batch.stxos, t, n, done)
    BY <2>1 DEF Types, Working
  <2>3. /\ \A op : op \in DOMAIN batch'.stxos <=> op \in done \/ op \in DOMAIN batch.stxos
        /\ \A op \in done : batch'.stxos[op] = NewSTXO(op, n, t)
        /\ \A op \in DOMAIN batch.stxos \ done : batch'.stxos[op] = batch.stxos[op]
    BY <2>2, PutSpendings
  <2>4. CoinsLoaded'
    BY <1>3, <2>2 DEF Agree, CoinsLoaded
  <2>5. BatchAtTip'
    <3>1. \A op \in DOMAIN batch'.stxos :
            /\ batch'.stxos[op].spendHeight = n /\ op \in DOMAIN utxos
            /\ op \in Tx[batch'.stxos[op].spendTx].ins
      BY <1>4, <2>3 DEF Agree, BatchAtTip, n
    <3> QED
      BY <1>3, <2>2, <3>1 DEF Agree, BatchAtTip, n
  <2>6. BatchCovers'
    BY <1>7 DEF BatchCovers, Clean
  <2> QED
    BY <1>5, <2>4, <2>5, <2>6 DEF Agree
<1> QED
  BY <1>2, <1>6, <1>7 DEF PutTx, n

(* The batch replaces all rows of its transactions or none.                *)
LEMMA CommitAgree ==
  ASSUME Types, Agree, Commit
  PROVE  Agree'
<1> USE DEF chain, coins, past
<1>1. /\ batch' = NoBatch /\ UNCHANGED <<addrs, filter, loading, wrong, tip>>
      /\ utxos' = Over(batch.utxos, utxos) /\ stxos' = Over(batch.stxos, stxos)
      /\ txs' = Over(batch.txs, txs)
  BY DEF Commit
<1>2. /\ \A op : op \in DOMAIN utxos'
                   <=> op \in DOMAIN batch.utxos \/ op \in DOMAIN utxos
      /\ \A op \in DOMAIN batch.utxos : utxos'[op] = batch.utxos[op]
      /\ \A op \in DOMAIN utxos \ DOMAIN batch.utxos : utxos'[op] = utxos[op]
  BY <1>1, OverRows
<1>3. /\ \A op : op \in DOMAIN stxos'
                   <=> op \in DOMAIN batch.stxos \/ op \in DOMAIN stxos
      /\ \A op \in DOMAIN batch.stxos : stxos'[op] = batch.stxos[op]
      /\ \A op \in DOMAIN stxos \ DOMAIN batch.stxos : stxos'[op] = stxos[op]
  BY <1>1, OverRows
<1>4. /\ \A t : t \in DOMAIN txs' <=> t \in DOMAIN batch.txs \/ t \in DOMAIN txs
      /\ \A t \in DOMAIN batch.txs : txs'[t] = batch.txs[t]
      /\ \A t \in DOMAIN txs \ DOMAIN batch.txs : txs'[t] = txs[t]
  BY <1>1, OverRows
<1>5. BatchAtTip' /\ BatchCovers'
  BY <1>1, EmptyBatch, NoBatchTyped DEF BatchAtTip, BatchCovers
<1>6. CoinsLoaded'
  <2>1. \A op \in DOMAIN utxos' : utxos'[op] # None
    BY <1>2 DEF Agree, CoinsLoaded
  <2>2. DOMAIN batch'.utxos = {}
    BY <1>1, NoBatchTyped
  <2> QED
    BY <1>1, <1>2, <2>1, <2>2 DEF Agree, CoinsLoaded
<1>7. ASSUME Clean' PROVE TablesAgree'
  <2>0. Clean
    BY <1>1, <1>7 DEF Clean
  <2>1. ASSUME NEW op \in DOMAIN utxos'
        PROVE  op[1] \in DOMAIN txs' /\ txs'[op[1]] = utxos'[op].at
    <3>1. CASE op \in DOMAIN batch.utxos
      BY <1>2, <1>4, <2>0, <3>1 DEF Agree, BatchAtTip, BatchCovers
    <3>2. CASE op \in DOMAIN utxos \ DOMAIN batch.utxos
      <4>1. op[1] \notin DOMAIN batch.txs
        BY <2>0, <3>2 DEF Agree, BatchCovers
      <4>2. op[1] \in DOMAIN txs /\ txs[op[1]] = utxos[op].at
        BY <2>0, <3>2 DEF Agree, TablesAgree, Clean
      <4> QED
        BY <1>2, <1>4, <3>2, <4>1, <4>2
    <3> QED
      BY <1>2, <2>1, <3>1, <3>2
  <2>2. ASSUME NEW op \in DOMAIN stxos'
        PROVE  /\ op \in DOMAIN utxos' /\ op \in Tx[stxos'[op].spendTx].ins
               /\ stxos'[op].spendTx \in DOMAIN txs'
               /\ txs'[stxos'[op].spendTx] = stxos'[op].spendHeight
    <3>1. CASE op \in DOMAIN batch.stxos
      <4>1. /\ op \in DOMAIN utxos /\ op \in Tx[batch.stxos[op].spendTx].ins
            /\ batch.stxos[op].spendHeight = Height[tip]
        BY <3>1 DEF Agree, BatchAtTip
      <4>2. /\ batch.stxos[op].spendTx \in DOMAIN batch.txs
            /\ batch.txs[batch.stxos[op].spendTx] = Height[tip]
        BY <2>0, <3>1 DEF Agree, BatchAtTip, BatchCovers
      <4> QED
        BY <1>2, <1>3, <1>4, <3>1, <4>1, <4>2
    <3>2. CASE op \in DOMAIN stxos \ DOMAIN batch.stxos
      <4>1. stxos[op].spendTx \notin DOMAIN batch.txs
        BY <2>0, <3>2 DEF Agree, BatchCovers
      <4>2. /\ op \in DOMAIN utxos /\ op \in Tx[stxos[op].spendTx].ins
            /\ stxos[op].spendTx \in DOMAIN txs
            /\ txs[stxos[op].spendTx] = stxos[op].spendHeight
        BY <2>0, <3>2 DEF Agree, TablesAgree, Clean
      <4> QED
        BY <1>2, <1>3, <1>4, <3>2, <4>1, <4>2
    <3> QED
      BY <1>3, <2>2, <3>1, <3>2
  <2> QED
    BY <2>1, <2>2 DEF TablesAgree
<1>8. TablesAgree'
  BY <1>7 DEF TablesAgree, Clean
<1> QED
  BY <1>5, <1>6, <1>8 DEF Agree

(* A step that leaves the tables and the batch alone.                      *)
LEMMA SameTables ==
  ASSUME Agree, UNCHANGED <<utxos, stxos, txs>>, wrong \subseteq wrong',
         UNCHANGED <<batch, tip>> \/ batch' = NoBatch,
         addrs \subseteq addrs',
         \A a \in addrs : (filter # None => a \in filter \/ (loading # None /\ a \in loading))
                          => (filter' # None => a \in filter' \/ (loading' # None /\ a \in loading'))
  PROVE  Agree'
<1>1. TablesAgree' /\ (Clean' => Clean)
  BY DEF Agree, TablesAgree, Clean
<1>2. CASE UNCHANGED <<batch, tip>>
  <2>1. BatchAtTip' /\ BatchCovers'
    BY <1>1, <1>2 DEF Agree, BatchAtTip, BatchCovers
  <2>2. CoinsLoaded'
    BY <1>2 DEF Agree, CoinsLoaded
  <2> QED
    BY <1>1, <2>1, <2>2 DEF Agree
<1>3. CASE batch' = NoBatch
  <2>1. BatchAtTip' /\ BatchCovers'
    BY <1>3, NoBatchTyped DEF BatchAtTip, BatchCovers
  <2>2. DOMAIN batch'.utxos = {}
    BY <1>3, NoBatchTyped
  <2>3. CoinsLoaded'
    BY <2>2 DEF Agree, CoinsLoaded
  <2> QED
    BY <1>1, <2>1, <2>3 DEF Agree
<1> QED
  BY <1>2, <1>3

(* Every step keeps the agreement.                                         *)
LEMMA NextAgree ==
  ASSUME Types, Agree, [Next]_vars
  PROVE  Agree'
<1> USE DEF chain, coins, past
<1>0. \A S \in SUBSET addrs : S # None
  BY NoneAssumption DEF Types, Working
<1>1. CASE getAddrFilter \/ notifyNewAddress
  BY <1>0, <1>1, SameTables DEF getAddrFilter, notifyNewAddress, StartLoad, GetAllAddrs
<1>2. ASSUME NEW a \in Addr, loadAddrFilter(a)
      PROVE  Agree'
  <2>1. loading # None /\ filter # None /\ filter' = filter \cup {a}
    BY <1>2 DEF loadAddrFilter, AddAddr, Types, TypeOK
  <2>2. \A c \in addrs : (c \in filter \/ c \in loading)
                           => c \in filter' \/ (loading' # None /\ c \in loading')
    BY <1>0, <1>2, <2>1 DEF loadAddrFilter, Types, Working
  <2> QED
    BY <1>2, <2>1, <2>2, SameTables DEF loadAddrFilter
<1>3. ASSUME NEW a \in Addr, AddAddress(a)
      PROVE  Agree'
  BY <1>3, SameTables DEF AddAddress
<1>4. CASE PutTx
  BY <1>4, PutTxAgree
<1>5. CASE Commit
  BY <1>5, CommitAgree
<1>6. CASE CommitFails
  BY <1>6, SameTables DEF CommitFails
<1>7. CASE DelTxs
  BY <1>7, SameTables DEF DelTxs
<1>8. CASE Restart
  BY <1>8, SameTables DEF Restart
<1>9. ASSUME NEW b \in Block \ {Genesis}, CommitBlock(b) \/ Refuse(b)
      PROVE  Agree'
  <2>1. batch' = NoBatch
    BY <1>9 DEF CommitBlock, Refuse, Types, Working, Idle
  <2> QED
    BY <1>9, <2>1, SameTables DEF CommitBlock, Refuse
<1>10. ASSUME NEW b \in Block, NEW current \in BOOLEAN, BlockCommitted(b, current)
       PROVE  Agree'
  BY <1>10, SameTables DEF BlockCommitted
<1>11. ASSUME NEW p \in Payment, GetAddressUTXOs(p)
       PROVE  Agree'
  BY <1>11, SameTables DEF GetAddressUTXOs
<1>12. CASE SelectCoins
  BY <1>12, SameTables DEF SelectCoins
<1>13. CASE newTransaction
  BY <1>13, SameTables DEF newTransaction
<1>14. CASE UNCHANGED vars
  BY <1>14, SameTables DEF vars
<1> QED
  BY <1>1, <1>2, <1>3, <1>4, <1>5, <1>6, <1>7, <1>8, <1>9, <1>10, <1>11, <1>12,
     <1>13, <1>14 DEF Next

(* The types hold in every behaviour.                                      *)
THEOREM TypeCorrect == Spec => []TypeOK
<1>1. Types /\ [Next]_vars => Types'
  BY NextTypes
<1>2. Types => TypeOK
  BY DEF Types
<1> QED
  BY <1>1, <1>2, InitTypes, PTL DEF Spec

(* The three tables agree whatever was rolled back, lost or put again on   *)
(* another branch (spvwallet.go:39-162), unless a write has cut a          *)
(* transaction short or one was put while the filter was being loaded.     *)
THEOREM TablesAlwaysAgree == Spec => []TablesAgree
<1>1. Init => Types /\ Agree
  BY InitTypes, InitAgree
<1>2. Types /\ Agree /\ [Next]_vars => Types' /\ Agree'
  BY NextTypes, NextAgree
<1>3. Agree => TablesAgree
  BY DEF Agree
<1> QED
  BY <1>1, <1>2, <1>3, PTL DEF Spec

-----------------------------------------------------------------------------
(* The worth of a finite set of coins: the library's sum takes the coins   *)
(* in an order of its own, which does not matter.                          *)

TakeBase(c) == [ins |-> {}, rest |-> c[2], change |-> 0]
TakeStep(c, v, op) == TakeCoin(c[1], v, op)
Taking == INSTANCE FoldProofs WITH Base <- TakeBase, Step <- TakeStep

First(z) == CHOOSE x \in z : TRUE

(* The equation of the sum, for the subsets z of S in D.                   *)
Sums(have, D, f) ==
  f = [z \in D |-> IF z = {} THEN 0
                   ELSE have[First(z)].value + f[z \ {First(z)}]]

SumUpTo(S, k) == {z \in SUBSET S : Cardinality(z) <= k}

LEMMA FirstIn ==
  ASSUME NEW z, z # {}
  PROVE  First(z) \in z
BY DEF First

LEMMA SubsetFacts ==
  ASSUME NEW S, IsFiniteSet(S), NEW z \in SUBSET S
  PROVE  /\ IsFiniteSet(z) /\ Cardinality(z) \in Nat /\ Cardinality(z) <= Cardinality(S)
         /\ z # {} <=> Cardinality(z) # 0
         /\ \A x \in z : Cardinality(z \ {x}) = Cardinality(z) - 1
<1>1. IsFiniteSet(z) /\ Cardinality(z) <= Cardinality(S)
  BY FS_Subset
<1>2. Cardinality(z) \in Nat
  BY <1>1, FS_CardinalityType
<1>3. \A x \in z : Cardinality(z \ {x}) = Cardinality(z) - 1
  BY <1>1, FS_RemoveElement
<1>4. z # {} <=> Cardinality(z) # 0
  BY <1>1, FS_EmptySet
<1> QED BY <1>1, <1>2, <1>3, <1>4

(* The sum is well defined: a solution for the sets of up to k coins is    *)
(* continued to those of one more.                                         *)
LEMMA SumExists ==
  ASSUME NEW have, NEW S, IsFiniteSet(S)
  PROVE  \E f : Sums(have, SUBSET S, f)
<1> DEFINE n == Cardinality(S)
           R == {k \in 0 .. n : \E f : Sums(have, SumUpTo(S, k), f)}
<1>0. n \in Nat
  BY FS_CardinalityType
<1>1. 0 \in R
  <2> DEFINE f == [z \in SumUpTo(S, 0) |-> 0]
  <2>1. \A z \in SumUpTo(S, 0) : z = {}
    <3>1. \A z \in SumUpTo(S, 0) : z \in SUBSET S /\ Cardinality(z) <= 0
      BY DEF SumUpTo
    <3> QED BY <3>1, SubsetFacts
  <2>2. Sums(have, SumUpTo(S, 0), f)
    BY <2>1 DEF Sums
  <2> QED BY <1>0, <2>2
<1>2. ASSUME NEW k \in 0 .. n - 1, k \in R PROVE k + 1 \in R
  <2>1. PICK f : Sums(have, SumUpTo(S, k), f)
    BY <1>2
  <2> DEFINE g == [z \in SumUpTo(S, k + 1) |->
                     IF Cardinality(z) <= k THEN f[z]
                     ELSE have[First(z)].value + f[z \ {First(z)}]]
  <2>2. ASSUME NEW z \in SumUpTo(S, k + 1), z # {}
        PROVE  g[z] = have[First(z)].value + g[z \ {First(z)}]
    <3>1. First(z) \in z /\ z \in SUBSET S
      BY <2>2, FirstIn DEF SumUpTo
    <3>2. /\ Cardinality(z) \in Nat /\ Cardinality(z) <= k + 1
          /\ Cardinality(z \ {First(z)}) = Cardinality(z) - 1
      BY <3>1, SubsetFacts DEF SumUpTo
    <3>3. z \ {First(z)} \in SumUpTo(S, k)
      BY <3>1, <3>2 DEF SumUpTo
    <3>4. z \ {First(z)} \in SumUpTo(S, k + 1) /\ Cardinality(z \ {First(z)}) <= k
      BY <3>1, <3>2 DEF SumUpTo
    <3>5. g[z \ {First(z)}] = f[z \ {First(z)}]
      BY <3>4
    <3>6. CASE Cardinality(z) <= k
      <4>1. z \in SumUpTo(S, k)
        BY <3>1, <3>6 DEF SumUpTo
      <4>2. f[z] = have[First(z)].value + f[z \ {First(z)}]
        BY <2>1, <2>2, <4>1 DEF Sums
      <4> QED BY <3>5, <3>6, <4>2
    <3>7. CASE ~(Cardinality(z) <= k)
      BY <3>5, <3>7
    <3> QED BY <3>6, <3>7
  <2>3. {} \in SumUpTo(S, k + 1) => g[{}] = 0
    <3>1. Cardinality({}) = 0 /\ {} \in SumUpTo(S, k)
      BY FS_EmptySet DEF SumUpTo
    <3> QED BY <2>1, <3>1 DEF Sums
  <2>4. g = [z \in SumUpTo(S, k + 1) |-> g[z]]
    OBVIOUS
  <2> HIDE DEF g
  <2>5. Sums(have, SumUpTo(S, k + 1), g)
    BY <2>2, <2>3, <2>4 DEF Sums
  <2>6. k + 1 \in 0 .. n
    BY <1>0
  <2> QED BY <2>5, <2>6
<1>3. n \in R
  <2> HIDE DEF R, n
  <2>1. 0 .. n \subseteq R
    BY <1>0, <1>1, <1>2, Taking!CountUp
  <2> QED BY <1>0, <2>1
<1>4. SumUpTo(S, n) = SUBSET S
  BY SubsetFacts DEF SumUpTo
<1> QED BY <1>3, <1>4

(* Two solutions agree on the sets they both have.                         *)
LEMMA SumUnique ==
  ASSUME NEW have, NEW S, NEW T, NEW f, NEW g, IsFiniteSet(S), T \in SUBSET S,
         Sums(have, SUBSET S, f), Sums(have, SUBSET T, g)
  PROVE  \A z \in SUBSET T : f[z] = g[z]
<1> DEFINE n == Cardinality(T)
           R == {k \in 0 .. n : \A z \in SUBSET T : Cardinality(z) <= k => f[z] = g[z]}
<1>0. IsFiniteSet(T) /\ n \in Nat
  BY SubsetFacts
<1>1. 0 \in R
  <2>1. \A z \in SUBSET T : Cardinality(z) <= 0 => z = {}
    BY <1>0, SubsetFacts
  <2>2. f[{}] = g[{}]
    BY DEF Sums
  <2> QED BY <1>0, <2>1, <2>2
<1>2. ASSUME NEW k \in 0 .. n - 1, k \in R PROVE k + 1 \in R
  <2>1. ASSUME NEW z \in SUBSET T, Cardinality(z) <= k + 1, z # {} PROVE f[z] = g[z]
    <3>1. First(z) \in z /\ z \ {First(z)} \in SUBSET T /\ z \in SUBSET S
      BY <2>1, FirstIn
    <3>2. Cardinality(z \ {First(z)}) <= k
      BY <1>0, <2>1, <3>1, SubsetFacts
    <3>3. f[z \ {First(z)}] = g[z \ {First(z)}]
      BY <1>2, <3>1, <3>2
    <3> QED BY <2>1, <3>1, <3>3 DEF Sums
  <2>2. f[{}] = g[{}]
    BY DEF Sums
  <2>3. k + 1 \in 0 .. n
    BY <1>0
  <2>4. \A z \in SUBSET T : Cardinality(z) <= k + 1 => f[z] = g[z]
    BY <2>1, <2>2
  <2> QED BY <2>3, <2>4
<1>3. n \in R
  <2> HIDE DEF R, n
  <2>1. 0 .. n \subseteq R
    BY <1>0, <1>1, <1>2, Taking!CountUp
  <2> QED BY <1>0, <2>1
<1> QED BY <1>0, <1>3, SubsetFacts

LEMMA WorthSum ==
  ASSUME NEW have, NEW S, IsFiniteSet(S)
  PROVE  \E f : Sums(have, SUBSET S, f) /\ Worth(have, S) = f[S]
<1> DEFINE f == CHOOSE g : Sums(have, SUBSET S, g)
<1>1. Sums(have, SUBSET S, f)
  BY SumExists
<1>2. Worth(have, S) = f[S]
  BY DEF Worth, MapThenSumSet, MapThenFoldSet, Sums, First
<1> QED BY <1>1, <1>2

LEMMA WorthEmpty ==
  ASSUME NEW have
  PROVE  Worth(have, {}) = 0
<1>1. PICK f : Sums(have, SUBSET {}, f) /\ Worth(have, {}) = f[{}]
  BY WorthSum, FS_EmptySet
<1> QED BY <1>1 DEF Sums

LEMMA WorthFirst ==
  ASSUME NEW have, NEW S, IsFiniteSet(S), S # {}
  PROVE  Worth(have, S) = have[First(S)].value + Worth(have, S \ {First(S)})
<1> DEFINE T == S \ {First(S)}
<1>1. PICK f : Sums(have, SUBSET S, f) /\ Worth(have, S) = f[S]
  BY WorthSum
<1>2. T \in SUBSET S /\ IsFiniteSet(T)
  BY SubsetFacts
<1>3. PICK g : Sums(have, SUBSET T, g) /\ Worth(have, T) = g[T]
  BY <1>2, WorthSum
<1>4. f[T] = g[T]
  <2> HIDE DEF T
  <2>1. Sums(have, SUBSET S, f) /\ Sums(have, SUBSET T, g)
    BY <1>1, <1>3
  <2>2. \A z \in SUBSET T : f[z] = g[z]
    BY <1>2, <2>1, SumUnique
  <2> QED BY <2>2
<1>5. f[S] = have[First(S)].value + f[T]
  BY <1>1 DEF Sums
<1> QED BY <1>1, <1>3, <1>4, <1>5

(* Any coin may be counted first.                                          *)
LEMMA WorthRemove ==
  ASSUME NEW have, NEW S, IsFiniteSet(S), \A x \in S : have[x].value \in Nat
  PROVE  /\ Worth(have, S) \in Nat
         /\ \A x \in S : Worth(have, S) = have[x].value + Worth(have, S \ {x})
<1> DEFINE n == Cardinality(S)
           Good(z) == /\ Worth(have, z) \in Nat
                      /\ \A x \in z : Worth(have, z) = have[x].value + Worth(have, z \ {x})
           R == {k \in 0 .. n : \A z \in SUBSET S : Cardinality(z) <= k => Good(z)}
<1>0. n \in Nat
  BY FS_CardinalityType
<1>1. 0 \in R
  <2>1. \A z \in SUBSET S : Cardinality(z) <= 0 => z = {}
    BY SubsetFacts
  <2>2. Good({})
    BY WorthEmpty
  <2> HIDE DEF Good
  <2> QED BY <1>0, <2>1, <2>2
<1>2. ASSUME NEW k \in 0 .. n - 1, k \in R PROVE k + 1 \in R
  <2>0. ASSUME NEW z \in SUBSET S, Cardinality(z) <= k PROVE Good(z)
    <3> HIDE DEF Good
    <3> QED BY <1>2, <2>0
  <2>1. ASSUME NEW z \in SUBSET S, Cardinality(z) <= k + 1, z # {} PROVE Good(z)
    <3> DEFINE y == First(z)
    <3>1. y \in z /\ IsFiniteSet(z) /\ z \ {y} \in SUBSET S
      BY <2>1, FirstIn, SubsetFacts
    <3> HIDE DEF y
    <3>2. \A x \in z : Cardinality(z \ {x}) <= k
      BY <2>1, SubsetFacts
    <3>3. Worth(have, z) = have[y].value + Worth(have, z \ {y})
      BY <2>1, <3>1, WorthFirst DEF y
    <3>4. Good(z \ {y})
      BY <2>0, <3>1, <3>2
    <3>5. Worth(have, z) \in Nat
      BY <3>1, <3>3, <3>4
    <3>6. ASSUME NEW x \in z, x # y
          PROVE  Worth(have, z) = have[x].value + Worth(have, z \ {x})
      <4>1. Worth(have, z \ {y}) = have[x].value + Worth(have, (z \ {y}) \ {x})
        BY <3>4, <3>6
      <4>2. Good(z \ {x})
        <5>1. z \ {x} \in SUBSET S
          OBVIOUS
        <5> HIDE DEF Good
        <5> QED BY <2>0, <3>2, <5>1
      <4>3. Worth(have, z \ {x}) = have[y].value + Worth(have, (z \ {x}) \ {y})
        BY <3>1, <3>6, <4>2
      <4>4. (z \ {x}) \ {y} = (z \ {y}) \ {x}
        OBVIOUS
      <4>5. Good((z \ {x}) \ {y})
        <5>1. /\ (z \ {x}) \ {y} \in SUBSET S
              /\ Cardinality((z \ {x}) \ {y}) <= k
          <6>1. /\ z \ {x} \in SUBSET S /\ Cardinality(z \ {x}) <= k
                /\ (z \ {x}) \ {y} \in SUBSET S /\ y \in z \ {x}
            BY <3>1, <3>2, <3>6
          <6>2. Cardinality((z \ {x}) \ {y}) = Cardinality(z \ {x}) - 1
                /\ Cardinality(z \ {x}) \in Nat
            BY <6>1, SubsetFacts
          <6> QED BY <6>1, <6>2
        <5> HIDE DEF Good
        <5> QED BY <2>0, <5>1
      <4>6. ASSUME NEW p \in Nat, NEW q \in Nat, NEW w \in Nat
            PROVE  p + (q + w) = q + (p + w)
        OBVIOUS
      <4>7. have[x].value \in Nat /\ have[y].value \in Nat
        BY <3>1
      <4>8. Worth(have, (z \ {x}) \ {y}) \in Nat
        BY <4>5
      <4> HIDE DEF Good
      <4> QED BY <3>3, <4>1, <4>3, <4>4, <4>6, <4>7, <4>8
    <3> QED BY <3>3, <3>5, <3>6
  <2>2. Good({})
    BY WorthEmpty
  <2>3. \A z \in SUBSET S : Cardinality(z) <= k + 1 => Good(z)
    <3> HIDE DEF Good
    <3> QED BY <2>1, <2>2
  <2> HIDE DEF Good
  <2> QED BY <1>0, <2>3
<1>3. n \in R
  <2> HIDE DEF R, n
  <2>1. 0 .. n \subseteq R
    BY <1>0, <1>1, <1>2, Taking!CountUp
  <2> QED BY <1>0, <2>1
<1>4. Good(S)
  <2> HIDE DEF Good
  <2> QED BY <1>0, <1>3
<1> QED BY <1>4

(* The worth of coins is that of the outputs they are.                     *)
LEMMA WorthSame ==
  ASSUME NEW a, NEW b, NEW S, IsFiniteSet(S),
         \A x \in S : a[x].value \in Nat /\ a[x].value = b[x].value
  PROVE  Worth(a, S) = Worth(b, S)
<1> DEFINE n == Cardinality(S)
           R == {k \in 0 .. n : \A z \in SUBSET S : Cardinality(z) <= k =>
                                  Worth(a, z) = Worth(b, z)}
<1>0. n \in Nat
  BY FS_CardinalityType
<1>1. 0 \in R
  <2>1. \A z \in SUBSET S : Cardinality(z) <= 0 => z = {}
    BY SubsetFacts
  <2> QED BY <1>0, <2>1, WorthEmpty
<1>2. ASSUME NEW k \in 0 .. n - 1, k \in R PROVE k + 1 \in R
  <2>1. ASSUME NEW z \in SUBSET S, Cardinality(z) <= k + 1, z # {}
        PROVE  Worth(a, z) = Worth(b, z)
    <3>1. First(z) \in z /\ IsFiniteSet(z) /\ z \ {First(z)} \in SUBSET S
      BY <2>1, FirstIn, SubsetFacts
    <3>2. Cardinality(z \ {First(z)}) <= k
      BY <2>1, <3>1, SubsetFacts
    <3>3. Worth(a, z \ {First(z)}) = Worth(b, z \ {First(z)})
      BY <1>2, <3>1, <3>2
    <3>4. /\ Worth(a, z) = a[First(z)].value + Worth(a, z \ {First(z)})
          /\ Worth(b, z) = b[First(z)].value + Worth(b, z \ {First(z)})
      BY <2>1, <3>1, WorthFirst
    <3>5. a[First(z)].value = b[First(z)].value
      BY <3>1
    <3> QED BY <3>3, <3>4, <3>5
  <2>2. k + 1 \in 0 .. n
    BY <1>0
  <2>3. \A z \in SUBSET S : Cardinality(z) <= k + 1 => Worth(a, z) = Worth(b, z)
    BY <2>1, WorthEmpty
  <2> QED BY <2>2, <2>3
<1>3. n \in R
  <2> HIDE DEF R, n
  <2>1. 0 .. n \subseteq R
    BY <1>0, <1>1, <1>2, Taking!CountUp
  <2> QED BY <1>0, <2>1
<1> QED BY <1>0, <1>3
-----------------------------------------------------------------------------
(* The coins taken (transaction.go:74-107).                                *)

(* What was taken is worth the amount and the change, and one coin less    *)
(* would not have been enough.                                             *)
Covers(have, amount, v) ==
  /\ Worth(have, v.ins) = amount + v.change
  /\ \E op \in v.ins : Worth(have, v.ins \ {op}) < amount

(* After the first coins P: while a rest is left they were all taken.      *)
TakenOf(have, amount, P, v) ==
  /\ v \in [ins : SUBSET P, rest : Nat, change : Nat]
  /\ v.rest # 0 => /\ v.ins = P /\ v.change = 0
                   /\ amount = v.rest + Worth(have, P)
  /\ v.rest = 0 => Covers(have, amount, v)

LEMMA TakeOne ==
  ASSUME NEW have, NEW amount \in Nat, NEW P, NEW op, NEW v, IsFiniteSet(P),
         op \notin P, \A x \in P \cup {op} : have[x].value \in Nat,
         TakenOf(have, amount, P, v)
  PROVE  TakenOf(have, amount, P \cup {op}, TakeCoin(have, v, op))
<1> DEFINE w == TakeCoin(have, v, op)
           Q == P \cup {op}
<1>0. v \in [ins : SUBSET P, rest : Nat, change : Nat]
  BY DEF TakenOf
<1>1. CASE v.rest = 0
  <2>1. w = v
    BY <1>1 DEF TakeCoin
  <2>2. v \in [ins : SUBSET Q, rest : Nat, change : Nat]
    BY <1>0
  <2> QED BY <1>1, <2>1, <2>2 DEF TakenOf
<1>2. CASE v.rest # 0
  <2>1. /\ v.ins = P /\ v.change = 0 /\ amount = v.rest + Worth(have, P)
        /\ v.rest \in Nat \ {0} /\ have[op].value \in Nat
    BY <1>0, <1>2 DEF TakenOf
  <2>2. /\ w.ins = Q
        /\ w.rest = IF have[op].value >= v.rest THEN 0 ELSE v.rest - have[op].value
        /\ w.change = IF have[op].value > v.rest THEN have[op].value - v.rest ELSE 0
        /\ w = [ins |-> w.ins, rest |-> w.rest, change |-> w.change]
    BY <1>2, <2>1 DEF TakeCoin
  <2>3. IsFiniteSet(Q) /\ Q \ {op} = P /\ op \in Q
    BY FS_AddElement
  <2>4. /\ Worth(have, Q) = have[op].value + Worth(have, P)
        /\ Worth(have, P) \in Nat
    BY <2>3, WorthRemove
  <2> HIDE DEF w
  <2>5. w.rest \in Nat /\ w.change \in Nat
    BY <2>1, <2>2
  <2>6. w \in [ins : SUBSET Q, rest : Nat, change : Nat]
    BY <2>2, <2>5
  <2>7. CASE have[op].value >= v.rest
    <3>1. w.rest = 0 /\ Worth(have, w.ins) = amount + w.change
      BY <2>1, <2>2, <2>4, <2>7
    <3>2. Worth(have, w.ins \ {op}) < amount
      <4>1. w.ins \ {op} = P
        BY <2>2, <2>3
      <4>2. Worth(have, P) < amount
        BY <2>1, <2>4
      <4> QED BY <4>1, <4>2
    <3> QED BY <2>2, <2>3, <2>6, <3>1, <3>2 DEF TakenOf, Covers, w
  <2>8. CASE ~(have[op].value >= v.rest)
    <3>1. w.rest # 0 /\ w.change = 0 /\ amount = w.rest + Worth(have, Q)
      BY <2>1, <2>2, <2>4, <2>8
    <3> QED BY <2>2, <2>6, <3>1 DEF TakenOf, w
  <2> QED BY <2>7, <2>8
<1> QED BY <1>1, <1>2

(* A list of the members of a finite set has each of them once.            *)
LEMMA ListOfSet ==
  ASSUME NEW S, IsFiniteSet(S), NEW list \in SetToSeqs(S)
  PROVE  /\ list \in Seq(S) /\ Len(list) = Cardinality(S)
         /\ \A i, j \in 1 .. Len(list) : i # j => list[i] # list[j]
         /\ {list[i] : i \in 1 .. Len(list)} = S
<1> DEFINE n == Cardinality(S)
<1>1. n \in Nat
  BY FS_CardinalityType
<1>2. list \in [1 .. n -> S] /\ \A i, j \in 1 .. n : i # j => list[i] # list[j]
  BY DEF SetToSeqs
<1>3. list \in Seq(S) /\ Len(list) = n
  BY <1>1, <1>2, LenProperties
<1>4. list \in Injection(1 .. n, S)
  BY <1>2 DEF Injection, IsInjective
<1>5. IsFiniteSet(1 .. n) /\ Cardinality(1 .. n) = n
  BY <1>1, FS_Interval
<1>6. list \in Surjection(1 .. n, S)
  BY <1>4, <1>5, FS_Injection
<1>7. \A x \in S : \E i \in 1 .. n : list[i] = x
  BY <1>6 DEF Surjection
<1> QED BY <1>2, <1>3, <1>7

(* TakeCoins is the last value of its run.                                 *)
LEMMA TakeCoinsFold ==
  ASSUME NEW have, NEW amount, NEW list
  PROVE  TakeCoins(have, amount, list) = Taking!Folded(<<have, amount>>, list)
BY DEF TakeCoins, FoldLeft, MapThenFoldSet, Max, Taking!Folded, Taking!Solves,
       Taking!Largest, TakeBase, TakeStep

FirstOf(list, k) == {list[i] : i \in 1 .. k}

(* Coins for the amount are taken whenever there are enough.               *)
LEMMA CoinsTaken ==
  ASSUME NEW have, NEW amount \in Nat \ {0}, NEW S, IsFiniteSet(S),
         \A x \in S : have[x].value \in Nat, NEW list \in SetToSeqs(S)
  PROVE  TakenOf(have, amount, S, TakeCoins(have, amount, list))
<1> DEFINE c == <<have, amount>>
           n == Len(list)
<1>0. /\ list \in Seq(S) /\ n \in Nat /\ FirstOf(list, n) = S
      /\ \A i, j \in 1 .. n : i # j => list[i] # list[j]
  BY ListOfSet, LenProperties DEF FirstOf
<1>1. PICK r : Taking!IsRun(c, list, r) /\ Taking!Folded(c, list) = r[n]
  BY <1>0, Taking!FoldRun
<1> DEFINE R == {k \in 0 .. n : TakenOf(have, amount, FirstOf(list, k), r[k])}
<1>2. 0 \in R
  <2>1. r[0] = [ins |-> {}, rest |-> amount, change |-> 0] /\ FirstOf(list, 0) = {}
    BY <1>1 DEF Taking!IsRun, TakeBase, FirstOf
  <2>2. TakenOf(have, amount, {}, [ins |-> {}, rest |-> amount, change |-> 0])
    BY WorthEmpty DEF TakenOf
  <2>3. TakenOf(have, amount, FirstOf(list, 0), r[0])
    BY <2>1, <2>2, Zenon
  <2> QED BY <1>0, <2>3
<1>3. ASSUME NEW k \in 0 .. n - 1, k \in R PROVE k + 1 \in R
  <2>1. k + 1 \in 1 .. n /\ (k + 1) - 1 = k
    BY <1>0
  <2>2. r[k + 1] = TakeCoin(have, r[k], list[k + 1])
    BY <1>1, <2>1 DEF Taking!IsRun, TakeStep
  <2>3. FirstOf(list, k + 1) = FirstOf(list, k) \cup {list[k + 1]}
    <3>1. 1 .. k + 1 = (1 .. k) \cup {k + 1}
      BY <1>0
    <3> QED BY <3>1 DEF FirstOf
  <2>4. FirstOf(list, k) \subseteq S /\ list[k + 1] \in S /\ list[k + 1] \notin FirstOf(list, k)
    <3>1. \A i \in 1 .. k : i \in 1 .. n /\ i # k + 1
      BY <1>0
    <3>2. \A i \in 1 .. n : list[i] \in S
      BY <1>0
    <3> QED BY <1>0, <2>1, <3>1, <3>2 DEF FirstOf
  <2>5. IsFiniteSet(FirstOf(list, k))
    BY <2>4, FS_Subset
  <2>6. TakenOf(have, amount, FirstOf(list, k), r[k])
    BY <1>3
  <2>7. TakenOf(have, amount, FirstOf(list, k) \cup {list[k + 1]}, TakeCoin(have, r[k], list[k + 1]))
    BY <2>4, <2>5, <2>6, TakeOne
  <2>8. TakenOf(have, amount, FirstOf(list, k + 1), r[k + 1])
    BY <2>2, <2>3, <2>7, Zenon
  <2> QED BY <1>0, <2>1, <2>8
<1>4. n \in R
  <2> HIDE DEF R, n
  <2>1. 0 .. n \subseteq R
    BY <1>0, <1>2, <1>3, Taking!CountUp
  <2> QED BY <1>0, <2>1
<1> QED BY <1>0, <1>1, <1>4, TakeCoinsFold
-----------------------------------------------------------------------------
(* Every coin, wherever it is, is the output of a transaction of a stored  *)
(* block, as putTx makes it.                                               *)

InBlock(t, b) == \E i \in DOMAIN BlockTxs[b] : BlockTxs[b][i] = t
CoinOf(S, op, coin) ==
  /\ op \in OutPoint
  /\ \E b \in S : InBlock(op[1], b) /\ coin = NewUTXO(op[1], op[2], Height[b])

CoinsKnown ==
  /\ IsFiniteSet(DOMAIN utxos) /\ IsFiniteSet(DOMAIN batch.utxos)
  /\ \A op \in DOMAIN utxos : CoinOf(stored, op, utxos[op])
  /\ \A op \in DOMAIN batch.utxos : CoinOf(stored, op, batch.utxos[op])
  /\ job.pc = "put" => \A i \in DOMAIN job.left : InBlock(job.left[i], tip)

(* What is claimed of a transaction, when the headers are S and the lock   *)
(* time is limit.                                                          *)
Value(ins) == Worth([op \in ins |-> Output(op)], ins)
Sound(S, pay, ins, change, done, enough, dropped, limit) ==
  IF ~done THEN ~enough
  ELSE /\ Value(ins) = pay.amount + change
       /\ \E op \in ins : Value(ins \ {op}) < pay.amount
       /\ \A op \in ins :
            /\ Output(op).addr = pay.from
            /\ ~dropped => \E b \in S : InBlock(op[1], b) /\ LockOf(op, b) <= limit

(* What the client holds: coins of the sender, then a sound choice of them *)
(* at the height that is stored now.                                       *)
ClientSound ==
  /\ client.pc = "coins" =>
       /\ DOMAIN client = {"pc", "pay", "dropped", "coins"}
       /\ client.pay \in Payment /\ client.dropped \in BOOLEAN
       /\ IsFiniteSet(DOMAIN client.coins)
       /\ \A op \in DOMAIN client.coins :
            /\ CoinOf(stored, op, client.coins[op])
            /\ client.coins[op].addr = client.pay.from
  /\ client.pc = "selected" =>
       /\ DOMAIN client = {"pc", "pay", "dropped", "taken", "enough"}
       /\ client.dropped \in BOOLEAN /\ client.taken.ins \subseteq OutPoint
       /\ Sound(stored, client.pay, client.taken.ins, client.taken.change,
                client.taken.rest = 0, client.enough, client.dropped, height)

MadeSound ==
  \A m \in made : Sound(stored, m.pay, m.ins, m.change, m.made, m.enough,
                         m.dropped, m.lockTime)
SoundPayments == CoinsKnown /\ ClientSound /\ MadeSound

LEMMA CoinOfMore ==
  ASSUME NEW S, NEW T, S \subseteq T
  PROVE  \A op, coin : CoinOf(S, op, coin) => CoinOf(T, op, coin)
BY DEF CoinOf

LEMMA SoundMore ==
  ASSUME NEW S, NEW T, S \subseteq T, NEW pay, NEW ins, NEW change, NEW done,
         NEW enough, NEW dropped, NEW limit,
         Sound(S, pay, ins, change, done, enough, dropped, limit)
  PROVE  Sound(T, pay, ins, change, done, enough, dropped, limit)
<1>1. CASE ~done
  BY <1>1 DEF Sound
<1>2. CASE done
  <2>1. \A op \in ins : ~dropped =>
          \E b \in T : InBlock(op[1], b) /\ LockOf(op, b) <= limit
    BY <1>2 DEF Sound
  <2> QED BY <1>2, <2>1 DEF Sound
<1> QED BY <1>1, <1>2

(* The parts an action leaves alone stay sound as headers are added.       *)
LEMMA SameCoins ==
  ASSUME CoinsKnown, stored \subseteq stored', utxos' = utxos,
         batch' = batch \/ batch' = NoBatch,
         job'.pc = "put" => job' = job /\ tip' = tip
  PROVE  CoinsKnown'
<1>1. IsFiniteSet(DOMAIN NoBatch.utxos) /\ DOMAIN NoBatch.utxos = {}
  BY NoBatchTyped, FS_EmptySet
<1>2. IsFiniteSet(DOMAIN batch'.utxos)
  BY <1>1 DEF CoinsKnown
<1>3. \A op \in DOMAIN batch'.utxos : CoinOf(stored', op, batch'.utxos[op])
  BY <1>1, CoinOfMore DEF CoinsKnown
<1>4. \A op \in DOMAIN utxos : CoinOf(stored', op, utxos[op])
  BY CoinOfMore DEF CoinsKnown
<1>5. job'.pc = "put" => \A i \in DOMAIN job'.left : InBlock(job'.left[i], tip')
  BY DEF CoinsKnown
<1> QED BY <1>2, <1>3, <1>4, <1>5 DEF CoinsKnown

LEMMA SameClient ==
  ASSUME ClientSound, stored \subseteq stored', UNCHANGED <<client, height>>
  PROVE  ClientSound'
<1>1. client.pc = "coins" => \A op \in DOMAIN client.coins :
        CoinOf(stored', op, client.coins[op])
  BY CoinOfMore DEF ClientSound
<1>2. client.pc = "selected" =>
        Sound(stored', client.pay, client.taken.ins, client.taken.change,
              client.taken.rest = 0, client.enough, client.dropped, height)
  <2> SUFFICES ASSUME client.pc = "selected"
               PROVE  Sound(stored', client.pay, client.taken.ins, client.taken.change,
                            client.taken.rest = 0, client.enough, client.dropped, height)
    OBVIOUS
  <2> DEFINE done == client.taken.rest = 0
  <2>1. Sound(stored, client.pay, client.taken.ins, client.taken.change,
              done, client.enough, client.dropped, height)
    BY DEF ClientSound
  <2> HIDE DEF done
  <2>2. Sound(stored', client.pay, client.taken.ins, client.taken.change,
              done, client.enough, client.dropped, height)
    BY <2>1, SoundMore
  <2> QED BY <2>2 DEF done
<1> QED BY <1>1, <1>2 DEF ClientSound

LEMMA SameMade ==
  ASSUME MadeSound, stored \subseteq stored', made' = made
  PROVE  MadeSound'
BY SoundMore DEF MadeSound

LEMMA InitPayments == Init => SoundPayments
<1> SUFFICES ASSUME Init PROVE SoundPayments
  OBVIOUS
<1>1. DOMAIN utxos = {} /\ DOMAIN batch.utxos = {} /\ job.pc = "idle"
  BY NoBatchTyped DEF Init, Idle
<1>2. CoinsKnown
  BY <1>1, FS_EmptySet DEF CoinsKnown
<1>3. client.pc = "idle" /\ made = {}
  BY DEF Init, Idle
<1> QED BY <1>2, <1>3 DEF SoundPayments, ClientSound, MadeSound

(* The outputs of a transaction are finitely many.                         *)
LEMMA OutsFinite ==
  ASSUME NEW t, NEW paid, IsFiniteSet(paid)
  PROVE  IsFiniteSet({<<t, i>> : i \in paid})
<1> DEFINE T == {<<t, i>> : i \in paid}
           f == [i \in paid |-> <<t, i>>]
<1>1. f \in Surjection(paid, T)
  BY DEF Surjection
<1> HIDE DEF f, T
<1>2. IsFiniteSet(T)
  BY <1>1, FS_Surjection
<1> QED BY <1>2 DEF T

(* putTx puts coins of the transaction of the block it works on.           *)
LEMMA PutTxCoins ==
  ASSUME Types, CoinsKnown, PutTx
  PROVE  CoinsKnown'
<1>0. /\ utxos' = utxos /\ stored' = stored /\ tip' = tip /\ tip \in stored
      /\ DOMAIN batch = {"utxos", "stxos", "txs"}
  BY DEF PutTx, chain, coins, Types, TypeOK, Working
<1>1. /\ job \in [pc : {"put"}, left : Seq(Hash), old : stored]
      /\ job.left \in Seq(Hash) /\ job.left # <<>> /\ job.pc = "put"
      /\ job' = [job EXCEPT !.left = Tail(job.left)]
  <2>1. job \in Job /\ job.pc = "put"
    BY DEF PutTx, Putting, Types, Working
  <2>2. job \in [pc : {"put"}, left : Seq(Hash), old : stored]
    BY <2>1 DEF Job, Idle
  <2>3. job.left # <<>> /\ job' = [job EXCEPT !.left = Tail(job.left)]
    BY DEF PutTx
  <2> QED BY <2>1, <2>2, <2>3
<1> PICK t \in Hash : t = Head(job.left)
  BY <1>1, HeadTailProperties
<1>2. InBlock(t, tip)
  <2>1. 1 \in DOMAIN job.left /\ t = job.left[1]
    BY <1>1, EmptySeq, LenProperties, HeadTailProperties
  <2> QED BY <1>1, <2>1 DEF CoinsKnown
<1>3. \A i \in DOMAIN job'.left : InBlock(job'.left[i], tip)
  <2>1. job'.left = Tail(job.left)
    BY <1>1
  <2>2. \A i \in DOMAIN Tail(job.left) :
          /\ i + 1 \in DOMAIN job.left /\ Tail(job.left)[i] = job.left[i + 1]
    BY <1>1
  <2> QED BY <1>1, <2>1, <2>2 DEF CoinsKnown
<1>4. /\ IsFiniteSet(DOMAIN batch'.utxos)
      /\ \A op \in DOMAIN batch'.utxos : CoinOf(stored, op, batch'.utxos[op])
  <2>1. CASE batch' = Saved(batch, t, Height[tip], Spends(t), Paid(t))
    <3> DEFINE n == Height[tip]
               new == PutUTXOs(batch.utxos, t, n, Paid(t))
    <3>1. batch'.utxos = new
      BY <2>1 DEF Saved
    <3>2. Paid(t) \subseteq DOMAIN Tx[t].outs /\ IsFiniteSet(DOMAIN Tx[t].outs)
      BY SpendsPaid, WalletAssumption DEF Hash
    <3>3. IsFiniteSet(Paid(t))
      BY <3>2, FS_Subset
    <3>4. IsFiniteSet({<<t, i>> : i \in Paid(t)})
      BY <3>3, OutsFinite
    <3>5. DOMAIN new = {<<t, i>> : i \in Paid(t)} \cup DOMAIN batch.utxos
      <4>1. \A op : op \in DOMAIN new <=>
              (\E i \in Paid(t) : op = <<t, i>>) \/ op \in DOMAIN batch.utxos
        BY PutCoins
      <4> HIDE DEF new
      <4> QED BY <4>1
    <3>6. IsFiniteSet(DOMAIN new)
      <4> DEFINE T == {<<t, i>> : i \in Paid(t)}
                 U == DOMAIN batch.utxos
      <4>1. IsFiniteSet(U) /\ IsFiniteSet(T) /\ DOMAIN new = T \cup U
        BY <3>4, <3>5 DEF CoinsKnown
      <4> HIDE DEF new, T, U
      <4> QED BY <4>1, FS_Union
    <3>7. ASSUME NEW i \in Paid(t) PROVE CoinOf(stored, <<t, i>>, new[<<t, i>>])
      <4>1. new[<<t, i>>] = NewUTXO(t, i, n)
        BY PutCoins
      <4>2. <<t, i>> \in OutPoint
        BY <3>2 DEF OutPoint
      <4> HIDE DEF new
      <4> QED BY <1>0, <1>2, <4>1, <4>2 DEF CoinOf
    <3>8. ASSUME NEW op \in DOMAIN batch.utxos, \A i \in Paid(t) : op # <<t, i>>
          PROVE  CoinOf(stored, op, new[op])
      <4>1. new[op] = batch.utxos[op]
        BY <3>8, PutCoins
      <4> QED BY <4>1 DEF CoinsKnown
    <3> HIDE DEF new
    <3>9. \A op \in DOMAIN new : CoinOf(stored, op, new[op])
      BY <3>5, <3>7, <3>8
    <3> QED BY <3>1, <3>6, <3>9
  <2>2. CASE \E done \in SUBSET Spends(t) :
               batch' = [batch EXCEPT !.stxos = PutSTXOs(@, t, Height[tip], done)]
    <3>1. batch'.utxos = batch.utxos
      BY <1>0, <2>2
    <3> QED BY <3>1 DEF CoinsKnown
  <2> QED
    BY <2>1, <2>2 DEF PutTx
<1> QED BY <1>0, <1>3, <1>4 DEF CoinsKnown

LEMMA CommitCoins ==
  ASSUME Types, CoinsKnown, Commit
  PROVE  CoinsKnown'
<1>1. /\ stored' = stored /\ tip' = tip /\ batch' = NoBatch
      /\ utxos' = Over(batch.utxos, utxos)
  BY DEF Commit, chain
<1>2. job'.pc # "put"
  BY DEF Commit, AfterPut, Answer, Idle
<1>3. DOMAIN utxos' = DOMAIN batch.utxos \cup DOMAIN utxos
  BY <1>1, OverRows
<1>4. IsFiniteSet(DOMAIN utxos')
  BY <1>3, FS_Union DEF CoinsKnown
<1>5. \A op \in DOMAIN utxos' : CoinOf(stored, op, utxos'[op])
  BY <1>1, <1>3, OverRows DEF CoinsKnown
<1>6. DOMAIN batch'.utxos = {} /\ IsFiniteSet(DOMAIN batch'.utxos)
  BY <1>1, NoBatchTyped, FS_EmptySet
<1> QED BY <1>1, <1>2, <1>4, <1>5, <1>6 DEF CoinsKnown

(* The heights are numbers.                                                *)
LEMMA HeightNat ==
  ASSUME Types
  PROVE  height \in Nat /\ \A b \in Block : Height[b] \in Nat
BY TreeAssumption DEF Types, TypeOK

LEMMA LockNat ==
  ASSUME NEW op \in OutPoint, NEW b \in Block
  PROVE  LockOf(op, b) \in Nat
<1>0. PICK t \in Hash : op \in {<<t, i>> : i \in DOMAIN Tx[t].outs}
  BY DEF OutPoint
<1>1. PICK i \in DOMAIN Tx[t].outs : op = <<t, i>>
  BY <1>0
<1>2. Output(op).lock \in Nat
  BY <1>1, WalletAssumption DEF Output, Hash
<1>3. Height[b] \in Nat
  BY TreeAssumption
<1> QED BY <1>2, <1>3, WalletAssumption DEF LockOf

(* A block of less height that is notified is noticed by the client.       *)
LEMMA NotifiedClient ==
  ASSUME Types, Types', ClientSound,
         NEW b \in Block, NEW current \in BOOLEAN, BlockCommitted(b, current)
  PROVE  ClientSound'
<1>1. stored' = stored
  BY DEF BlockCommitted, chain
<1>2. CASE "dropped" \notin DOMAIN client
  <2>1. client' = client /\ client.pc \notin {"coins", "selected"}
    BY <1>2 DEF BlockCommitted, ClientSound
  <2> QED BY <2>1 DEF ClientSound
<1>3. CASE "dropped" \in DOMAIN client
  <2>1. client' = IF height' < height THEN [client EXCEPT !.dropped = TRUE] ELSE client
    BY <1>3 DEF BlockCommitted
  <2>2. /\ DOMAIN client' = DOMAIN client
        /\ \A k \in DOMAIN client \ {"dropped"} : client'[k] = client[k]
        /\ client'.dropped = IF height' < height THEN TRUE ELSE client.dropped
    BY <1>3, <2>1
  <2>3. client'.pc = client.pc
    BY <2>2 DEF Types, Working
  <2>4. CASE client.pc = "coins"
    <3>1. /\ DOMAIN client' = {"pc", "pay", "dropped", "coins"}
          /\ client'.pay = client.pay /\ client'.coins = client.coins
          /\ client'.dropped \in BOOLEAN
      BY <2>2, <2>4 DEF ClientSound
    <3> QED BY <1>1, <2>3, <2>4, <3>1 DEF ClientSound
  <2>5. CASE client.pc = "selected"
    <3>1. /\ client'.pay = client.pay /\ client'.taken = client.taken
          /\ client'.enough = client.enough /\ client'.dropped \in BOOLEAN
      BY <2>2, <2>5 DEF ClientSound
    <3> DEFINE done == client.taken.rest = 0
    <3>2. Sound(stored, client.pay, client.taken.ins, client.taken.change,
                done, client.enough, client.dropped, height)
      BY <2>5 DEF ClientSound
    <3> HIDE DEF done
    <3>3. ASSUME NEW op \in client.taken.ins, done, ~client'.dropped
          PROVE  \E c \in stored : InBlock(op[1], c) /\ LockOf(op, c) <= height'
      <4>1. ~client.dropped /\ ~(height' < height)
        BY <2>2, <3>3
      <4>2. PICK c \in stored : InBlock(op[1], c) /\ LockOf(op, c) <= height
        BY <3>2, <3>3, <4>1 DEF Sound
      <4>3. height \in Nat /\ height' \in Nat /\ height <= height'
        BY <4>1, HeightNat DEF Types, TypeOK
      <4>4. LockOf(op, c) \in Nat
        <5>1. op \in OutPoint /\ c \in Block
          BY <2>5 DEF ClientSound, Types, TypeOK
        <5> QED BY <5>1, LockNat
      <4> QED BY <4>2, <4>3, <4>4
    <3>4. Sound(stored, client.pay, client.taken.ins, client.taken.change,
                done, client.enough, client'.dropped, height')
      BY <3>2, <3>3 DEF Sound
    <3>5. Sound(stored', client'.pay, client'.taken.ins, client'.taken.change,
                client'.taken.rest = 0, client'.enough, client'.dropped, height')
      BY <1>1, <3>1, <3>4 DEF done
    <3> QED BY <2>2, <2>3, <2>5, <3>1, <3>5 DEF ClientSound
  <2>6. CASE client.pc \notin {"coins", "selected"}
    BY <2>3, <2>6 DEF ClientSound
  <2> QED BY <2>4, <2>5, <2>6
<1> QED BY <1>2, <1>3

(* A coin of a block is the output itself, with the lock of that block.    *)
LEMMA CoinFacts ==
  ASSUME Types, NEW op, NEW coin, CoinOf(stored, op, coin)
  PROVE  /\ op \in OutPoint /\ coin.value \in Nat
         /\ coin.value = Output(op).value /\ coin.addr = Output(op).addr
         /\ \E b \in stored : InBlock(op[1], b) /\ coin.lock = LockOf(op, b)
<1>1. PICK b \in stored : InBlock(op[1], b) /\ coin = NewUTXO(op[1], op[2], Height[b])
  BY DEF CoinOf
<1>2. op \in OutPoint
  BY DEF CoinOf
<1>3. PICK t \in Hash : op \in {<<t, i>> : i \in DOMAIN Tx[t].outs}
  BY <1>2 DEF OutPoint
<1>4. PICK i \in DOMAIN Tx[t].outs : op = <<t, i>>
  BY <1>3
<1>5. Output(op).value \in Nat
  BY <1>4, WalletAssumption DEF Output, Hash
<1>6. /\ coin.value = Output(op).value /\ coin.addr = Output(op).addr
      /\ coin.lock = LockOf(op, b)
  BY <1>1, <1>4 DEF NewUTXO, Output, LockOf
<1> QED BY <1>1, <1>2, <1>5, <1>6

(* The client reads coins of the sender.                                   *)
LEMMA ReadClient ==
  ASSUME Types, CoinsKnown, NEW p \in Payment, GetAddressUTXOs(p)
  PROVE  ClientSound'
<1> DEFINE have == GetAddrAll(p.from)
<1>1. /\ client' = [pc |-> "coins", pay |-> p, dropped |-> FALSE, coins |-> have]
      /\ stored' = stored
  BY DEF GetAddressUTXOs, chain
<1>2. /\ DOMAIN have \subseteq DOMAIN utxos
      /\ \A op \in DOMAIN have : have[op] = utxos[op] /\ utxos[op].addr = p.from
  BY DEF GetAddrAll
<1> HIDE DEF have
<1>3. IsFiniteSet(DOMAIN have)
  BY <1>2, FS_Subset DEF CoinsKnown
<1>4. \A op \in DOMAIN have : CoinOf(stored, op, have[op]) /\ have[op].addr = p.from
  BY <1>2 DEF CoinsKnown
<1>5. /\ client'.pc = "coins" /\ client'.pay = p /\ client'.dropped = FALSE
      /\ client'.coins = have /\ DOMAIN client' = {"pc", "pay", "dropped", "coins"}
  BY <1>1
<1> QED BY <1>1, <1>3, <1>4, <1>5 DEF ClientSound

(* The coins chosen are worth their outputs.                               *)
LEMMA ChosenSound ==
  ASSUME NEW have, NEW v, NEW S, NEW amount \in Nat \ {0}, IsFiniteSet(S),
         \A op \in S : have[op].value \in Nat /\ have[op].value = Output(op).value,
         TakenOf(have, amount, S, v), v.rest = 0
  PROVE  /\ Value(v.ins) = amount + v.change
         /\ \E op \in v.ins : Value(v.ins \ {op}) < amount
<1>1. v.ins \subseteq S /\ Covers(have, amount, v)
  BY DEF TakenOf
<1>2. ASSUME NEW T \in SUBSET S PROVE Value(T) = Worth(have, T)
  <2> DEFINE outs == [op \in T |-> Output(op)]
  <2>1. IsFiniteSet(T)
    BY FS_Subset
  <2>2. \A x \in T : have[x].value \in Nat /\ have[x].value = outs[x].value
    OBVIOUS
  <2> HIDE DEF outs
  <2>3. Worth(have, T) = Worth(outs, T)
    BY <2>1, <2>2, WorthSame
  <2> QED BY <2>3 DEF outs, Value
<1>3. PICK op \in v.ins : Worth(have, v.ins \ {op}) < amount
  BY <1>1 DEF Covers
<1>4. Value(v.ins \ {op}) = Worth(have, v.ins \ {op})
  <2>1. v.ins \ {op} \in SUBSET S
    BY <1>1
  <2> QED BY <1>2, <2>1
<1> QED BY <1>1, <1>2, <1>3, <1>4 DEF Covers

LEMMA SelectClient ==
  ASSUME Types, ClientSound, SelectCoins
  PROVE  ClientSound'
<1> DEFINE have == client.coins
           S == removeLockedUTXOs(have)
           pay == client.pay
<1>0. /\ client.pc = "coins" /\ stored' = stored /\ height' = height
      /\ pay \in Payment /\ pay.amount \in Nat \ {0} /\ client.dropped \in BOOLEAN
      /\ IsFiniteSet(DOMAIN have)
      /\ \A op \in DOMAIN have : CoinOf(stored, op, have[op]) /\ have[op].addr = pay.from
  BY WalletAssumption DEF SelectCoins, ClientSound, chain
<1>1. PICK list \in SortByValue(have, S) :
        client' = [pc |-> "selected", pay |-> pay, dropped |-> client.dropped,
                   taken |-> TakeCoins(have, pay.amount, list),
                   enough |-> Worth(have, S) >= pay.amount]
  BY DEF SelectCoins
<1>2. S \subseteq DOMAIN have /\ \A op \in S : have[op].lock <= height
  BY DEF removeLockedUTXOs, BestHeight
<1> HIDE DEF have, S, pay
<1>3. IsFiniteSet(S)
  BY <1>0, <1>2, FS_Subset
<1>4. \A op \in S : have[op].value \in Nat /\ have[op].value = Output(op).value
  BY <1>0, <1>2, CoinFacts
<1>5. list \in SetToSeqs(S)
  BY DEF SortByValue
<1> DEFINE v == TakeCoins(have, pay.amount, list)
           enough == Worth(have, S) >= pay.amount
           done == v.rest = 0
<1>6. TakenOf(have, pay.amount, S, v)
  BY <1>0, <1>3, <1>4, <1>5, CoinsTaken
<1>7. /\ client'.pc = "selected" /\ client'.pay = pay /\ client'.taken = v
      /\ client'.dropped = client.dropped /\ client'.enough = enough
      /\ DOMAIN client' = {"pc", "pay", "dropped", "taken", "enough"}
  BY <1>1
<1> HIDE DEF v
<1>8. v.ins \subseteq S /\ v.rest \in Nat
  BY <1>6 DEF TakenOf
<1>9. ~done => ~enough
  <2>1. ~done => pay.amount = v.rest + Worth(have, S)
    BY <1>6 DEF TakenOf
  <2>2. Worth(have, S) \in Nat
    BY <1>3, <1>4, WorthRemove
  <2> QED BY <1>0, <1>8, <2>1, <2>2
<1>10. ASSUME NEW op \in v.ins
       PROVE  /\ op \in OutPoint /\ Output(op).addr = pay.from
              /\ \E b \in stored : InBlock(op[1], b) /\ LockOf(op, b) <= height
  <2>1. op \in DOMAIN have /\ have[op].lock <= height
    BY <1>2, <1>8
  <2> QED BY <1>0, <2>1, CoinFacts
<1>11. done => /\ Value(v.ins) = pay.amount + v.change
               /\ \E op \in v.ins : Value(v.ins \ {op}) < pay.amount
  BY <1>0, <1>3, <1>4, <1>6, ChosenSound
<1> HIDE DEF enough, done
<1>12. Sound(stored, pay, v.ins, v.change, done, enough, client.dropped, height)
  BY <1>9, <1>10, <1>11 DEF Sound
<1>13. Sound(stored', client'.pay, client'.taken.ins, client'.taken.change,
             client'.taken.rest = 0, client'.enough, client'.dropped, height')
  BY <1>0, <1>7, <1>12 DEF done
<1>14. v.ins \subseteq OutPoint
  BY <1>10
<1> QED BY <1>0, <1>7, <1>13, <1>14 DEF ClientSound

(* The transaction is what was selected.                                   *)
LEMMA NewMade ==
  ASSUME ClientSound, MadeSound, newTransaction
  PROVE  MadeSound'
<1> DEFINE done == client.taken.rest = 0
           m == [pay |-> client.pay, ins |-> client.taken.ins, made |-> done,
                 enough |-> client.enough, change |-> client.taken.change,
                 lockTime |-> height, dropped |-> client.dropped]
<1>1. made' = made \cup {m} /\ stored' = stored /\ client.pc = "selected"
  BY DEF newTransaction, chain, BestHeight
<1>2. Sound(stored, client.pay, client.taken.ins, client.taken.change,
            done, client.enough, client.dropped, height)
  BY <1>1 DEF ClientSound
<1> HIDE DEF done
<1>3. /\ m.pay = client.pay /\ m.ins = client.taken.ins /\ m.made = done
      /\ m.enough = client.enough /\ m.change = client.taken.change
      /\ m.lockTime = height /\ m.dropped = client.dropped
  OBVIOUS
<1> HIDE DEF m
<1>4. Sound(stored, m.pay, m.ins, m.change, m.made, m.enough, m.dropped, m.lockTime)
  BY <1>2, <1>3
<1> QED BY <1>1, <1>4 DEF MadeSound

(* Every step keeps the coins, the client and the transactions sound.      *)
LEMMA NextPayments ==
  ASSUME Types, Types', SoundPayments, [Next]_vars
  PROVE  SoundPayments'
<1> USE DEF chain, coins, past
<1>0. CoinsKnown /\ ClientSound /\ MadeSound
  BY DEF SoundPayments
<1>1. CASE getAddrFilter \/ (\E a \in Addr : loadAddrFilter(a))
  <2>1. UNCHANGED <<stored, tip, utxos, batch, job, client, height, made>>
    BY <1>1 DEF getAddrFilter, loadAddrFilter
  <2> QED BY <1>0, <2>1, SameCoins, SameClient, SameMade DEF SoundPayments
<1>2. CASE (\E a \in Addr : AddAddress(a)) \/ notifyNewAddress
  <2>1. /\ UNCHANGED <<stored, tip, utxos, batch, job, height, made>>
        /\ client'.pc \notin {"coins", "selected"}
    BY <1>2 DEF AddAddress, notifyNewAddress, Idle
  <2>2. ClientSound'
    BY <2>1 DEF ClientSound
  <2> QED BY <1>0, <2>1, <2>2, SameCoins, SameMade DEF SoundPayments
<1>3. CASE PutTx
  <2>1. UNCHANGED <<stored, client, height, made>>
    BY <1>3 DEF PutTx
  <2> QED BY <1>0, <1>3, <2>1, PutTxCoins, SameClient, SameMade DEF SoundPayments
<1>4. CASE Commit
  <2>1. UNCHANGED <<stored, client, height, made>>
    BY <1>4 DEF Commit
  <2> QED BY <1>0, <1>4, <2>1, CommitCoins, SameClient, SameMade DEF SoundPayments
<1>5. CASE CommitFails \/ DelTxs \/ Restart \/ (\E b \in Block \ {Genesis} : Refuse(b))
  <2>1. /\ UNCHANGED <<stored, utxos, client, height, made>>
        /\ batch' = batch \/ batch' = NoBatch
        /\ job'.pc = "idle"
    BY <1>5 DEF CommitFails, DelTxs, Restart, Refuse, Answer, Idle
  <2> QED BY <1>0, <2>1, SameCoins, SameClient, SameMade DEF SoundPayments
<1>6. ASSUME NEW b \in Block \ {Genesis}, CommitBlock(b)
      PROVE  SoundPayments'
  <2>1. /\ UNCHANGED <<utxos, batch, client, height, made>>
        /\ stored' = stored \cup {b} /\ stored \subseteq stored'
    BY <1>6 DEF CommitBlock
  <2>2. CoinsKnown'
    <3>1. CASE tip' = b /\ job' = [pc |-> "put", left |-> BlockTxs[b], old |-> tip]
      <4>1. /\ \A op \in DOMAIN utxos : CoinOf(stored', op, utxos[op])
            /\ \A op \in DOMAIN batch.utxos : CoinOf(stored', op, batch.utxos[op])
        BY <1>0, <2>1, CoinOfMore DEF CoinsKnown
      <4>2. \A i \in DOMAIN job'.left : InBlock(job'.left[i], tip')
        BY <3>1 DEF InBlock
      <4> QED BY <1>0, <2>1, <4>1, <4>2 DEF CoinsKnown
    <3>2. CASE Answer(b)
      <4>1. job'.pc = "idle"
        BY <3>2 DEF Answer, Idle
      <4> QED BY <1>0, <2>1, <4>1, SameCoins
    <3> QED BY <1>6, <3>1, <3>2 DEF CommitBlock
  <2> QED BY <1>0, <2>1, <2>2, SameClient, SameMade DEF SoundPayments
<1>7. ASSUME NEW b \in Block, NEW current \in BOOLEAN, BlockCommitted(b, current)
      PROVE  SoundPayments'
  <2>1. UNCHANGED <<stored, tip, utxos, batch, job, made>>
    BY <1>7 DEF BlockCommitted
  <2>2. ClientSound'
    BY <1>0, <1>7, NotifiedClient
  <2> QED BY <1>0, <2>1, <2>2, SameCoins, SameMade DEF SoundPayments
<1>8. ASSUME NEW p \in Payment, GetAddressUTXOs(p)
      PROVE  SoundPayments'
  <2>1. UNCHANGED <<stored, tip, utxos, batch, job, made>>
    BY <1>8 DEF GetAddressUTXOs
  <2>2. ClientSound'
    BY <1>0, <1>8, ReadClient
  <2> QED BY <1>0, <2>1, <2>2, SameCoins, SameMade DEF SoundPayments
<1>9. CASE SelectCoins
  <2>1. UNCHANGED <<stored, tip, utxos, batch, job, made>>
    BY <1>9 DEF SelectCoins
  <2>2. ClientSound'
    BY <1>0, <1>9, SelectClient
  <2> QED BY <1>0, <2>1, <2>2, SameCoins, SameMade DEF SoundPayments
<1>10. CASE newTransaction
  <2>1. UNCHANGED <<stored, tip, utxos, batch, job>> /\ client'.pc = "idle"
    BY <1>10 DEF newTransaction, Idle
  <2>2. ClientSound'
    BY <2>1 DEF ClientSound
  <2> QED BY <1>0, <1>10, <2>1, <2>2, SameCoins, NewMade DEF SoundPayments
<1>11. CASE UNCHANGED vars
  BY <1>0, <1>11, SameCoins, SameClient, SameMade DEF vars, SoundPayments
<1> QED
  BY <1>1, <1>2, <1>3, <1>4, <1>5, <1>6, <1>7, <1>8, <1>9, <1>10, <1>11 DEF Next

(* Every transaction the client makes (wallet/client/transaction,          *)
(* wallet/client/wallet.go) spends coins of the sender worth what is paid  *)
(* and the change, none of which could be left out, and none that is       *)
(* locked at its lock time unless the height went down while it was made;  *)
(* it is refused only if there was not enough.  For any coins, any         *)
(* payments, whatever blocks, notifications and faults come in between.    *)
THEOREM TransactionsAlwaysValid == Spec => []TransactionsValid
<1>1. Init => Types /\ SoundPayments
  BY InitTypes, InitPayments
<1>2. Types /\ SoundPayments /\ [Next]_vars => Types' /\ SoundPayments'
  BY NextTypes, NextPayments
<1>3. SoundPayments => TransactionsValid
  BY DEF SoundPayments, MadeSound, Sound, TransactionsValid, Value, InBlock
<1> QED
  BY <1>1, <1>2, <1>3, PTL DEF Spec

-----------------------------------------------------------------------------
(* The coins of the main chain, until the first reorganisation or fault.   *)

(* Addresses that were loaded are in the filter, or will be again.         *)
FilterKnown ==
  /\ filter = None => known = {} /\ loading = None
  /\ filter # None =>
       /\ loading = None => known = filter
       /\ loading # None => filter \subseteq known /\ known \subseteq filter \cup loading

SpentIn(op, b) == \E i \in DOMAIN BlockTxs[b] : op \in Tx[BlockTxs[b][i]].ins

(* The tables are those of the branch of top.                              *)
Follows(top) ==
  /\ \A b \in Branch[top] : b \in Block /\ Height[b] <= Height[top]
  /\ DOMAIN utxos = {op \in OutPoint : \E b \in Branch[top] : OnChain(op, b)}
  /\ DOMAIN stxos \subseteq DOMAIN utxos
  /\ \A b \in Branch[top], op \in DOMAIN utxos : OnChain(op, b) =>
       /\ utxos[op] = NewUTXO(op[1], op[2], Height[b])
       /\ op \in DOMAIN stxos <=>
            \E c \in Branch[top] : Height[c] > Height[b] /\ SpentIn(op, c)

(* The batch has what the first k transactions of the tip add.             *)
BatchOf(k) ==
  LET all == BlockTxs[tip]
      done == FirstOf(all, k)
  IN /\ Len(job.left) = Len(all) - k
     /\ \A i \in 1 .. Len(all) - k : job.left[i] = all[k + i]
     /\ done \subseteq DOMAIN seen
     /\ DOMAIN batch.utxos = {op \in OutPoint : op[1] \in done /\ Output(op).addr \in seen[op[1]]}
     /\ \A op \in DOMAIN batch.utxos : batch.utxos[op] = NewUTXO(op[1], op[2], Height[tip])
     /\ DOMAIN batch.stxos = {op \in DOMAIN utxos : \E t \in done : op \in Tx[t].ins}

Extending == /\ tip # Genesis /\ Follows(Prev[tip])
             /\ \E k \in 0 .. Len(BlockTxs[tip]) : BatchOf(k)
Following ==
  /\ faults \in Nat /\ FilterKnown
  /\ (wrong = {} /\ faults = 0) =>
       /\ job = Idle => Follows(tip)
       /\ (job.pc = "put" /\ job.old = Prev[tip]) => Extending

LEMMA InitFollowing == Init => Following
<1> SUFFICES ASSUME Init PROVE Following
  OBVIOUS
<1>1. /\ DOMAIN utxos = {} /\ DOMAIN stxos = {} /\ DOMAIN seen = {} /\ tip = Genesis
      /\ job.pc = "idle" /\ faults = 0
  BY DEF Init, Idle
<1>2. Follows(tip)
  <2>1. Branch[tip] = {Genesis} /\ Genesis \in Block /\ Height[Genesis] = 0
    BY <1>1, TreeAssumption
  <2>2. \A op, b : ~OnChain(op, b)
    BY <1>1 DEF OnChain
  <2> QED BY <1>1, <2>1, <2>2 DEF Follows
<1>3. FilterKnown
  BY DEF Init, FilterKnown
<1> QED BY <1>1, <1>2, <1>3 DEF Following

(* A block above a branch is not on it and has none of its transactions.   *)
LEMMA AboveBranch ==
  ASSUME NEW b \in Block, b # Genesis,
         \A c \in Branch[Prev[b]] : c \in Block /\ Height[c] <= Height[Prev[b]]
  PROVE  /\ Branch[b] = {b} \cup Branch[Prev[b]]
         /\ Height[b] \in Nat /\ Height[Prev[b]] \in Nat
         /\ Height[b] = 1 + Height[Prev[b]]
         /\ \A c \in Branch[Prev[b]] : Height[c] < Height[b]
         /\ \A c \in Branch[Prev[b]] : \A t : InBlock(t, c) => ~InBlock(t, b)
<1>1. /\ Prev[b] \in Block /\ Branch[b] = {b} \cup Branch[Prev[b]]
      /\ Height[b] = 1 + Height[Prev[b]] /\ \A c \in Block : Height[c] \in Nat
  BY TreeAssumption
<1>2. ASSUME NEW c \in Branch[Prev[b]] PROVE Height[c] < Height[b]
  <2>1. c \in Block /\ Height[c] <= Height[Prev[b]]
    OBVIOUS
  <2>2. Height[c] \in Nat /\ Height[Prev[b]] \in Nat
    BY <1>1, <2>1
  <2> QED BY <1>1, <2>1, <2>2
<1>3. Height[b] \in Nat
  BY <1>1
<1>4. b \notin Branch[Prev[b]]
  BY <1>2, <1>3
<1>5. \A c \in Branch[Prev[b]] : \A t : InBlock(t, c) => ~InBlock(t, b)
  <2> SUFFICES ASSUME NEW c \in Branch[Prev[b]], NEW t, InBlock(t, c), InBlock(t, b)
               PROVE  FALSE
    OBVIOUS
  <2>1. PICK i \in DOMAIN BlockTxs[c] : BlockTxs[c][i] = t
    BY DEF InBlock
  <2>2. PICK j \in DOMAIN BlockTxs[b] : BlockTxs[b][j] = t
    BY DEF InBlock
  <2>3. c \in Branch[b] /\ b \in Branch[b]
    BY <1>1
  <2>4. BlockTxs[c][i] = BlockTxs[b][j]
    BY <2>1, <2>2
  <2>5. c = b
    BY <2>3, <2>4, OnceAssumption
  <2> QED BY <1>4, <2>5
<1> QED BY <1>1, <1>2, <1>3, <1>5

(* The tables still follow a branch when no transaction of it was put.     *)
LEMMA SameFollows ==
  ASSUME NEW top, Follows(top), UNCHANGED <<utxos, stxos>>,
         \A b \in Branch[top], op \in OutPoint : OnChain(op, b)' = OnChain(op, b),
         DOMAIN utxos \subseteq OutPoint
  PROVE  Follows(top)'
<1>1. (\A b \in Branch[top] : b \in Block /\ Height[b] <= Height[top])'
  BY DEF Follows
<1>2. (DOMAIN utxos = {op \in OutPoint : \E b \in Branch[top] : OnChain(op, b)})'
  <2>1. DOMAIN utxos = {op \in OutPoint : \E b \in Branch[top] : OnChain(op, b)}
    BY DEF Follows
  <2>2. \A op \in OutPoint : (\E b \in Branch[top] : OnChain(op, b))
                             <=> (\E b \in Branch[top] : OnChain(op, b)')
    OBVIOUS
  <2> QED BY <2>1, <2>2
<1>3. (\A b \in Branch[top], op \in DOMAIN utxos : OnChain(op, b) =>
        /\ utxos[op] = NewUTXO(op[1], op[2], Height[b])
        /\ op \in DOMAIN stxos <=>
             \E c \in Branch[top] : Height[c] > Height[b] /\ SpentIn(op, c))'
  <2>1. \A b \in Branch[top], op \in DOMAIN utxos : OnChain(op, b) =>
          /\ utxos[op] = NewUTXO(op[1], op[2], Height[b])
          /\ op \in DOMAIN stxos <=>
               \E c \in Branch[top] : Height[c] > Height[b] /\ SpentIn(op, c)
    BY DEF Follows
  <2> QED BY <2>1
<1>4. (DOMAIN stxos \subseteq DOMAIN utxos)'
  BY DEF Follows
<1> QED BY <1>1, <1>2, <1>3, <1>4 DEF Follows

(* One more transaction of the tip is put.                                 *)
LEMMA PutTxFollowing ==
  ASSUME Types, Agree, Following, PutTx
  PROVE  Following'
<1> USE DEF chain, coins, past
<1>0. /\ UNCHANGED <<stored, tip, utxos, stxos, filter, loading, known>>
      /\ filter # None /\ tip \in Block /\ FilterKnown
  BY DEF PutTx, Types, TypeOK, Following
<1>1. faults' \in Nat /\ FilterKnown'
  <2>1. faults' = faults \/ faults' = faults + 1
    BY DEF PutTx
  <2>2. FilterKnown'
    BY <1>0 DEF FilterKnown
  <2> QED BY <2>1, <2>2 DEF Following
<1>2. /\ job \in [pc : {"put"}, left : Seq(Hash), old : stored]
      /\ job.left \in Seq(Hash) /\ job.left # <<>> /\ job.pc = "put"
      /\ job' = [job EXCEPT !.left = Tail(job.left)]
  <2>1. job \in Job /\ job.pc = "put"
    BY DEF PutTx, Putting, Types, Working
  <2>2. job \in [pc : {"put"}, left : Seq(Hash), old : stored]
    BY <2>1 DEF Job, Idle
  <2>3. job.left # <<>> /\ job' = [job EXCEPT !.left = Tail(job.left)]
    BY DEF PutTx
  <2> QED BY <2>1, <2>2, <2>3
<1>3. job'.pc = "put" /\ job'.old = job.old /\ job'.left = Tail(job.left) /\ job' # Idle
  BY <1>2 DEF Idle
<1> SUFFICES ASSUME wrong' = {}, faults' = 0, job.old = Prev[tip]
             PROVE  Extending'
  BY <1>0, <1>1, <1>3 DEF Following
<1> DEFINE t == Head(job.left)
           n == Height[tip]
           all == BlockTxs[tip]
<1>4. /\ batch' = Saved(batch, t, n, Spends(t), Paid(t))
      /\ wrong = {} /\ faults = 0 /\ loading = None
      /\ seen' = Over(Row(t, known), seen)
  BY DEF PutTx
<1>5. Extending
  BY <1>2, <1>4 DEF Following
<1>6. PICK k \in 0 .. Len(all) : BatchOf(k)
  BY <1>5 DEF Extending
<1>7. all \in Seq(Hash) /\ Len(all) \in Nat /\ DOMAIN all = 1 .. Len(all)
  BY <1>0, WalletAssumption, LenProperties DEF Hash
<1>8. /\ Len(job.left) = Len(all) - k /\ Len(job.left) \in Nat \ {0}
      /\ \A i \in 1 .. Len(all) - k : job.left[i] = all[k + i]
      /\ Len(Tail(job.left)) = Len(job.left) - 1
      /\ \A i \in 1 .. Len(job.left) - 1 : Tail(job.left)[i] = job.left[i + 1]
      /\ t = job.left[1]
  BY <1>2, <1>6, EmptySeq, HeadTailProperties DEF BatchOf
<1>9. k + 1 \in 1 .. Len(all) /\ t = all[k + 1] /\ t \in Hash
  <2>1. k \in Nat /\ k <= Len(all) - 1 /\ 1 \in 1 .. Len(all) - k
    BY <1>7, <1>8
  <2>2. t = all[k + 1]
    BY <1>8, <2>1
  <2> HIDE DEF t, all
  <2> QED BY <1>7, <2>1, <2>2
<1> HIDE DEF t, n, all
<1>10. /\ Len(job'.left) = Len(all) - (k + 1)
       /\ \A i \in 1 .. Len(all) - (k + 1) : job'.left[i] = all[(k + 1) + i]
  <2> DEFINE m == Len(all)
             l == Len(job.left)
  <2>0. m \in Nat /\ l \in Nat \ {0} /\ k \in Nat /\ l = m - k
    <3>1. m \in Nat /\ k \in Nat
      BY <1>7
    <3>2. l \in Nat \ {0} /\ l = m - k
      BY <1>8, Zenon
    <3> QED BY <3>1, <3>2
  <2>1. Len(job'.left) = Len(all) - (k + 1)
    <3>1. Len(job'.left) = l - 1
      BY <1>3, <1>8
    <3>2. l - 1 = m - (k + 1)
      <4> HIDE DEF l, m
      <4> QED BY <2>0
    <3> QED BY <3>1, <3>2
  <2>2. ASSUME NEW i \in 1 .. Len(all) - (k + 1) PROVE job'.left[i] = all[(k + 1) + i]
    <3>1. i \in 1 .. m - (k + 1)
      OBVIOUS
    <3>2. i \in 1 .. l - 1 /\ i + 1 \in 1 .. m - k /\ k + (i + 1) = (k + 1) + i
      <4> HIDE DEF l, m
      <4> QED BY <2>0, <3>1
    <3> QED BY <1>3, <1>8, <3>2
  <2> QED BY <2>1, <2>2
<1>11. FirstOf(all, k + 1) = FirstOf(all, k) \cup {t} /\ t \notin FirstOf(all, k)
  <2>1. 1 .. k + 1 = (1 .. k) \cup {k + 1}
    BY <1>7
  <2>2. \A i \in 1 .. k : all[i] # all[k + 1]
    <3>1. tip \in Branch[tip]
      BY <1>0, <1>5, TreeAssumption DEF Extending
    <3>2. ASSUME NEW i \in 1 .. k, all[i] = all[k + 1] PROVE FALSE
      <4>1. i \in DOMAIN all /\ k + 1 \in DOMAIN all /\ i # k + 1
        BY <1>7, <1>9
      <4> QED BY <1>0, <3>1, <3>2, <4>1, OnceAssumption DEF all
    <3> QED BY <3>2
  <2> QED BY <1>9, <2>1, <2>2 DEF FirstOf
<1>12. /\ \A x : x \in DOMAIN seen' <=> x = t \/ x \in DOMAIN seen
       /\ seen'[t] = known /\ \A x \in DOMAIN seen \ {t} : seen'[x] = seen[x]
  BY <1>4, OverRow
<1>13. /\ \A b \in Branch[Prev[tip]] : ~InBlock(t, b)
       /\ InBlock(t, tip)
  <2>1. InBlock(t, tip)
    BY <1>7, <1>9 DEF InBlock, all
  <2>2. \A c \in Branch[Prev[tip]] : c \in Block /\ Height[c] <= Height[Prev[tip]]
    BY <1>5 DEF Extending, Follows
  <2> QED BY <1>0, <1>5, <2>1, <2>2, AboveBranch DEF Extending
<1>14. Follows(Prev[tip])'
  <2> PICK top : top = Prev[tip]
    OBVIOUS
  <2>1. ASSUME NEW b \in Branch[top], NEW op \in OutPoint
        PROVE  OnChain(op, b)' = OnChain(op, b)
    <3>1. CASE op[1] = t
      BY <1>13, <3>1 DEF OnChain, InBlock
    <3>2. CASE op[1] # t
      BY <1>12, <3>2 DEF OnChain
    <3> QED BY <3>1, <3>2
  <2>2. Follows(top) /\ DOMAIN utxos \subseteq OutPoint
    BY <1>5 DEF Extending, Types, TypeOK
  <2>3. Follows(top)'
    BY <1>0, <2>1, <2>2, SameFollows
  <2> QED BY <1>0, <2>3
<1>15. /\ batch'.utxos = PutUTXOs(batch.utxos, t, n, Paid(t))
       /\ batch'.stxos = PutSTXOs(batch.stxos, t, n, Spends(t))
  BY <1>4 DEF Saved
<1>16. /\ FirstOf(all, k) \subseteq DOMAIN seen
       /\ DOMAIN batch.utxos = {op \in OutPoint : /\ op[1] \in FirstOf(all, k)
                                                  /\ Output(op).addr \in seen[op[1]]}
       /\ \A op \in DOMAIN batch.utxos : batch.utxos[op] = NewUTXO(op[1], op[2], n)
       /\ DOMAIN batch.stxos = {op \in DOMAIN utxos :
                                  \E x \in FirstOf(all, k) : op \in Tx[x].ins}
  BY <1>6 DEF BatchOf, all, n
<1>17. known = filter
  BY <1>0, <1>4 DEF FilterKnown
<1>18. FirstOf(all, k + 1) \subseteq DOMAIN seen'
  BY <1>11, <1>12, <1>16
<1>19. ASSUME NEW op
       PROVE  op \in DOMAIN batch'.utxos <=>
                /\ op \in OutPoint /\ op[1] \in FirstOf(all, k + 1)
                /\ Output(op).addr \in seen'[op[1]]
  <2>1. op \in DOMAIN batch'.utxos <=>
          (\E i \in Paid(t) : op = <<t, i>>) \/ op \in DOMAIN batch.utxos
    BY <1>15, PutCoins
  <2>2. (\E i \in Paid(t) : op = <<t, i>>) <=>
          op \in OutPoint /\ op[1] = t /\ Output(op).addr \in known
    <3>1. ASSUME NEW i \in Paid(t), op = <<t, i>>
          PROVE  op \in OutPoint /\ op[1] = t /\ Output(op).addr \in known
      BY <1>9, <1>17, <3>1 DEF Paid, ContainAddr, OutPoint, Output
    <3>2. ASSUME op \in OutPoint, op[1] = t, Output(op).addr \in known
          PROVE  \E i \in Paid(t) : op = <<t, i>>
      <4>1. op = <<t, op[2]>> /\ op[2] \in DOMAIN Tx[t].outs
        BY <3>2, OutPointParts
      <4>2. op[2] \in Paid(t)
        BY <1>17, <3>2, <4>1 DEF Paid, ContainAddr, Output
      <4> QED BY <4>1, <4>2
    <3> QED BY <3>1, <3>2
  <2>3. op \in DOMAIN batch.utxos <=>
          /\ op \in OutPoint /\ op[1] \in FirstOf(all, k) /\ op[1] # t
          /\ Output(op).addr \in seen'[op[1]]
    BY <1>11, <1>12, <1>16
  <2> QED BY <1>11, <1>12, <2>1, <2>2, <2>3
<1>20. ASSUME NEW op \in DOMAIN batch'.utxos
       PROVE  batch'.utxos[op] = NewUTXO(op[1], op[2], n)
  <2>1. CASE \E i \in Paid(t) : op = <<t, i>>
    BY <1>15, <2>1, PutCoins
  <2>2. CASE \A i \in Paid(t) : op # <<t, i>>
    <3>1. op \in DOMAIN batch.utxos
      BY <1>15, <2>2, PutCoins
    <3>2. batch'.utxos[op] = batch.utxos[op]
      BY <1>15, <2>2, <3>1, PutCoins
    <3> QED BY <1>16, <3>1, <3>2
  <2> QED BY <2>1, <2>2
<1>21. DOMAIN batch'.stxos = {op \in DOMAIN utxos :
                                \E x \in FirstOf(all, k + 1) : op \in Tx[x].ins}
  <2>1. Spends(t) = {op \in DOMAIN utxos : op \in Tx[t].ins}
    BY DEF Spends, GetUTXO, Agree, CoinsLoaded
  <2>2. \A op : op \in DOMAIN batch'.stxos <=> op \in Spends(t) \/ op \in DOMAIN batch.stxos
    BY <1>15, PutSpendings
  <2> QED BY <1>11, <1>16, <2>1, <2>2
<1>22. BatchOf(k + 1)'
  BY <1>0, <1>10, <1>18, <1>19, <1>20, <1>21 DEF BatchOf, all, n
<1> QED BY <1>0, <1>5, <1>7, <1>9, <1>14, <1>22 DEF Extending, all

(* The batch of a whole block is committed.                                *)
LEMMA CommitFollowing ==
  ASSUME Types, Agree, Following, Commit
  PROVE  Following'
<1> USE DEF chain, coins, past
<1>0. /\ UNCHANGED <<stored, tip, filter, loading, known, seen, wrong, faults>>
      /\ tip \in Block /\ FilterKnown /\ faults \in Nat
      /\ utxos' = Over(batch.utxos, utxos) /\ stxos' = Over(batch.stxos, stxos)
  BY DEF Commit, Types, TypeOK, Following
<1>1. FilterKnown'
  BY <1>0 DEF FilterKnown
<1>2. job.pc = "put" /\ job.left = <<>> /\ job'.pc # "put"
  BY DEF Commit, Putting, AfterPut, Answer, Idle
<1>3. job' = Idle => job.old = Prev[tip]
  BY DEF Commit, AfterPut, Idle
<1> SUFFICES ASSUME wrong = {}, faults = 0, job.old = Prev[tip]
             PROVE  Follows(tip)'
  BY <1>0, <1>1, <1>2, <1>3 DEF Following
<1> DEFINE all == BlockTxs[tip]
           old == Prev[tip]
           n == Height[tip]
<1>4. Extending
  BY <1>2 DEF Following
<1>5. PICK k \in 0 .. Len(all) : BatchOf(k)
  BY <1>4 DEF Extending
<1>6. all \in Seq(Hash) /\ Len(all) \in Nat /\ DOMAIN all = 1 .. Len(all)
  BY <1>0, WalletAssumption, LenProperties DEF Hash
<1>7. k = Len(all)
  <2>1. Len(job.left) = 0 /\ Len(job.left) = Len(all) - k
    BY <1>2, <1>5, EmptySeq DEF BatchOf
  <2> QED BY <1>6, <2>1
<1>8. \A t : t \in FirstOf(all, k) <=> InBlock(t, tip)
  BY <1>6, <1>7 DEF FirstOf, InBlock
<1>9. /\ \A t : InBlock(t, tip) => t \in DOMAIN seen
      /\ \A op : op \in DOMAIN batch.utxos <=>
           op \in OutPoint /\ InBlock(op[1], tip) /\ Output(op).addr \in seen[op[1]]
      /\ \A op \in DOMAIN batch.utxos : batch.utxos[op] = NewUTXO(op[1], op[2], n)
      /\ \A op : op \in DOMAIN batch.stxos <=>
           op \in DOMAIN utxos /\ \E t : InBlock(t, tip) /\ op \in Tx[t].ins
  BY <1>5, <1>8 DEF BatchOf
<1>10. \A op : (\E t : InBlock(t, tip) /\ op \in Tx[t].ins) <=> SpentIn(op, tip)
  BY DEF InBlock, SpentIn
<1>11. /\ \A b \in Branch[old] : b \in Block /\ Height[b] <= Height[old]
       /\ DOMAIN utxos = {op \in OutPoint : \E b \in Branch[old] : OnChain(op, b)}
       /\ DOMAIN stxos \subseteq DOMAIN utxos
       /\ \A b \in Branch[old], op \in DOMAIN utxos : OnChain(op, b) =>
            /\ utxos[op] = NewUTXO(op[1], op[2], Height[b])
            /\ op \in DOMAIN stxos <=>
                 \E c \in Branch[old] : Height[c] > Height[b] /\ SpentIn(op, c)
       /\ tip # Genesis
  BY <1>4 DEF Extending, Follows
<1>12. /\ Branch[tip] = {tip} \cup Branch[old] /\ n \in Nat
       /\ \A c \in Branch[old] : Height[c] < n /\ Height[c] \in Nat
       /\ \A c \in Branch[old] : \A t : InBlock(t, c) => ~InBlock(t, tip)
  <2>1. \A c \in Branch[Prev[tip]] : c \in Block /\ Height[c] <= Height[Prev[tip]]
    BY <1>11
  <2>2. \A c \in Branch[old] : Height[c] \in Nat
    BY <1>11, TreeAssumption
  <2> QED BY <1>0, <1>11, <2>1, <2>2, AboveBranch
<1>13. \A op, b : OnChain(op, b)' = OnChain(op, b)
  BY <1>0 DEF OnChain
<1>14. \A op, b : OnChain(op, b) => InBlock(op[1], b)
  BY DEF OnChain, InBlock
<1>15. \A op : op \in DOMAIN batch.utxos <=> op \in OutPoint /\ OnChain(op, tip)
  <2>1. ASSUME NEW op, op \in DOMAIN batch.utxos
        PROVE  op \in OutPoint /\ OnChain(op, tip)
    BY <1>9, <2>1, OutPointParts DEF OnChain, InBlock
  <2>2. ASSUME NEW op \in OutPoint, OnChain(op, tip)
        PROVE  op \in DOMAIN batch.utxos
    BY <1>9, <2>2 DEF OnChain, InBlock
  <2> QED BY <2>1, <2>2
<1> HIDE DEF all, old, n
<1>16. \A op : op \in DOMAIN utxos => op \notin DOMAIN batch.utxos
  BY <1>9, <1>11, <1>12, <1>14
<1>17. /\ \A op : op \in DOMAIN utxos' <=> op \in DOMAIN batch.utxos \/ op \in DOMAIN utxos
       /\ \A op \in DOMAIN batch.utxos : utxos'[op] = batch.utxos[op]
       /\ \A op \in DOMAIN utxos : utxos'[op] = utxos[op]
       /\ \A op : op \in DOMAIN stxos' <=> op \in DOMAIN batch.stxos \/ op \in DOMAIN stxos
  BY <1>0, <1>16, OverRows
<1>18. DOMAIN utxos' = {op \in OutPoint : \E b \in Branch[tip] : OnChain(op, b)}
  BY <1>11, <1>12, <1>15, <1>17
<1>19. DOMAIN stxos' \subseteq DOMAIN utxos'
  BY <1>9, <1>11, <1>17
<1>20. \A b \in Branch[tip] : b \in Block /\ Height[b] <= n
  BY <1>0, <1>11, <1>12 DEF n
<1>21. ASSUME NEW b \in Branch[old], NEW op \in DOMAIN utxos', OnChain(op, b)
       PROVE  /\ utxos'[op] = NewUTXO(op[1], op[2], Height[b])
              /\ op \in DOMAIN stxos' <=>
                   \E c \in Branch[tip] : Height[c] > Height[b] /\ SpentIn(op, c)
  <2>1. op \in DOMAIN utxos /\ op \notin DOMAIN batch.utxos
    BY <1>11, <1>18, <1>16, <1>21
  <2>2. utxos'[op] = NewUTXO(op[1], op[2], Height[b])
    BY <1>11, <1>17, <1>21, <2>1
  <2>3. op \in DOMAIN stxos <=>
          \E c \in Branch[old] : Height[c] > Height[b] /\ SpentIn(op, c)
    BY <1>11, <1>21, <2>1
  <2>4. op \in DOMAIN batch.stxos <=> SpentIn(op, tip)
    BY <1>9, <1>10, <2>1
  <2>5. Height[tip] > Height[b]
    BY <1>12 DEF n
  <2> QED BY <1>12, <1>17, <2>2, <2>3, <2>4, <2>5
<1>22. ASSUME NEW op \in DOMAIN utxos', OnChain(op, tip)
       PROVE  /\ utxos'[op] = NewUTXO(op[1], op[2], n)
              /\ op \notin DOMAIN stxos'
              /\ ~ \E c \in Branch[tip] : Height[c] > n /\ SpentIn(op, c)
  <2>1. op \in DOMAIN batch.utxos /\ op \notin DOMAIN utxos
    BY <1>15, <1>16, <1>18, <1>22
  <2>2. op \notin DOMAIN stxos'
    BY <1>9, <1>11, <1>17, <2>1
  <2>3. \A c \in Branch[tip] : ~(Height[c] > n)
    BY <1>12 DEF n
  <2> QED BY <1>9, <1>17, <2>1, <2>2, <2>3
<1>23. \A b \in Branch[tip], op \in DOMAIN utxos' : OnChain(op, b) =>
         /\ utxos'[op] = NewUTXO(op[1], op[2], Height[b])
         /\ op \in DOMAIN stxos' <=>
              \E c \in Branch[tip] : Height[c] > Height[b] /\ SpentIn(op, c)
  BY <1>12, <1>21, <1>22 DEF n
<1> QED BY <1>0, <1>13, <1>18, <1>19, <1>20, <1>23 DEF Follows, n

(* A block is connected, or goes to a fork.                                *)
LEMMA ConnectFollowing ==
  ASSUME Types, Following, NEW b \in Block \ {Genesis}, CommitBlock(b)
  PROVE  Following'
<1> USE DEF chain, coins, past
<1>0. /\ UNCHANGED <<utxos, stxos, batch, filter, loading, known, seen, wrong, faults>>
      /\ job = Idle /\ FilterKnown /\ faults \in Nat /\ DOMAIN utxos \subseteq OutPoint
      /\ job.pc = "idle" /\ batch = NoBatch
  BY DEF CommitBlock, Following, Types, TypeOK, Working, Idle
<1>1. FilterKnown'
  BY <1>0 DEF FilterKnown
<1> SUFFICES ASSUME wrong = {}, faults = 0
             PROVE  /\ job' = Idle => Follows(tip)'
                    /\ (job'.pc = "put" /\ job'.old = Prev[tip']) => Extending'
  BY <1>0, <1>1 DEF Following
<1>2. Follows(tip)
  BY <1>0 DEF Following
<1> PICK top : top = tip
  OBVIOUS
<1>3. Follows(top)'
  <2>1. \A c, op : OnChain(op, c)' = OnChain(op, c)
    BY <1>0 DEF OnChain
  <2>2. Follows(top)
    BY <1>2
  <2> QED BY <1>0, <2>1, <2>2, SameFollows
<1>4. CASE tip' = b /\ job' = [pc |-> "put", left |-> BlockTxs[b], old |-> tip]
  <2>1. job' # Idle /\ job'.old = top /\ job'.left = BlockTxs[b]
    BY <1>4 DEF Idle
  <2>2. Len(BlockTxs[b]) \in Nat
    BY WalletAssumption, LenProperties
  <2>3. BatchOf(0)'
    <3>1. FirstOf(BlockTxs[b], 0) = {}
      BY DEF FirstOf
    <3>2. DOMAIN batch'.utxos = {} /\ DOMAIN batch'.stxos = {}
      BY <1>0, NoBatchTyped
    <3> QED BY <1>4, <2>1, <2>2, <3>1, <3>2 DEF BatchOf
  <2>4. b # Genesis
    OBVIOUS
  <2>5. ASSUME job'.old = Prev[tip'] PROVE Extending'
    <3>1. Prev[tip'] = top
      BY <2>1, <2>5
    <3>2. 0 \in 0 .. Len(BlockTxs[tip'])
      BY <1>4, <2>2
    <3> QED BY <1>3, <1>4, <2>3, <2>4, <3>1, <3>2 DEF Extending
  <2> QED BY <2>1, <2>5
<1>5. CASE tip' = tip /\ Answer(b)
  <2>1. job' = Idle /\ job'.pc = "idle"
    BY <1>5 DEF Answer, Idle
  <2> QED BY <1>3, <1>5, <2>1
<1> QED BY <1>4, <1>5 DEF CommitBlock

(* The other actions of the daemon and of the client.                      *)
LEMMA SameFollowing ==
  ASSUME Types, Following, FilterKnown', faults' = faults, wrong' = wrong,
         UNCHANGED <<tip, utxos, stxos, seen, batch, job>>
  PROVE  Following'
<1> PICK top : top = tip
  OBVIOUS
<1> PICK old : old = Prev[tip]
  OBVIOUS
<1>1. \A c, op : OnChain(op, c)' = OnChain(op, c)
  BY DEF OnChain
<1>2. DOMAIN utxos \subseteq OutPoint
  BY DEF Types, TypeOK
<1>3. Follows(top) => Follows(top)'
  BY <1>1, <1>2, SameFollows
<1>4. Follows(old) => Follows(old)'
  BY <1>1, <1>2, SameFollows
<1>5. \A k : BatchOf(k)' = BatchOf(k)
  BY DEF BatchOf
<1>6. Extending => Extending'
  BY <1>4, <1>5 DEF Extending
<1> QED BY <1>3, <1>6 DEF Following

LEMMA NextFollowing ==
  ASSUME Types, Types', Agree, Following, [Next]_vars
  PROVE  Following'
<1> USE DEF chain, coins, past
<1>0. /\ FilterKnown /\ faults \in Nat
      /\ filter = None \/ filter \subseteq addrs
      /\ known \subseteq addrs /\ addrs \subseteq Addr /\ addrs # None /\ {} # None
      /\ loading = None \/ loading \subseteq addrs
  BY NoneAssumption DEF Following, Types, Working
<1>1. CASE getAddrFilter
  <2>1. FilterKnown'
    BY <1>0, <1>1 DEF getAddrFilter, StartLoad, GetAllAddrs, FilterKnown
  <2> QED BY <1>1, <2>1, SameFollowing DEF getAddrFilter
<1>2. ASSUME NEW a \in Addr, loadAddrFilter(a)
      PROVE  Following'
  <2>1. /\ loading # None /\ a \in loading /\ filter # None
        /\ filter' = filter \cup {a} /\ known' = known \cup {a}
        /\ loading' = IF loading = {a} THEN None ELSE loading \ {a}
    BY <1>2 DEF loadAddrFilter, AddAddr, Types, TypeOK
  <2>2. /\ filter \subseteq known /\ known \subseteq filter \cup loading
        /\ filter \cup {a} # None
    BY <1>0, <2>1, NoneAssumption DEF FilterKnown
  <2>3. FilterKnown'
    <3>1. CASE loading = {a}
      <4>1. loading' = None /\ known' = filter' /\ filter' # None
        BY <2>1, <2>2, <3>1
      <4> QED BY <4>1 DEF FilterKnown
    <3>2. CASE loading # {a}
      <4>1. /\ loading' = loading \ {a} /\ filter' \subseteq known'
            /\ known' \subseteq filter' \cup loading'
        BY <2>1, <2>2, <3>2
      <4>2. loading' # None /\ filter' # None
        BY <1>0, <2>1, <2>2, <3>2, NoneAssumption
      <4> QED BY <4>1, <4>2 DEF FilterKnown
    <3> QED BY <3>1, <3>2
  <2> QED BY <1>2, <2>3, SameFollowing DEF loadAddrFilter
<1>3. ASSUME NEW a \in Addr, AddAddress(a)
      PROVE  Following'
  <2>1. FilterKnown'
    BY <1>0, <1>3 DEF AddAddress, FilterKnown
  <2> QED BY <1>3, <2>1, SameFollowing DEF AddAddress
<1>4. CASE notifyNewAddress
  <2>1. FilterKnown'
    <3>1. known' = known
      BY <1>4 DEF notifyNewAddress
    <3>2. CASE loading = None /\ StartLoad
      BY <1>0, <3>1, <3>2 DEF StartLoad, GetAllAddrs, FilterKnown
    <3>3. CASE UNCHANGED <<filter, loading>>
      BY <1>0, <3>1, <3>3 DEF FilterKnown
    <3> QED BY <1>4, <3>2, <3>3 DEF notifyNewAddress
  <2> QED BY <1>4, <2>1, SameFollowing DEF notifyNewAddress
<1>5. CASE PutTx
  BY <1>5, PutTxFollowing
<1>6. CASE Commit
  BY <1>6, CommitFollowing
<1>7. CASE CommitFails \/ Restart
  <2>1. faults' = faults + 1 /\ faults' \in Nat /\ faults' # 0
    BY <1>0, <1>7 DEF CommitFails, Restart
  <2>2. FilterKnown'
    BY <1>0, <1>7 DEF CommitFails, Restart, FilterKnown
  <2> QED BY <2>1, <2>2 DEF Following
<1>8. CASE DelTxs
  <2>1. wrong' # {} /\ faults' = faults /\ FilterKnown'
    BY <1>0, <1>8 DEF DelTxs, FilterKnown
  <2> QED BY <1>0, <2>1 DEF Following
<1>9. ASSUME NEW b \in Block \ {Genesis}, CommitBlock(b)
      PROVE  Following'
  BY <1>9, ConnectFollowing
<1>10. ASSUME NEW b \in Block \ {Genesis}, Refuse(b)
       PROVE  Following'
  <2>1. job' = job /\ FilterKnown'
    BY <1>0, <1>10 DEF Refuse, Answer, FilterKnown
  <2> QED BY <1>10, <2>1, SameFollowing DEF Refuse
<1>11. CASE \/ \E b \in Block, current \in BOOLEAN : BlockCommitted(b, current)
            \/ \E p \in Payment : GetAddressUTXOs(p)
            \/ SelectCoins \/ newTransaction
  <2>1. UNCHANGED <<tip, utxos, stxos, seen, batch, job, wrong, faults, filter, loading,
                    known>>
    BY <1>11 DEF BlockCommitted, GetAddressUTXOs, SelectCoins, newTransaction
  <2>2. FilterKnown'
    BY <1>0, <2>1 DEF FilterKnown
  <2> QED BY <2>1, <2>2, SameFollowing
<1>12. CASE UNCHANGED vars
  <2>1. FilterKnown'
    BY <1>0, <1>12 DEF vars, FilterKnown
  <2> QED BY <1>12, <2>1, SameFollowing DEF vars
<1> QED
  BY <1>1, <1>2, <1>3, <1>4, <1>5, <1>6, <1>7, <1>8, <1>9, <1>10, <1>11, <1>12 DEF Next

(* Until the first reorganisation or fault, and unless a transaction was   *)
(* put while the filter was being loaded, the coins and their spendings    *)
(* (spvwallet.go:39-88) are exactly those of the main chain.               *)
THEOREM CoinsAlwaysFollowChain == Spec => []CoinsFollowChain
<1>1. Init => Types /\ Agree /\ Following
  BY InitTypes, InitAgree, InitFollowing
<1>2. Types /\ Agree /\ Following /\ [Next]_vars => Types' /\ Agree' /\ Following'
  BY NextTypes, NextAgree, NextFollowing
<1>3. Following => CoinsFollowChain
  <2> SUFFICES ASSUME Following, job = Idle, wrong = {}, faults = 0
               PROVE  CoinsFollowChain
    BY DEF CoinsFollowChain
  <2>1. Follows(tip)
    BY DEF Following
  <2>2. \A op, b : NewUTXO(op[1], op[2], Height[b]) =
          [addr |-> Output(op).addr, value |-> Output(op).value,
           at |-> Height[b], lock |-> LockOf(op, b)]
    BY DEF NewUTXO, Output, LockOf
  <2>3. \A b \in Branch[tip], op \in DOMAIN utxos : OnChain(op, b) =>
          /\ utxos[op] = [addr |-> Output(op).addr, value |-> Output(op).value,
                          at |-> Height[b], lock |-> LockOf(op, b)]
          /\ (op \in DOMAIN stxos) =
               (\E c \in Branch[tip] : Height[c] > Height[b] /\ SpentIn(op, c))
    <3> SUFFICES ASSUME NEW b \in Branch[tip], NEW op \in DOMAIN utxos, OnChain(op, b)
                 PROVE  /\ utxos[op] = [addr |-> Output(op).addr,
                                        value |-> Output(op).value,
                                        at |-> Height[b], lock |-> LockOf(op, b)]
                        /\ (op \in DOMAIN stxos) =
                             (\E c \in Branch[tip] : Height[c] > Height[b] /\ SpentIn(op, c))
      OBVIOUS
    <3>1. utxos[op] = NewUTXO(op[1], op[2], Height[b])
      BY <2>1 DEF Follows
    <3>2. op \in DOMAIN stxos <=>
            \E c \in Branch[tip] : Height[c] > Height[b] /\ SpentIn(op, c)
      BY <2>1 DEF Follows
    <3>3. utxos[op] = [addr |-> Output(op).addr, value |-> Output(op).value,
                       at |-> Height[b], lock |-> LockOf(op, b)]
      BY <2>2, <3>1
    <3> DEFINE spent == \E c \in Branch[tip] : Height[c] > Height[b] /\ SpentIn(op, c)
    <3>4. (op \in DOMAIN stxos) = spent
      <4>1. op \in DOMAIN stxos <=> spent
        BY <3>2
      <4> HIDE DEF spent
      <4>2. spent \in BOOLEAN
        BY DEF spent
      <4> QED BY <4>1, <4>2, Zenon
    <3> QED BY <3>3, <3>4
  <2>4. DOMAIN utxos = {op \in OutPoint : \E b \in Branch[tip] : OnChain(op, b)}
    BY <2>1 DEF Follows
  <2> QED BY <2>3, <2>4 DEF CoinsFollowChain, SpentIn
<1> QED
  BY <1>1, <1>2, <1>3, PTL DEF Spec
=============================================================================
