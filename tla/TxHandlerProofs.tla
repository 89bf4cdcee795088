--------------------------- MODULE TxHandlerProofs ---------------------------
(***************************************************************************)
(* The fate of a sent transaction, proved for any number of transactions,  *)
(* sends and ticks.                                                        *)
(***************************************************************************)
EXTENDS TxHandler, TLAPS

(* The verdicts the application has heard of u.                            *)
Verdicts(u) == told[u]["accepted"] + told[u]["rejected"]

(* What was said of a transaction never outruns how often it was sent,     *)
(* one conjunct per map it may be in.  This is OneOutcomePerSend without   *)
(* its conditional terms.                                                  *)
Accounted ==
  \A u \in Tx :
    /\ Verdicts(u) <= sends[u]
    /\ u \in Unconfirmed => Verdicts(u) + 1 <= sends[u]
    /\ told[u]["confirmed"] <= sends[u]
    /\ u \in Tracked => told[u]["confirmed"] + 1 <= sends[u]

IInv == TypeOK /\ OneState /\ Accounted

(* Initially nothing is tracked and nothing was said (service.go:237-239). *)
LEMMA InitIInv == Init => IInv
BY TxAssumption DEF Init, IInv, TypeOK, OneState, Accounted, Verdicts,
   Unconfirmed, Tracked, Kind

(* A notification adds one to one counter of each transaction it is about. *)
LEMMA NotifyAdds ==
  ASSUME NEW f \in [Tx -> [Kind -> Nat]], NEW T \in SUBSET Tx, NEW kind \in Kind
  PROVE  LET g == [u \in Tx |-> IF u \in T THEN [f[u] EXCEPT ![kind] = @ + 1]
                                           ELSE f[u]]
         IN /\ g \in [Tx -> [Kind -> Nat]]
            /\ \A u \in Tx : \A k \in Kind :
                 g[u][k] = IF u \in T /\ k = kind THEN f[u][k] + 1 ELSE f[u][k]
<1> DEFINE g == [u \in Tx |-> IF u \in T THEN [f[u] EXCEPT ![kind] = @ + 1]
                                         ELSE f[u]]
<1>1. ASSUME NEW u \in Tx
      PROVE  g[u] \in [Kind -> Nat]
  <2>1. f[u] \in [Kind -> Nat] /\ f[u][kind] + 1 \in Nat
    OBVIOUS
  <2>2. [f[u] EXCEPT ![kind] = f[u][kind] + 1] \in [Kind -> Nat]
    BY <2>1
  <2> QED
    BY <2>1, <2>2
<1>2. g \in [Tx -> [Kind -> Nat]]
  BY <1>1
<1>3. \A u \in Tx : \A k \in Kind :
        g[u][k] = IF u \in T /\ k = kind THEN f[u][k] + 1 ELSE f[u][k]
  OBVIOUS
<1> QED
  BY <1>2, <1>3

(* Every step of the handler keeps the inductive invariant.                *)
LEMMA NextIInv == IInv /\ [Next]_vars => IInv'
<1> SUFFICES ASSUME IInv, [Next]_vars
             PROVE  IInv'
  OBVIOUS
<1> USE TxAssumption
<1> DEFINE Counters == \A u \in Tx : /\ sends[u] \in Nat
                                     /\ \A k \in Kind : told[u][k] \in Nat
<1>0. Counters /\ TypeOK /\ OneState /\ Accounted
  BY DEF IInv, TypeOK
<1>k. "accepted" \in Kind /\ "rejected" \in Kind /\ "confirmed" \in Kind
  BY DEF Kind
<1>1. ASSUME NEW u \in Tx, SendTransaction(u)
      PROVE  IInv'
  <2>1. TypeOK'
    BY <1>0, <1>1 DEF TypeOK, SendTransaction, Unconfirmed
  <2>2. OneState'
    BY <1>0, <1>1 DEF OneState, SendTransaction, Unconfirmed
  <2>3. \A x \in Tx : sends'[x] = IF x = u THEN sends[x] + 1 ELSE sends[x]
    BY <1>0, <1>1 DEF TypeOK, SendTransaction
  <2>4. /\ told' = told
        /\ \A x \in Tx : x # u => /\ x \in Unconfirmed' => x \in Unconfirmed
                                  /\ x \in Tracked' => x \in Tracked
    BY <1>1 DEF SendTransaction, Unconfirmed, Tracked
  <2>5. Accounted'
    BY <1>0, <1>k, <2>3, <2>4 DEF Accounted, Verdicts
  <2> QED
    BY <2>1, <2>2, <2>5 DEF IInv
<1>2. ASSUME NEW u \in Tx, TxInv(u)
      PROVE  IInv'
  <2>n. /\ told' \in [Tx -> [Kind -> Nat]]
        /\ \A x \in Tx : \A k \in Kind :
              told'[x][k] = IF x \in {u} /\ k = "accepted" THEN told[x][k] + 1
                                                           ELSE told[x][k]
    <3>1. told \in [Tx -> [Kind -> Nat]] /\ {u} \in SUBSET Tx
      BY <1>0 DEF TypeOK
    <3>2. told' = [x \in Tx |->
                    IF x \in {u} THEN [told[x] EXCEPT !["accepted"] = @ + 1]
                                 ELSE told[x]]
      BY <1>2 DEF TxInv, Notify
    <3> QED
      BY <1>k, <3>1, <3>2, NotifyAdds
  <2>1. TypeOK'
    BY <1>0, <1>2, <2>n DEF TypeOK, TxInv, Unconfirmed, Without
  <2>2. OneState'
    BY <1>0, <1>2 DEF OneState, TxInv, Unconfirmed, Without
  <2>3. /\ sends' = sends
        /\ u \in Unconfirmed
        /\ \A x \in Tx : /\ x \in Unconfirmed' <=> x \in Unconfirmed /\ x # u
                         /\ x \in Tracked' => x \in Tracked
    BY <1>2 DEF TxInv, Unconfirmed, Tracked, Without
  <2>5. Accounted'
    BY <1>0, <1>k, <2>n, <2>3 DEF Accounted, Verdicts
  <2> QED
    BY <2>1, <2>2, <2>5 DEF IInv
<1>3. ASSUME NEW u \in Tx, TxReject(u)
      PROVE  IInv'
  <2>n. /\ told' \in [Tx -> [Kind -> Nat]]
        /\ \A x \in Tx : \A k \in Kind :
              told'[x][k] = IF x \in {u} /\ k = "rejected" THEN told[x][k] + 1
                                                           ELSE told[x][k]
    <3>1. told \in [Tx -> [Kind -> Nat]] /\ {u} \in SUBSET Tx
      BY <1>0 DEF TypeOK
    <3>2. told' = [x \in Tx |->
                    IF x \in {u} THEN [told[x] EXCEPT !["rejected"] = @ + 1]
                                 ELSE told[x]]
      BY <1>3 DEF TxReject, Notify
    <3> QED
      BY <1>k, <3>1, <3>2, NotifyAdds
  <2>1. TypeOK'
    BY <1>0, <1>3, <2>n DEF TypeOK, TxReject, Unconfirmed, Without
  <2>2. OneState'
    BY <1>0, <1>3 DEF OneState, TxReject, Unconfirmed, Without
  <2>3. /\ sends' = sends
        /\ u \in Unconfirmed
        /\ \A x \in Tx : /\ x \in Unconfirmed' <=> x \in Unconfirmed /\ x # u
                         /\ x \in Tracked' => x \in Tracked
    BY <1>3 DEF TxReject, Unconfirmed, Tracked, Without
  <2>5. Accounted'
    BY <1>0, <1>k, <2>n, <2>3 DEF Accounted, Verdicts
  <2> QED
    BY <2>1, <2>2, <2>5 DEF IInv
<1>4. ASSUME NEW T \in SUBSET Tx, BlockMsg(T)
      PROVE  IInv'
  <2> DEFINE C == T \cap Tracked
  <2>n. /\ told' \in [Tx -> [Kind -> Nat]]
        /\ \A x \in Tx : \A k \in Kind :
              told'[x][k] = IF x \in C /\ k = "confirmed" THEN told[x][k] + 1
                                                          ELSE told[x][k]
    <3>1. told \in [Tx -> [Kind -> Nat]] /\ C \in SUBSET Tx
      BY <1>0 DEF TypeOK
    <3>2. told' = [x \in Tx |->
                    IF x \in C THEN [told[x] EXCEPT !["confirmed"] = @ + 1]
                                 ELSE told[x]]
      BY <1>4 DEF BlockMsg, Notify
    <3> HIDE DEF C
    <3> QED
      BY <1>k, <3>1, <3>2, NotifyAdds
  <2>1. TypeOK'
    BY <1>0, <1>4, <2>n DEF TypeOK, BlockMsg, Unconfirmed, Without
  <2>2. OneState'
    BY <1>0, <1>4 DEF OneState, BlockMsg, Unconfirmed, Without
  <2>3. /\ sends' = sends
        /\ \A x \in Tx : /\ x \in Unconfirmed' => x \in Unconfirmed
                         /\ x \in Tracked' => x \in Tracked /\ x \notin C
                         /\ x \in C => x \in Tracked
    BY <1>4 DEF BlockMsg, Unconfirmed, Tracked, Without
  <2>5. Accounted'
    BY <1>0, <1>k, <2>n, <2>3 DEF Accounted, Verdicts
  <2> QED
    BY <2>1, <2>2, <2>5 DEF IInv
<1>5. ASSUME RetryTick
      PROVE  IInv'
  <2>1. TypeOK'
    <3>1. \A u \in Unconfirmed : unconfirmed[u] \in 0..ExpireTicks
      BY <1>0 DEF TypeOK
    <3> DEFINE live == {u \in Unconfirmed : unconfirmed[u] # 0}
    <3>2. \A u \in live : unconfirmed[u] - 1 \in 0..ExpireTicks
      BY <3>1
    <3>3. unconfirmed' = [u \in live |-> unconfirmed[u] - 1]
      BY <1>5 DEF RetryTick
    <3>4. Unconfirmed' = live /\ live \subseteq Tx
      BY <1>0, <3>3 DEF TypeOK, Unconfirmed
    <3> HIDE DEF live
    <3>5. unconfirmed' \in [live -> 0..ExpireTicks]
      BY <3>2, <3>3
    <3> QED
      BY <1>0, <1>5, <3>4, <3>5 DEF TypeOK, RetryTick
  <2>2. OneState'
    BY <1>0, <1>5 DEF OneState, RetryTick, Unconfirmed
  <2>3. /\ sends' = sends /\ told' = told
        /\ \A x \in Tx : /\ x \in Unconfirmed' => x \in Unconfirmed
                         /\ x \in Tracked' => x \in Tracked
    BY <1>5 DEF RetryTick, Unconfirmed, Tracked
  <2>5. Accounted'
    BY <1>0, <1>k, <2>3 DEF Accounted, Verdicts
  <2> QED
    BY <2>1, <2>2, <2>5 DEF IInv
<1>6. CASE UNCHANGED vars
  BY <1>0, <1>6 DEF IInv, TypeOK, OneState, Accounted, Verdicts, Unconfirmed,
     Tracked, vars
<1> QED
  BY <1>1, <1>2, <1>3, <1>4, <1>5, <1>6 DEF Next

(* The invariant holds of every behaviour of txHandler.                    *)
THEOREM Invariant == Spec => []IInv
BY InitIInv, NextIInv, PTL DEF Spec

(* The three maps hold transactions only, and a remaining life time never  *)
(* passes zero: an expired entry is deleted on the tick that sees it.      *)
THEOREM TypeCorrect == Spec => []TypeOK
<1>1. IInv => TypeOK
  BY DEF IInv
<1> QED
  BY <1>1, Invariant, PTL

(* unconfirmed, accepted and rejected are disjoint, for any interleaving   *)
(* of sends, relays, rejects, blocks and ticks.                            *)
THEOREM Disjoint == Spec => []OneState
<1>1. IInv => OneState
  BY DEF IInv
<1> QED
  BY <1>1, Invariant, PTL

(* The application hears at most one verdict and one confirmation for each *)
(* time it sends a transaction.                                            *)
THEOREM OutcomesBounded == Spec => []OneOutcomePerSend
<1>1. IInv => OneOutcomePerSend
  <2> SUFFICES ASSUME IInv, NEW u \in Tx
               PROVE  /\ Verdicts(u) + (IF u \in Unconfirmed THEN 1 ELSE 0) <= sends[u]
                      /\ told[u]["confirmed"] + (IF u \in Tracked THEN 1 ELSE 0)
                           <= sends[u]
    BY DEF OneOutcomePerSend, Verdicts
  <2>1. /\ sends[u] \in Nat /\ told[u]["confirmed"] \in Nat
        /\ told[u]["accepted"] \in Nat /\ told[u]["rejected"] \in Nat
    BY DEF IInv, TypeOK, Kind
  <2> QED
    BY <2>1 DEF IInv, Accounted, Verdicts
<1> QED
  BY <1>1, Invariant, PTL
=============================================================================
