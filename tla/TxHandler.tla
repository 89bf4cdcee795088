------------------------------ MODULE TxHandler ------------------------------
(***************************************************************************)
(* service.txHandler: the fate of the transactions an application sends.   *)
(* One goroutine takes messages from txQueue (a send, an inv or a reject   *)
(* of some peer, a block) and the ticks of a timer, in any order.  Every   *)
(* notification is made on a goroutine of its own; told counts the ones    *)
(* that were started.                                                      *)
(*                                                                         *)
(* A definition without a comment that stands before the one it varies is  *)
(* a plausible mistake in that code, kept to show what a property catches; *)
(* no action uses it.                                                      *)
(***************************************************************************)
EXTENDS Integers

CONSTANTS
  Tx,           \* transaction hashes
  ExpireTicks,  \* txExpireTime in units of txRebroadcastDuration
  MaxSends      \* bound: how often a transaction is sent

ASSUME TxAssumption == ExpireTicks \in Nat /\ MaxSends \in Nat

VARIABLES
  unconfirmed,  \* tx |-> ticks until it has expired
  accepted,     \* the maps of the same names, as sets
  rejected,
  sends,        \* history: SendTransaction calls that were queued
  told          \* history: notifications started

vars == <<unconfirmed, accepted, rejected, sends, told>>

Kind == {"accepted", "rejected", "confirmed"}
Unconfirmed == DOMAIN unconfirmed
Tracked == Unconfirmed \cup accepted \cup rejected

(* delete(unconfirmed, tx) for every tx of T.                              *)
Without(T) == [u \in Unconfirmed \ T |-> unconfirmed[u]]

(* StateNotifier is told of every transaction of T.                        *)
Notify(T, kind) ==
  told' = [u \in Tx |-> IF u \in T THEN [told[u] EXCEPT ![kind] = @ + 1]
                                   ELSE told[u]]

Init ==
  /\ unconfirmed = [u \in {} |-> 0]
  /\ accepted = {} /\ rejected = {}
  /\ sends = [u \in Tx |-> 0]
  /\ told = [u \in Tx |-> [k \in Kind |-> 0]]

SendKeepsVerdict(u) ==
  /\ sends[u] < MaxSends
  /\ sends' = [sends EXCEPT ![u] = @ + 1]
  /\ unconfirmed' = [x \in Unconfirmed \cup {u} |->
                       IF x = u THEN ExpireTicks ELSE unconfirmed[x]]
  /\ UNCHANGED <<accepted, rejected, told>>

(* A sendTxMsg, the first for u or a later one: the earlier verdict is     *)
(* forgotten.                                                              *)
SendTransaction(u) ==
  /\ sends[u] < MaxSends
  /\ sends' = [sends EXCEPT ![u] = @ + 1]
  /\ unconfirmed' = [x \in Unconfirmed \cup {u} |->
                       IF x = u THEN ExpireTicks ELSE unconfirmed[x]]
  /\ accepted' = accepted \ {u}
  /\ rejected' = rejected \ {u}
  /\ told' = told

InvUnchecked(u) ==
  /\ u \in Tracked \ accepted
  /\ unconfirmed' = Without({u})
  /\ accepted' = accepted \cup {u}
  /\ Notify({u}, "accepted")
  /\ UNCHANGED <<rejected, sends>>

(* A txInvMsg: some peer relays u, so another one has accepted it.         *)
TxInv(u) ==
  /\ u \notin accepted
  /\ u \in Unconfirmed
  /\ unconfirmed' = Without({u})
  /\ accepted' = accepted \cup {u}
  /\ Notify({u}, "accepted")
  /\ UNCHANGED <<rejected, sends>>

(* A txRejectMsg: "just pick the first response".                          *)
TxReject(u) ==
  /\ u \notin rejected
  /\ u \in Unconfirmed
  /\ unconfirmed' = Without({u})
  /\ rejected' = rejected \cup {u}
  /\ Notify({u}, "rejected")
  /\ UNCHANGED <<accepted, sends>>

(* A blockMsg whose block packs T: the transactions among them that were   *)
(* sent from here are confirmed, whatever was said of them before.         *)
BlockMsg(T) ==
  LET confirmedTxs == T \cap Tracked
  IN /\ confirmedTxs # {}
     /\ unconfirmed' = Without(confirmedTxs)
     /\ accepted' = accepted \ confirmedTxs
     /\ rejected' = rejected \ confirmedTxs
     /\ Notify(confirmedTxs, "confirmed")
     /\ UNCHANGED sends

RetryForever ==
  /\ Unconfirmed # {}
  /\ unconfirmed' = [u \in Unconfirmed |->
                       IF unconfirmed[u] = 0 THEN ExpireTicks
                                             ELSE unconfirmed[u] - 1]
  /\ UNCHANGED <<accepted, rejected, sends, told>>

RetryKeepsExpired ==
  /\ Unconfirmed # {}
  /\ unconfirmed' = [u \in Unconfirmed |-> unconfirmed[u] - 1]
  /\ UNCHANGED <<accepted, rejected, sends, told>>

(* retryTicker: what has expired is forgotten, the rest is sent again.     *)
RetryTick ==
  LET expired == {u \in Unconfirmed : unconfirmed[u] = 0}
  IN /\ Unconfirmed # {}
     /\ unconfirmed' = [u \in Unconfirmed \ expired |-> unconfirmed[u] - 1]
     /\ UNCHANGED <<accepted, rejected, sends, told>>

Next ==
  \/ \E u \in Tx : SendTransaction(u) \/ TxInv(u) \/ TxReject(u)
  \/ \E T \in SUBSET Tx : BlockMsg(T)
  \/ RetryTick

Spec == Init /\ [][Next]_vars

(* The timer ticks; peers, blocks and the application owe nothing.         *)
FairSpec == Spec /\ WF_vars(RetryTick)

----------------------------------------------------------------------------
(* Properties.                                                             *)

TypeOK ==
  /\ Unconfirmed \subseteq Tx /\ unconfirmed \in [Unconfirmed -> 0..ExpireTicks]
  /\ accepted \subseteq Tx /\ rejected \subseteq Tx
  /\ sends \in [Tx -> 0..MaxSends]
  /\ told \in [Tx -> [Kind -> Nat]]

(* A transaction has one state at a time: the three maps are disjoint,     *)
(* however sends, relays, rejects and blocks of many peers interleave.     *)
OneState ==
  /\ accepted \cap rejected = {}
  /\ Unconfirmed \cap (accepted \cup rejected) = {}

(* "Transaction can be both accepted and rejected [...] so just pick the   *)
(* first response" (service.go:284): the application hears at most one     *)
(* verdict for each time it sends a transaction, and at most one           *)
(* confirmation, so one that is still open has one to come.                *)
OneOutcomePerSend ==
  \A u \in Tx :
    /\ told[u]["accepted"] + told[u]["rejected"]
         + (IF u \in Unconfirmed THEN 1 ELSE 0) <= sends[u]
    /\ told[u]["confirmed"] + (IF u \in Tracked THEN 1 ELSE 0) <= sends[u]

(* No transaction is broadcast again and again for ever: each one meets a  *)
(* verdict, a block or its expiry.                                         *)
EventuallySettled == \A u \in Tx : u \in Unconfirmed ~> u \notin Unconfirmed
=============================================================================
