------------------------------- MODULE MCWallet -------------------------------
(* An instance of Wallet for TLC.  c is a coinbase transaction to A, p pays  *)
(* A twice, s spends a coin of each and pays B, an address that is added    *)
(* while blocks arrive; the branches have s at different heights.            *)
EXTENDS Wallet

CoinBlock == {"g", "a1", "a2", "b2", "b3"}
CoinPrev == [b \in CoinBlock \ {"g"} |->
  CASE b = "a1" -> "g" [] b = "a2" -> "a1" [] b = "b2" -> "a1" [] b = "b3" -> "b2"]
CoinBlockTxs == [b \in CoinBlock |->
  CASE b = "a1" -> <<"c", "p">> [] b \in {"a2", "b3"} -> <<"s">> [] OTHER -> <<>>]
Out(addr, value, lock) == [addr |-> addr, value |-> value, lock |-> lock]
CoinTx == [c |-> [coinbase |-> TRUE, ins |-> {}, outs |-> <<Out("A", 3, 0)>>],
           p |-> [coinbase |-> FALSE, ins |-> {},
                  outs |-> <<Out("A", 1, 0), Out("A", 2, 2)>>],
           s |-> [coinbase |-> FALSE, ins |-> {<<"p", 1>>, <<"c", 1>>},
                  outs |-> <<Out("B", 1, 0)>>]]
Payments == {[from |-> "A", amount |-> 4]}
=============================================================================
