---------------------------- MODULE MCSpvService ----------------------------
(* Instances of SpvService for TLC.                                          *)
EXTENDS SpvService

Handlers == Permutations(Handler)

(* Payments: t1 pays the watched address, t2 spends it, v is a vote that a   *)
(* listener without an address waits for.  Two branches leave the genesis    *)
(* block, t1 and t2 are in both, at different heights.                       *)
PayBlock == {"g", "a1", "a2", "a3", "b1", "b2", "b3"}
PayPrev == [b \in PayBlock \ {"g"} |->
  CASE b = "a1" -> "g"  [] b = "a2" -> "a1" [] b = "a3" -> "a2"
    [] b = "b1" -> "g"  [] b = "b2" -> "b1" [] b = "b3" -> "b2"]
PayBlockTxs == [b \in PayBlock |->
  CASE b = "a1" -> <<"v">>  [] b = "a2" -> <<"t1">> [] b = "a3" -> <<"t2">>
    [] b = "b1" -> <<"t1">> [] b = "b2" -> <<"t2">> [] OTHER -> <<>>]
Pay(kind, outs, ins) == [kind |-> kind, outs |-> outs, ins |-> ins]
PayTx == [t1 |-> Pay("Transfer", <<"A">>, {}),
          t2 |-> Pay("Transfer", <<"B">>, {<<"t1", 1>>}),
          v  |-> Pay("Vote", <<>>, {})]
PayListener == {[addr |-> "A", type |-> "Transfer", confirmed |-> TRUE, syncing |-> TRUE],
                [addr |-> None, type |-> "Vote", confirmed |-> FALSE, syncing |-> FALSE]}

(* Side chain data: the digits of a block, to the base 6, are the contents   *)
(* up to it, so every content may stand at every height, on every branch.    *)
Content == <<
  <<"n2", "pow">>, <<"n3">>, <<"n3b", "dpos">>, <<"rsv", "rcv", "fee">>,
  <<"yes", "yesfee", "dep">> >>
Onto(S) == {6 * b + c : b \in S, c \in DOMAIN Content}
IdBlock == {0} \cup Onto({0}) \cup Onto(Onto({0})) \cup Onto(Onto(Onto({0})))
IdPrev == [b \in IdBlock \ {0} |-> b \div 6]
IdBlockTxs == [b \in IdBlock |-> IF b = 0 THEN <<>> ELSE Content[b % 6]]
Id(kind, rest) == [kind |-> kind, outs |-> <<>>, ins |-> {}] @@ rest
Result(about, p, ok) == [about |-> about, proposal |-> p, approved |-> ok]
IdTx == [n2  |-> Id("NextTurn", [at |-> 2, set |-> "S"]),
         n3  |-> Id("NextTurn", [at |-> 3, set |-> "S"]),
         n3b |-> Id("NextTurn", [at |-> 3, set |-> "R"]),
         rsv |-> Id("Reserve", [ids |-> {"x"}]),
         rcv |-> Id("Receive", [ids |-> {"x"}, did |-> "d"]),
         fee |-> Id("Fee", [rate |-> 5, at |-> 3]),
         yes |-> Id("Result", [results |-> <<Result("Reserve", "rsv", TRUE),
                                             Result("Receive", "rcv", TRUE)>>]),
         yesfee |-> Id("Result", [results |-> <<Result("Fee", "fee", TRUE),
                                                Result("Reserve", "rsv", FALSE)>>]),
         dep |-> Id("Deposit", [deposits |-> {"d1"}]),
         pow |-> Id("RevertToPOW", [at |-> 3]),
         dpos |-> Id("RevertToDPOS", [interval |-> 1])]
=============================================================================
