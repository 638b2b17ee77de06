------------------------------ MODULE MCGossip ------------------------------
(***************************************************************************)
(* Model checking of Gossip: nodes in a row of starts, as in compose.yaml  *)
(* (the second joins the first, the third both), and a chain of two blocks *)
(* of which the second confirms a transaction.                             *)
(***************************************************************************)
EXTENDS Gossip

Two        == {"n1", "n2"}
Three      == Two \cup {"n3"}
SeedsThree == [n1 |-> {}, n2 |-> {"n1"}, n3 |-> {"n1", "n2"}]
SeedsTwo   == Restrict(SeedsThree, Two)

TwoBlocks == {"b1", "b2"}
OneTx     == {"t"}
InRow     == [b \in TwoBlocks |-> IF b = "b1" THEN None ELSE "b1"]
Bodies    == [b \in TwoBlocks |-> IF b = "b1" THEN {} ELSE {"t"}]
Coins     == [t \in OneTx |-> "b1"]
(* Later: everybody is connected and subscribed to everybody, and has the  *)
(* first block.                                                            *)
Others(n) == Node \ {n}
Meshed ==
  /\ status = [n \in Node |-> "up"] /\ chain = [n \in Node |-> <<"b1">>]
  /\ pool = [n \in Node |-> {}] /\ nodes = [n \in Node |-> Others(n)]
  /\ subscribers = nodes /\ listens = nodes
  /\ stream = [n \in Node |-> [p \in Node |-> <<>>]]
  /\ unsent = [n \in Node |-> [p \in Node |-> 0]] /\ removing = unsent
  /\ sending = [n \in Node |-> [s \in Node |-> None]]
  /\ sync = [n \in Node |-> Idle] /\ joining = [n \in Node |-> {}]
  /\ renewing = [n \in Node |-> TRUE] /\ found = {"b1"} /\ faults = 0

MeshedSpec == Meshed /\ [][Next]_vars /\ Fairness
=============================================================================
