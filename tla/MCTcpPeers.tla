----------------------------- MODULE MCTcpPeers -----------------------------
(***************************************************************************)
(* Model checking of TcpPeers: the first three nodes of compose_tcp.yaml,  *)
(* a chain of three blocks of which the last confirms one of two           *)
(* transactions that spend the same coin, and a rival of the second.       *)
(***************************************************************************)
EXTENDS TcpPeers

Three      == {"n1", "n2", "n3"}
SeedsInRow == [n1 |-> <<>>, n2 |-> <<"n1">>, n3 |-> <<"n2">>]

FourBlocks == {"b1", "b2", "b3", "rival"}
TwoTxs     == {"t", "u"}
Tree       == [b1 |-> None, b2 |-> "b1", b3 |-> "b2", rival |-> "b1"]
Bodies     == [b1 |-> {}, b2 |-> {}, b3 |-> {"t"}, rival |-> {}]
Coins      == [t |-> "b1", u |-> "b1"]

AllHave(blocks) == [n \in Node |-> blocks]
Parted          == [AllHave(<<>>) EXCEPT !["n1"] = <<"b1", "b2">>, !["n2"] = <<"b1", "rival">>]

(* The nodes of a set are connected and have their first blocks.           *)
MeshOf(set, first, used) ==
  /\ status = [n \in Node |-> IF n \in set THEN "up" ELSE "down"]
  /\ chain = [n \in Node |-> IF n \in set THEN first[n] ELSE <<>>]
  /\ pool = [n \in Node |-> {}]
  /\ nodes = [n \in Node |-> [p \in Node |->
       IF {n, p} \subseteq set /\ n # p THEN [line |-> 1, skip |-> 1] ELSE None]]
  /\ wire = [n \in Node |-> [p \in Node |-> [i \in Lines |->
       IF {n, p} \subseteq set /\ n # p /\ i = 1 THEN Opened(<<>>) ELSE None]]]
  /\ sync = [n \in Node |-> Idle] /\ joining = [n \in Node |-> {}]
  /\ spread = {b \in Blocks : \A n \in set : b \in Range(first[n])} /\ found = used

(* All are connected, or the third is still to join.  Clients submit all   *)
(* blocks of the chain and the first transaction and nobody crashes, or    *)
(* they submit a block at most and one does.  Or the second transaction    *)
(* comes too late.  Or two miners fork, or have, and then a node crashes.  *)
MCInit ==
  \/ \E set \in {Three, {"n1", "n2"}} :
       \/ MeshOf(set, AllHave(<<"b1">>), {"b1", "u", "rival"}) /\ faults = MaxFaults
       \/ MeshOf(set, AllHave(<<"b1">>), IF set = Three THEN Items \ {"b2"} ELSE Items) /\ faults = 0
  \/ MeshOf(Three, AllHave(<<"b1", "b2", "b3">>), Items \ {"u"}) /\ faults = MaxFaults
  \/ MeshOf({"n1", "n2"}, AllHave(<<"b1">>), Items \ {"b2", "rival"}) /\ faults = MaxFaults
  \/ MeshOf({"n1", "n2"}, Parted, Items) /\ faults = 0
MCSpec == MCInit /\ [][TcpNext]_tcpVars /\ TcpFairness
=============================================================================
