----------------------------- MODULE MCStreams ------------------------------
(***************************************************************************)
(* Model checking of Streams: three nodes in a row, the first of which has *)
(* clients.  They submit one item more than fits on the way to the third,  *)
(* and nothing fails, or two items and a connection fails.                 *)
(***************************************************************************)
EXTENDS Streams

Two   == {"n1", "n2"}
Three == {"n1", "n2", "n3"}
Pair  == [n1 |-> {"n2"}, n2 |-> {"n1"}]
Row   == [n1 |-> {"n2"}, n2 |-> {"n1", "n3"}, n3 |-> {"n2"}]

MCInit == InitWith({}, MaxFaults) \/ InitWith(1..(MaxItems - 2), 0)
MCSpec == MCInit /\ [][Next]_vars /\ Fairness
=============================================================================
