------------------------------- MODULE World --------------------------------
(***************************************************************************)
(* The coins, transactions and blocks of the model-checking runs of        *)
(* Blockchain: a tree of blocks up to four high (five with b31 and b40),   *)
(* with blocks a node must refuse, and the transactions that spend what    *)
(* they create, some of them in conflict.  Subsidies are those of          *)
(* INITIAL_REWARD = 4 halved every two blocks.                             *)
(***************************************************************************)
EXTENDS Integers, Sequences, MerkleRoot

Coin(id, amount, owner) == [unique_id |-> id, amount |-> amount, pubkey |-> owner]
Spend(coin, key) == [prev_tx_output_hash |-> coin, signature |-> key]
Pay(ins, outs)   == [inputs |-> ins, outputs |-> outs]
Coinbase(coin)   == Pay(<<>>, <<coin>>)

(* The merkle root is right unless a block is built to have a wrong one.   *)
MkBlock(hash, prev, time, goal, txs) ==
  [hash |-> hash, prev_block_hash |-> prev, timestamp |-> time, target |-> goal,
   merkle_root |-> Calculate(txs), transactions |-> txs]

g  == Coin("g", 4, "alice")     \* the coinbase of the first block
m4 == Coin("m4", 4, "bob")      \* the coinbase of block b4
a  == Coin("a", 3, "bob")

t1 == Pay(<<Spend(g, "alice")>>, <<a>>)                        \* fee 1
t2 == Pay(<<Spend(g, "alice")>>, <<Coin("b", 4, "bob")>>)      \* fee 0, conflicts with t1
t3 == Pay(<<Spend(a, "bob")>>, <<Coin("c", 3, "alice")>>)      \* spends t1
t4 == Pay(<<Spend(g, "alice")>>, <<Coin("d", 5, "bob")>>)      \* overspends
t5 == Pay(<<Spend(g, "bob")>>, <<Coin("e", 4, "bob")>>)        \* signed by the wrong key
t6 == Pay(<<Spend(m4, "bob"), Spend(g, "alice")>>,             \* two inputs, fee 2
          <<Coin("f", 6, "bob")>>)
t7 == Pay(<<Spend(m4, "bob")>>, <<Coin("h", 4, "alice")>>)     \* fee 0
cb(h, amount) == Coinbase(Coin(h, amount, "miner"))

b1  == MkBlock(1, 0, 0, 64, <<Coinbase(g)>>)
(* height 1, subsidy 4 *)
b2  == MkBlock(2, 1, 10000, 64, <<cb("m2", 5), t1>>)
b3  == MkBlock(3, 1,  1000, 64, <<cb("m3", 4), t2>>)
b4  == MkBlock(4, 1, 50000, 64, <<Coinbase(m4)>>)
(* height 2, subsidy 2; the hash of b23 is above every target but the first *)
b20 == MkBlock(20, 2, 25500, 32, <<cb("m20", 2), t3>>)
b23 == MkBlock(64, 3, 2000, 16, <<cb("m23", 2)>>)
b24 == MkBlock(24, 4, 60000, 64, <<cb("m24", 2), t2, t7>>)
b25 == MkBlock(25, 4, 60000, 64, <<cb("m25", 4), t6>>)
(* height 3, subsidy 2 *)
b30 == MkBlock(30, 20, 30000, 32, <<cb("m30", 2)>>)
b31 == MkBlock(31, 20, 80000, 32, <<cb("m31", 2)>>)
(* height 4, subsidy 1; b31 came late, so the target is back at 64 *)
b40 == MkBlock(40, 31, 90000, 64, <<cb("m40", 1)>>)

Good == {b1, b2, b3, b4, b20, b23, b24, b25, b30}

Refused ==
  {MkBlock(5, 1, 10000, 64, <<cb("m5", 5), t1, t2>>),      \* double spend in the block
   MkBlock(6, 1, 10000, 64, <<cb("m6", 6)>>),              \* coinbase too high
   MkBlock(65, 1, 10000, 64, <<cb("m65", 4)>>),            \* no proof of work
   MkBlock(8, 1, 0, 64, <<cb("m8", 4)>>),                  \* not later than b1
   MkBlock(10, 1, 10000, 64, <<cb("m10", 5), t1, t3>>),    \* spends inside the block
   MkBlock(11, 1, 10000, 64, <<cb("m11", 4), t5>>),        \* bad signature
   MkBlock(12, 1, 10000, 64, <<cb("m12", 3), t4>>),        \* overspends
   MkBlock(13, 1, 10000, 64, <<>>),                        \* no transactions
   [MkBlock(14, 1, 10000, 64, <<cb("m14", 4)>>) EXCEPT !.merkle_root = ZeroRoot],
   [b24 EXCEPT !.transactions = Append(@, t7)]}            \* same header, t7 twice
=============================================================================
