------------------------------ MODULE MCMining ------------------------------
(***************************************************************************)
(* Model checking of Mining.  The blocks: on every tip four of our miner   *)
(* for each list of transactions its templates may have there, and one of  *)
(* a rival.  Four suffice for a fresh coinbase at any time: one may be in  *)
(* the current template, one with the thread and one in the channel.       *)
(***************************************************************************)
EXTENDS Mining

Subsidy(height) == INITIAL_REWARD \div (2 ^ (height \div HALVING_INTERVAL))

Coin(id, amount, owner) == [unique_id |-> id, amount |-> amount, pubkey |-> owner]
Spend(coin) == [prev_tx_output_hash |-> coin, signature |-> coin.pubkey]

(* The hash tells the predecessor, the number among the siblings and the   *)
(* kind of the body.                                                       *)
MkBlock(prev, height, n, kind, fees, txs) ==
  LET hash == 20 * prev + 5 * kind + n
      body == <<[inputs |-> <<>>,
                 outputs |-> <<Coin(hash, Subsidy(height) + fees, "miner")>>]>> \o txs
  IN  [hash |-> hash, prev_block_hash |-> prev, timestamp |-> 1000 * height,
       target |-> MIN_TARGET, merkle_root |-> Calculate(body), transactions |-> body]

Ours(prevs, height, kind, fees, txs) ==
  {MkBlock(p, height, n, kind, fees, txs) : p \in prevs, n \in 1..4}
Theirs(prevs, height, kind, txs) == {MkBlock(p, height, 0, kind, 0, txs) : p \in prevs}
Hashes(set) == {b.hash : b \in set}

First == Ours({0}, 0, 0, 0, <<>>)

(* Two payments from the coinbase of the first of First, in conflict.      *)
g == Coin(1, 4, "miner")
t == [inputs |-> <<Spend(g)>>, outputs |-> <<Coin(-1, 1, "alice")>>]
u == [inputs |-> <<Spend(g)>>, outputs |-> <<Coin(-2, 4, "alice")>>]

SecondEmpty == Ours(Hashes(First), 1, 0, 0, <<>>)
SecondPaid  == Ours({1}, 1, 1, 3, <<t>>)
RivalPaid   == Theirs({1}, 1, 1, <<u>>)

(* On the last level the rival is not needed.  The blocks with t upon u,   *)
(* which spends the same coin, are of no use to a right node.              *)
Third(tips) == Ours(Hashes(tips), 2, 0, 0, <<>>)
ThirdBad    == Ours(Hashes(RivalPaid), 2, 1, -1, <<t>>)

Rival      == RivalPaid
RivalLong  == Theirs({1}, 1, 0, <<>>)
ShortTree  == First \cup SecondEmpty \cup SecondPaid \cup RivalPaid \cup ThirdBad
LongTree   == First \cup SecondEmpty \cup RivalLong \cup Third(SecondEmpty \cup RivalLong)
OneTx      == {t}
NoTxs      == {}
NoRivals   == {}
=============================================================================
