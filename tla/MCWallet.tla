------------------------------ MODULE MCWallet ------------------------------
(***************************************************************************)
(* Model checking of Wallet.  The first block pays one key of the wallet   *)
(* and the second the other; the second and the third may hold payments.   *)
(***************************************************************************)
EXTENDS Wallet, MCBlockchainLoops

TwoKeys     == <<"k1", "k2">>
ThreeSetups == {<<TRUE, FALSE>>, <<FALSE, FALSE>>, <<TRUE, TRUE>>}
TwoOrOne    == [c \in BOOLEAN |-> IF c THEN 1 ELSE 2]

(* Ids are numbers; OutputsAssumption says that they differ.               *)
Reward(hash, amount, owner) == Coin(hash, amount, owner)
first  == Reward(1, 4, "k2")
second == Reward(2, 4, "k1")

(* The payment number n of this amount from these outputs.  The world also *)
(* has payments a mistaken wallet would make: without a fee, or signed     *)
(* with one key.                                                           *)
Total(ins) == FoldSeq(LAMBDA o, sum : o.amount + sum, 0, ins)
PaymentOf(n, amount, fee, oneKey, ins) ==
  LET id   == FoldSeq(LAMBDA o, h : 7 * h + 2 * o.unique_id,
                      100 * n + 10 * fee + (IF oneKey THEN 5 ELSE 0), ins)
      left == Total(ins) - amount - fee
  IN  Pay([i \in DOMAIN ins |-> Spend(ins[i], IF oneKey THEN MyKeys[1] ELSE ins[i].pubkey)],
          <<Coin(2 * id, amount, "shop")>>
            \o IF left > 0 THEN <<Coin(2 * id + 1, left, MyKeys[1])>> ELSE <<>>)
Sources(coins) == {s \in UNION {[1..n -> coins] : n \in 1..3} : IsInjective(s)}
Possible(n, coins, fee, oneKey) ==
  {PaymentOf(n, p[1], fee, oneKey, p[2]) : p \in {q \in Amounts \X Sources(coins) :
     /\ Total(q[2]) >= q[1] + fee
     /\ Total(Front(q[2])) < q[1] + fee
     /\ \A i, j \in DOMAIN q[2] : i < j => q[2][i].pubkey = "k1" \/ q[2][j].pubkey = "k2"}}
FeeOf(tx) == Total([i \in DOMAIN tx.inputs |-> tx.inputs[i].prev_tx_output_hash]) - Total(tx.outputs)

(* The second may spend the change of the first.                           *)
Coins == {first, second}
Payments1(fee, oneKey) == Possible(1, Coins, fee, oneKey)
Change(txs) == {tx.outputs[2] : tx \in {t \in txs : Len(t.outputs) = 2}}
Payments2(fee, oneKey) ==
  UNION {Possible(2, Coins \cup {o}, fee, oneKey) : o \in Change(Payments1(fee, oneKey))}
PaymentsWith(fee, oneKey) == Payments1(fee, oneKey) \cup Payments2(fee, oneKey)

(* Blocks: the third holds one payment, good or bad, or none.              *)
w1 == MkBlock(1, 0, 0, MIN_TARGET, <<Coinbase(first)>>)
w2 == MkBlock(2, 1, 1000, MIN_TARGET, <<Coinbase(second)>>)
Bodies == <<<<>>>> \o FoldSet(LAMBDA tx, s : Append(s, <<tx>>), <<>>,
                             PaymentsWith(FlatFee, FALSE) \cup PaymentsWith(0, FALSE)
                               \cup PaymentsWith(FlatFee, TRUE))
Third  == {MkBlock(100 + i, 2, 2000, MIN_TARGET,
                   <<Coinbase(Reward(100 + i, 4 + MapThenSumSet(FeeOf, Range(Bodies[i])), "miner"))>>
                     \o Bodies[i])
           : i \in DOMAIN Bodies}
PaidTree    == {w1, w2} \cup Third
AllPayments == UNION {Range(Tail(b.transactions)) : b \in Third}
=============================================================================
