------------------------- MODULE MCBlockchainLoops --------------------------
(***************************************************************************)
(* The definitions of Blockchain that are stated in closed form, compared  *)
(* with the loops of the code on small inputs: assumptions of the wallet   *)
(* runs, whose modules extend this one.                                    *)
(***************************************************************************)
EXTENDS Blockchain, World

(* The closed form of RebuildUtxoSet against the loop it stands for, on    *)
(* every chain of up to three of these blocks, valid or not.               *)
ReplayTx(utxo, tx) ==
  LET kept == DOMAIN utxo \ SpentBy(tx)
  IN  [o \in kept \cup CreatedBy(tx) |-> o \notin CreatedBy(tx) /\ utxo[o]]
Replay(chain, utxo) ==
  FoldLeft(LAMBDA u, b : FoldLeft(ReplayTx, u, b.transactions), utxo, chain)

ASSUME RebuildIsReplay ==
  \A n \in 0..3 : \A chain \in [1..n -> {b1, b2, b3, b20, b24, b25}] :
    \A old \in {<<>>, [o \in {g, a} |-> TRUE], [o \in {m4} |-> TRUE]} :
      RebuildUtxoSet(chain, old) = Replay(chain, old)

(* The closed form of Replace against the loop, where nothing in the       *)
(* mempool creates an input: every flag and every waiting transaction.     *)
ASSUME ReplaceIsLoop ==
  \A utxo \in [{g, a, m4} -> BOOLEAN] : \A tx \in {t1, t3, t6} : \A w \in {t2, t7} :
    LET pool == <<[tx |-> w, age |-> 0]>>
    IN  Replace(tx, utxo, pool) =
          FoldLeft(LAMBDA s, input : ReplaceRound(tx, s, input),
                   [utxo |-> utxo, pool |-> pool, stop |-> FALSE], tx.inputs)

(* A root binds a list of different transactions.                          *)
ASSUME RootBindsTxs ==
  LET lists == UNION {{s \in [1..n -> {1, 2, 3, 4, 5}] : \A i, j \in 1..n : s[i] = s[j] => i = j}
                      : n \in 0..5}
  IN  Cardinality({Calculate(s) : s \in lists}) = Cardinality(lists)
=============================================================================
