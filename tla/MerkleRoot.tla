----------------------------- MODULE MerkleRoot -----------------------------
(***************************************************************************)
(* lib/src/merkle_root.rs: the Merkle root of a sequence of transactions.  *)
(* SHA-256 is taken to be collision free, so a hash is the value hashed:   *)
(* a leaf is the one-element tuple of its transaction, an inner node the   *)
(* pair of its children.                                                   *)
(***************************************************************************)
EXTENDS Integers, Sequences

LeafHash(tx)          == <<tx>>
NodeHash(left, right) == <<left, right>>
ZeroRoot              == <<>>

(* One round of the loop: neighbours are paired, and a node without a      *)
(* right neighbour is paired with itself.  A layer of one is the root.     *)
NextLayer(layer) ==
  IF Len(layer) <= 1 THEN layer
  ELSE [i \in 1..((Len(layer) + 1) \div 2) |->
          NodeHash(layer[2*i - 1],
                   IF 2*i <= Len(layer) THEN layer[2*i] ELSE layer[2*i - 1])]

(* Len(txs) rounds are more than enough to reach a layer of one.           *)
Calculate(txs) ==
  LET layer[n \in 0..Len(txs)] ==
        IF n = 0 THEN [i \in 1..Len(txs) |-> LeafHash(txs[i])]
        ELSE NextLayer(layer[n - 1])
  IN  IF txs = <<>> THEN ZeroRoot ELSE layer[Len(txs)][1]
=============================================================================
