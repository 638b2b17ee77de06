-------------------------- MODULE BlockchainClaims --------------------------
(***************************************************************************)
(* What a comment of the chain state says of it and the code does not      *)
(* keep.                                                                   *)
(***************************************************************************)
EXTENDS Blockchain

(* blockchain.rs:235-239: a newer transaction that references the same     *)
(* inputs replaces the older one "to prevent a potential double-spending   *)
(* problem", so no two waiting transactions spend the same output.         *)
NoConflictInMempool ==
  \A t, u \in MempoolTxs : t # u => SpentBy(t) \cap SpentBy(u) = {}
=============================================================================
