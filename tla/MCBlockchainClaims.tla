------------------------- MODULE MCBlockchainClaims -------------------------
(* Refuting the claims of BlockchainClaims in the world of module World.   *)
EXTENDS BlockchainClaims, World

SmallTxs   == {t1, t2, t3}
HonestTree == {b1, b2, b3, b4, b20, b23, b24, b25, b30, b31, b40}
=============================================================================
