---------------------------- MODULE MCBlockchain ----------------------------
(* Model checking of Blockchain in the small world of module World, with   *)
(* the assumptions of the proofs.                                          *)
EXTENDS BlockchainProofs, World

AllOfTxs  == {t1, t2, t3, t4, t6}
Tree      == Good \cup Refused
=============================================================================
