---------------------------- MODULE MCBlockchain ----------------------------
(* Model-checking instance of Blockchain: three blocks over a genesis.     *)
EXTENDS Blockchain

MCBlocks == 1..3
=============================================================================
