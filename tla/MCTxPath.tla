----------------------------- MODULE MCTxPath ------------------------------
(***************************************************************************)
(* TxPath for TLC: the packets are interchangeable.                        *)
(***************************************************************************)
EXTENDS TxPath, TLC

Symmetry == Permutations(Packets)
=============================================================================
