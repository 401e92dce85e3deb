---------------------------- MODULE ShmChannelMC ----------------------------
(* Instances of ShmChannel for TLC. *)
EXTENDS ShmChannel, TLC

CONSTANTS w1, w2, r1

\* The writers run the same code: exchanging them changes nothing.
WriterSymmetry == Permutations(Writers)
=============================================================================
