----------------------------- MODULE ApiEventsMC -----------------------------
(* ApiEvents with a few users and channels. *)
EXTENDS ApiEvents

LOCAL T == INSTANCE TLC

CONSTANTS u1, c1, c2

\* The two channels are alike: they may change places.
Symmetry == T!Permutations({c1, c2})
=============================================================================
