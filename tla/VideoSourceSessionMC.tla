------------------------ MODULE VideoSourceSessionMC ------------------------
(* Instances of VideoSourceSession for TLC. *)
EXTENDS VideoSourceSession
=============================================================================
