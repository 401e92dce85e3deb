---------------------------- MODULE EventQueueMC ----------------------------
(* Instances of EventQueue for TLC. *)
EXTENDS EventQueue

CONSTANTS e1, e2, c1, p1, p2
=============================================================================
