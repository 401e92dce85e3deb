----------------------------- MODULE ApiCallsMC -----------------------------
(* ApiCalls with the methods of the two classes. *)
EXTENDS ApiCalls, ApiCallTables
=============================================================================
