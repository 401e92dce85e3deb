------------------------------- MODULE Tables -------------------------------
(* Tables put together of parts.  The infix operators are those of module    *)
(* TLC, written out because the provers know nothing of TLC's.               *)

\* The table of one row.
name :> row == [n \in {name} |-> row]

\* The rows of both; f's where they share a name.
f @@ g == [n \in DOMAIN f \cup DOMAIN g |-> IF n \in DOMAIN f THEN f[n] ELSE g[n]]

\* The rows of all tables, none of which shares a name with another.
Joined(tables) ==
  [n \in UNION {DOMAIN t : t \in tables} |-> (CHOOSE t \in tables : n \in DOMAIN t)[n]]
=============================================================================
