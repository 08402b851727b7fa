----------------------------- MODULE MCPrintOrder -----------------------------
(***************************************************************************)
(* Instances of PrintOrder for TLC: two letters more than the program has. *)
(***************************************************************************)
EXTENDS PrintOrder

Letters == <<"A", "B", "C", "D", "E">>
=============================================================================
