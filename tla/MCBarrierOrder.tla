---------------------------- MODULE MCBarrierOrder ----------------------------
(***************************************************************************)
(* Instances of BarrierOrder for TLC: two letters more than the program    *)
(* has, created in an order that begins like the program's (B, C, A).      *)
(***************************************************************************)
EXTENDS BarrierOrder

Letters == <<"A", "B", "C", "D", "E">>

Created == <<2, 3, 1, 5, 4>>

ThreadSet == 1 .. N
BarrierSet == 1 .. N - 1
Limits == [b \in Barriers |-> 2]
=============================================================================
