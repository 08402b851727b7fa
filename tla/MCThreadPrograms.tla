--------------------------- MODULE MCThreadPrograms ---------------------------
(***************************************************************************)
(* The instance of ThreadPrograms for TLC: all the programs, as many       *)
(* threads as the largest has, and the two barriers of stack_shared_var.c. *)
(***************************************************************************)
EXTENDS ThreadPrograms

ThreadSet == 1 .. 5
BarrierSet == {1, 2}
Limits == [b \in BarrierSet |-> 2]
=============================================================================
