-------------------------------- MODULE Relay --------------------------------
(***************************************************************************)
(* What ch16/race_cond_var.c and ch16/race_barrier.c promise: the threads  *)
(* print their letters one at a time, in a given order.                    *)
(***************************************************************************)
EXTENDS Naturals, Sequences

CONSTANT Order    \* the letters, in the order in which they are to appear

VARIABLE output   \* the letters printed so far

Init == output = <<>>

PrintLetter ==
  /\ Len(output) < Len(Order)
  /\ output' = Append(output, Order[Len(output) + 1])

SafetySpec == Init /\ [][PrintLetter]_output

Spec == SafetySpec /\ WF_output(PrintLetter)
=============================================================================
