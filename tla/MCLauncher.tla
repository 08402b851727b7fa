------------------------------ MODULE MCLauncher ------------------------------
(***************************************************************************)
(* The instance of Launcher for TLC: the calls of main.c:82-84, with one   *)
(* more executable in each directory; test() with two tests, with none,    *)
(* and with every improper number that fits in an int of eleven bits.      *)
(***************************************************************************)
EXTENDS Launcher

MainCalls ==
  <<[executables |-> 2, repetitions |-> 0], [executables |-> 2, repetitions |-> 10]>>

Counts == {0, 2} \cup -INT_MAX - 1 .. -1 \cup 100 .. INT_MAX
=============================================================================
