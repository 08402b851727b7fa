----------------------------- MODULE LinkingTest -----------------------------
(***************************************************************************)
(* linking_test.c: three calls of print_many, left by a longjmp from a     *)
(* function that never returns, a second setjmp in the same buffer and a   *)
(* jump to it from utility.c, then nine tests of other libraries, which    *)
(* are not in the repository: all that is known of a test is its result.   *)
(***************************************************************************)
EXTENDS PrintMany, Integers

VARIABLES
  place,       \* where linking_test is
  JMP_BUF,     \* which setjmp filled the buffer: 0 none, 1 or 2
  jmp_value,   \* what the last jump made setjmp return
  printed,     \* history: how many calls of print_many have returned
  tested,      \* history: the tests that ran
  result,      \* of the last one: "OK" or "failed"
  exits        \* the functions registered with atexit, and those that ran

lvars == <<place, JMP_BUF, jmp_value, printed, tested, result, exits>>

TESTS == <<"demo_linking", "demo_derived", "human_linking", "human_derived", "money",
           "base_cpp", "derived_cpp", "base", "derived">>

test_print_many_longjmp == 22
jmp_value_2 == -35

Blanks(n) == [i \in 1 .. n |-> DELIMITER]

\* The three formats and the types of the arguments that follow them.
PrintCalls ==
  LET sp == DELIMITER
      tail == <<"d", sp, "G", sp, "s", sp, "d", sp, "s">>
      tailArgs == <<"int", "double", "string", "int", "string">>
  IN  <<[format |-> <<"p", sp, "G", sp, "L", "g", sp, "o", sp, sp,
                      "r", "r", "7", sp>> \o tail,
         args   |-> <<"pointer", "double", "long double">> \o tailArgs],
        [format |-> <<sp, "p", sp, sp, "d">> \o Blanks(7) \o <<"L", "g", sp, sp>> \o tail,
         args   |-> <<"pointer", "int", "long double">> \o tailArgs],
        [format |-> <<sp, "p", sp, sp, "c", sp, "h", "d", sp, "h", "u", sp,
                      "F", sp, "G", sp, "F", sp, "G", sp, sp, "u", sp, sp,
                      "l", "u", sp, "l", "d", sp, "l", "l", "u", sp, "l", "l", "d", sp>>,
         args   |-> <<"pointer", "int", "int", "int", "double", "double", "double",
                      "double", "int", "long", "long", "long long", "long long">>]>>

LinkingTestInit ==
  /\ format = <<>> /\ args = <<>> /\ printer = "idle"
  /\ first = 1 /\ used = 0 /\ shown = <<>>
  /\ place = "main"
  /\ JMP_BUF = 0 /\ jmp_value = 0
  /\ printed = 0 /\ tested = <<>> /\ result = "OK"
  /\ exits = [registered |-> FALSE, ran |-> FALSE]

-----------------------------------------------------------------------------
\* longjmp: back to the setjmp that filled the buffer, which returns value.
longjmp(value) ==
  /\ place' = (CASE JMP_BUF = 1 -> "first"
                 [] JMP_BUF = 2 -> "second"
                 [] OTHER       -> "undefined")
  /\ jmp_value' = value

\* Mutated form of SecondBuffer: the second setjmp is left out.
SecondBufferLeftOut == JMP_BUF

\* What the second setjmp makes of the buffer.
SecondBuffer == 2

\* main and tests, up to the first setjmp.
tests_setjmp ==
  /\ place = "main"
  /\ place' = "print" /\ JMP_BUF' = 1
  /\ UNCHANGED <<jmp_value, printed, tested, result, exits, pvars>>

\* test_print_many calls print_many ...
test_print_many ==
  /\ place = "print" /\ printer \in {"idle", "done"} /\ printed < Len(PrintCalls)
  /\ place' = "printing"
  /\ Printing(PrintCalls[printed + 1].format, PrintCalls[printed + 1].args)
  /\ UNCHANGED <<JMP_BUF, jmp_value, printed, tested, result, exits>>

print_many == print_many_turn /\ UNCHANGED lvars

print_many_returns ==
  /\ place = "printing" /\ printer = "done"
  /\ place' = "print" /\ printed' = printed + 1
  /\ UNCHANGED <<JMP_BUF, jmp_value, tested, result, exits, pvars>>

\* ... and leaves by a jump.
test_print_many_jumps ==
  /\ place = "print" /\ printed = Len(PrintCalls)
  /\ longjmp(test_print_many_longjmp)
  /\ UNCHANGED <<JMP_BUF, printed, tested, result, exits, pvars>>

\* After the first jump: the value is asserted, then the second setjmp.
after_first_jump ==
  /\ place = "first"
  /\ IF jmp_value = test_print_many_longjmp
       THEN place' = "jump" /\ JMP_BUF' = SecondBuffer
       ELSE place' = "abort" /\ UNCHANGED JMP_BUF
  /\ UNCHANGED <<jmp_value, printed, tested, result, exits, pvars>>

longjump_test ==
  /\ place = "jump"
  /\ longjmp(jmp_value_2)
  /\ UNCHANGED <<JMP_BUF, printed, tested, result, exits, pvars>>

\* After the second: the value is asserted, at_exit is registered, the tests begin.
after_second_jump ==
  /\ place = "second"
  /\ IF jmp_value = jmp_value_2
       THEN place' = "tests" /\ exits' = [exits EXCEPT !.registered = TRUE]
       ELSE place' = "abort" /\ UNCHANGED exits
  /\ UNCHANGED <<JMP_BUF, jmp_value, printed, tested, result, pvars>>

\* The condition of the loop of main_test_linking.
Left == Len(tested) < Len(TESTS) /\ result = "OK"

\* A test, and the assertion on its result, which aborts.
main_test_linking ==
  /\ place = "tests" /\ Left
  /\ \E r \in {"OK", "failed"} :
       /\ result' = r
       /\ place' = IF r = "OK" THEN "tests" ELSE "abort"
  /\ tested' = Append(tested, TESTS[Len(tested) + 1])
  /\ UNCHANGED <<JMP_BUF, jmp_value, printed, exits, pvars>>

\* The handler destroys the regex of the human tests, if it is registered.
at_exit == exits' = [exits EXCEPT !.ran = @ \/ exits.registered]

\* main finds a good result and returns, which runs the handler.
main_returns ==
  /\ place = "tests" /\ ~ Left
  /\ place' = "exit"
  /\ at_exit
  /\ UNCHANGED <<JMP_BUF, jmp_value, printed, tested, result, pvars>>

LinkingTestNext ==
  \/ tests_setjmp \/ test_print_many \/ print_many \/ print_many_returns
  \/ test_print_many_jumps \/ after_first_jump \/ longjump_test \/ after_second_jump
  \/ main_test_linking \/ main_returns

-----------------------------------------------------------------------------
(***************************************************************************)
(* The one buffer serves both jumps: each lands at the setjmp that expects *)
(* its value, so that linking_test aborts only because of a test, and by   *)
(* then all three calls of print_many have returned.  Success means that   *)
(* all nine tests ran, and that what the human tests left on the heap has  *)
(* been destroyed.                                                         *)
(***************************************************************************)
JumpsLand ==
  /\ place \in {"abort", "undefined"} => result = "failed"
  /\ place \notin {"client", "main", "print", "printing"} => printed = Len(PrintCalls)
  /\ place = "exit" => tested = TESTS /\ result = "OK" /\ exits.ran
=============================================================================
