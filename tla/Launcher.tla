------------------------------- MODULE Launcher -------------------------------
(***************************************************************************)
(* test.c and main.c: the program test runs ./main, which runs the         *)
(* programs of ch15 and ch16, each through the shell by call_system.  Three *)
(* levels of processes know of each other only the status system() returns. *)
(***************************************************************************)
EXTENDS CString

CONSTANTS
  INT_MAX,     \* the largest int: 2^31 - 1, where LLONG_MAX is 2^63 - 1
  Calls,       \* of launch_execs_in_directory: [executables, repetitions]
  TestCounts   \* the values of the argument tests of test(): 2 in the program

ASSUME LauncherAssumption ==
  /\ Calls \in Seq([executables : Nat \ {0}, repetitions : Nat]) /\ Calls # <<>>
  /\ INT_MAX \in 1 .. LLONG_MAX
  /\ TestCounts \subseteq -INT_MAX - 1 .. INT_MAX

OK == 0

\* What system() may return of a program that failed: it could not be started,
\* exited with 1, with 127, or was aborted.
Failed == {-1, 256, 32512, 6}

VARIABLES
  tests,      \* the argument of test()
  tester,     \* the process test: place, mode, i, result
  main,       \* the process ./main: place, call, executable, counter, result
  command,    \* the string of main with the command
  live,       \* live blocks of the process that runs
  ran,        \* history: what this ./main has run, with the statuses
  mains       \* history: for each ./main that ended, whether all of its programs
              \* ran, and ran well

vars == <<tests, tester, main, command, live, ran, mains>>

-----------------------------------------------------------------------------
(***************************************************************************)
(* The choices of the code that the actions are built from, with mutated   *)
(* forms that no specification uses.                                       *)
(***************************************************************************)

\* Mutated form of RunsAgain: the result is not looked at.
RunsAgainAnyway == main.counter < Calls[main.call].repetitions

RunsAgain == main.counter < Calls[main.call].repetitions /\ main.result = OK

\* Mutated form of Status: the result is returned, whatever it is.
StatusReturned(result) == (result % 256) * 256

\* What the shell and system() make of the end of main(): assert_many aborts on
\* a result that is not OK; the exit status of a process has eight bits.
Status(result) == IF result # OK THEN 6 ELSE (result % 256) * 256

TestsOn == tester.i < tests /\ tester.result = OK

-----------------------------------------------------------------------------
Idle == [place |-> "none", call |-> 1, executable |-> 1, counter |-> 0, result |-> OK]

Init ==
  /\ tests \in TestCounts
  /\ tester = [place |-> "test", mode |-> "plain", i |-> 0, result |-> OK]
  /\ main = Idle
  /\ command = Null
  /\ live = {}
  /\ ran = <<>>
  /\ mains = <<>>

-----------------------------------------------------------------------------
\* test.c

Proper == tests >= 0 /\ tests <= 99

\* How a process ends that comes to the end of LOG_EXIT_FREE, or not so far.
EndsBy(status) ==
  CASE status \in {"ok", "exit"} -> "exit"
    [] status = "abort"          -> "abort"
    [] OTHER                     -> "undefined"

\* An improper number of tests: the message is built, logged and freed.
Improper ==
  /\ tester.place = "test"
  /\ ~ Proper
  /\ \E t \in to_string_i(live, tests) :
       \E m \in IF t.status # "ok" THEN {t}
                ELSE concatenate_many_free_args(t.live, Literal(<<"improper">>), FALSE,
                                                <<[string |-> t.result, free |-> TRUE]>>) :
         LET end == Free(m, m.result)
         IN  /\ tester' = [tester EXCEPT !.place = EndsBy(end.status)]
             /\ command' = m.result
             /\ live' = end.live
  /\ UNCHANGED <<tests, main, ran, mains>>

\* call_system("./main"): the process cannot be started ...
StartFails ==
  /\ tester.place = "test" /\ Proper /\ TestsOn
  /\ tester' = [tester EXCEPT !.i = @ + 1, !.result = -1]
  /\ UNCHANGED <<tests, main, command, live, ran, mains>>

\* ... or runs.
StartMain ==
  /\ tester.place = "test" /\ Proper /\ TestsOn
  /\ tester' = [tester EXCEPT !.place = "wait"]
  /\ main' = [Idle EXCEPT !.place = "build"]
  /\ ran' = <<>> /\ command' = Null /\ live' = {}
  /\ UNCHANGED <<tests, mains>>

\* test() returns: assert_many; then the same under valgrind, then the end.
TestReturns ==
  /\ tester.place = "test" /\ Proper /\ ~ TestsOn
  /\ tester' = IF tester.result # OK THEN [tester EXCEPT !.place = "abort"]
               ELSE IF tester.mode = "plain"
                      THEN [tester EXCEPT !.mode = "valgrind", !.i = 0]
                      ELSE [tester EXCEPT !.place = "success"]
  /\ UNCHANGED <<tests, main, command, live, ran, mains>>

-----------------------------------------------------------------------------
\* main.c

\* What there is to run, in each ./main: each executable of each call, so many times.
ToRun ==
  UNION {{n} \X (1 .. Calls[n].executables) \X (1 .. Calls[n].repetitions) :
           n \in DOMAIN Calls}

\* The next program of ./main, for the n-th time.
Program(n) == <<main.call, main.executable, n>>

AllRanWell ==
  /\ {ran[n].program : n \in DOMAIN ran} = ToRun
  /\ \A n \in DOMAIN ran : ran[n].status = OK

\* The process ./main is gone, and test knows its status.
MainEnds(status) ==
  /\ main' = [main EXCEPT !.place = "none"]
  /\ tester' = [tester EXCEPT !.place = "test", !.i = @ + 1, !.result = status]
  /\ mains' = Append(mains, AllRanWell)

\* concatenate_many: ld_path, " ", valgrind_str, " ./", directory and the name.
Build ==
  /\ main.place = "build"
  /\ \E o \in concatenate_many(live, Literal(<<"part">>),
                               [i \in 1 .. 5 |-> Literal(<<"part">>)]) :
       /\ command' = o.result
       /\ live' = o.live
       /\ IF o.status = "ok"
            THEN /\ main' = [main EXCEPT !.place = "repeat", !.counter = 0]
                 /\ UNCHANGED <<tester, mains>>
            ELSE MainEnds(IF o.status = "exit" THEN 256 ELSE 11)
  /\ UNCHANGED <<tests, ran>>

\* call_system(command): a null pointer ends the process by exit(1).
RunProgram ==
  /\ main.place = "repeat" /\ RunsAgain
  /\ IF command.at = 0
       THEN MainEnds(256) /\ UNCHANGED ran
       ELSE /\ \E status \in {OK} \cup Failed :
                 /\ main' = [main EXCEPT !.counter = @ + 1, !.result = status]
                 /\ ran' = Append(ran, [program |-> Program(main.counter + 1),
                                        status |-> status])
            /\ UNCHANGED <<tester, mains>>
  /\ UNCHANGED <<tests, command, live>>

\* free(command) and the next executable, or the next directory if all went
\* well, or the end.
NextExecutable ==
  /\ main.place = "repeat" /\ ~ RunsAgain
  /\ LET o == Free(Outcome("ok", live, Null), command)
     IN  /\ live' = o.live
         /\ CASE o.status # "ok" -> MainEnds(6)
              [] o.status = "ok" /\ main.executable < Calls[main.call].executables ->
                   /\ main' = [main EXCEPT !.place = "build", !.executable = @ + 1]
                   /\ UNCHANGED <<tester, mains>>
              [] OTHER ->
                   IF main.result = OK /\ main.call < Len(Calls)
                     THEN /\ main' = [main EXCEPT !.place = "build", !.call = @ + 1,
                                                  !.executable = 1]
                          /\ UNCHANGED <<tester, mains>>
                     ELSE MainEnds(Status(main.result))
  /\ UNCHANGED <<tests, command, ran>>

-----------------------------------------------------------------------------
Over == tester.place \notin {"test", "wait"}

Next ==
  \/ Improper \/ StartFails \/ StartMain \/ TestReturns
  \/ Build \/ RunProgram \/ NextExecutable
  \/ Over /\ UNCHANGED vars

Spec == Init /\ [][Next]_vars

-----------------------------------------------------------------------------
TypeOK ==
  /\ tester.place \in {"test", "wait", "exit", "abort", "undefined", "success"}
  /\ tester.i \in 0 .. tests \/ tests < 0
  /\ tester.result \in {OK, -1, 6, 256}
  /\ main.place \in {"none", "build", "repeat"}
  /\ main.result \in {OK} \cup Failed
  /\ live \subseteq Nat

(***************************************************************************)
(* test succeeds only if every ./main, plain and under valgrind, ran every *)
(* repetition of every executable and all of them succeeded: no failure is *)
(* lost on the way through two shells, an eight bit exit status and a      *)
(* failing malloc.                                                         *)
(***************************************************************************)
SuccessIsReal ==
  tester.place = "success" => Len(mains) = 2 * tests /\ \A n \in 1 .. Len(mains) : mains[n]

(***************************************************************************)
(* Nothing is run after a failure, by ./main or by test.                   *)
(***************************************************************************)
StopsAtFailure ==
  /\ \A n \in 1 .. Len(ran) - 1 : ran[n].status = OK
  /\ \A n \in 1 .. Len(mains) - 1 : mains[n]

(***************************************************************************)
(* The blocks of ./main: the command while it is in use, nothing when the  *)
(* process ends well (valgrind would report a leak as a failure), and no   *)
(* string in between is left, whichever malloc failed.                     *)
(***************************************************************************)
NoLeak ==
  /\ main.place = "repeat" => live = {command.at} \ {0}
  /\ main.place = "build" \/ tester.place \in {"success", "exit"} => live = {}

(***************************************************************************)
(* With the types: what is live in ./main are blocks that concatenate      *)
(* allocated, and the results the loops hand on are those of system().     *)
(***************************************************************************)
StringsOwned == TypeOK /\ NoLeak

(***************************************************************************)
(* The message about an improper number of tests shows the number, without *)
(* leading zeros, whatever the number, and nothing is misused on the way,  *)
(* unless malloc failed: then the literal "improper tests = " is freed, or *)
(* strcpy reads a null pointer.                                            *)
(***************************************************************************)
MessageIsRight ==
  /\ tester.place = "exit" /\ command.at # 0 => Shows(Tail(command.text), tests)
  /\ tester.place # "abort" \/ Proper
  /\ tester.place = "undefined" => command.at \in {-1, 0}

=============================================================================
