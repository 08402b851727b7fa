------------------------------ MODULE ToolProofs ------------------------------
(***************************************************************************)
(* Proofs about the sequential programs, Launcher and Library.  Of the     *)
(* launcher, for any calls of launch_execs_in_directory and any number of  *)
(* tests: nothing runs after a failure, and success means that everything  *)
(* ran; these need nothing of the strings, which can only end the process, *)
(* with a failure.  Of the strings, however large a long long is: the      *)
(* decimal text of every number is right, and no block is lost or misused  *)
(* whichever malloc fails.  Of print_many, for every format, of any length *)
(* and any characters: each word is seen once and in order and takes the   *)
(* argument that was passed for it.  Of linking_test: its jumps land where *)
(* they should.                                                            *)
(***************************************************************************)
EXTENDS Launcher, Library, SequenceTheorems, FiniteSetTheorems, WellFoundedInduction,
        TLAPS

(***************************************************************************)
(* Types, and where ./main is: in one of the calls, at one of its          *)
(* executables, with no more repetitions than asked for.                   *)
(***************************************************************************)
Tester == [place : {"test", "wait", "exit", "abort", "undefined", "success"},
           mode : {"plain", "valgrind"}, i : Nat, result : Int]

Main == [place : {"none", "build", "repeat"}, call : Nat, executable : Nat,
         counter : Nat, result : Int]

ProcessesOK ==
  /\ tests \in Int
  /\ tester \in Tester
  /\ main \in Main
  /\ main.place # "none" <=> tester.place = "wait"
  /\ main.place # "none" =>
       /\ main.call \in DOMAIN Calls
       /\ main.executable \in 1 .. Calls[main.call].executables
  /\ main.place = "repeat" => main.counter <= Calls[main.call].repetitions

(***************************************************************************)
(* The programs that come before the one that ./main is at.                *)
(***************************************************************************)
Past ==
  {p \in ToRun :
     \/ p[1] < main.call
     \/ p[1] = main.call /\ p[2] < main.executable
     \/ /\ p[1] = main.call /\ p[2] = main.executable
        /\ main.place = "repeat" /\ p[3] <= main.counter}

(***************************************************************************)
(* What ./main has run: all but the last ran well, the result is that of   *)
(* the last, and as long as it is OK nothing has been skipped.             *)
(***************************************************************************)
RanInv ==
  /\ ran \in Seq([program : ToRun, status : Int])
  /\ \A n \in 1 .. Len(ran) - 1 : ran[n].status = OK
  /\ main.place # "none" =>
       /\ IF ran = <<>> THEN main.result = OK ELSE main.result = ran[Len(ran)].status
       /\ main.result = OK => {ran[n].program : n \in DOMAIN ran} = Past

(***************************************************************************)
(* What test has run: all but the last ran well, and as long as the result *)
(* is OK every turn of its loop has run a ./main, and that ran well.       *)
(***************************************************************************)
MainsInv ==
  /\ mains \in Seq(BOOLEAN)
  /\ \A n \in 1 .. Len(mains) - 1 : mains[n]
  /\ tester.place \in {"test", "wait", "success"} /\ tester.result = OK =>
       \A n \in DOMAIN mains : mains[n]
  /\ tester.place \in {"test", "wait"} /\ tester.result = OK /\ Proper =>
       /\ tester.i <= tests
       /\ Len(mains) = IF tester.mode = "plain" THEN tester.i ELSE tests + tester.i
  /\ tester.place = "wait" => Proper /\ TestsOn
  /\ tester.place = "success" => tester.result = OK /\ Proper /\ Len(mains) = 2 * tests

LInv == ProcessesOK /\ RanInv /\ MainsInv
-----------------------------------------------------------------------------
(***************************************************************************)
(* The parameters.                                                         *)
(***************************************************************************)
LEMMA Parameters ==
  /\ \A n \in TestCounts : n \in Int
  /\ Len(Calls) \in Nat \ {0} /\ DOMAIN Calls = 1 .. Len(Calls)
  /\ \A n \in DOMAIN Calls : /\ Calls[n].executables \in Nat \ {0}
                             /\ Calls[n].repetitions \in Nat
  /\ OK = 0 /\ Failed \subseteq Int /\ 0 \notin Failed
<1>1. \A n \in TestCounts : n \in Int
  BY LauncherAssumption
<1>2. Len(Calls) \in Nat \ {0} /\ DOMAIN Calls = 1 .. Len(Calls)
  BY LauncherAssumption, LenProperties, EmptySeq
<1>3. ASSUME NEW n \in DOMAIN Calls
      PROVE  Calls[n].executables \in Nat \ {0} /\ Calls[n].repetitions \in Nat
  <2>1. Calls[n] \in [executables : Nat \ {0}, repetitions : Nat]
    BY <1>2, LauncherAssumption, ElementOfSeq
  <2>. QED  BY <2>1
<1>. QED  BY <1>1, <1>2, <1>3 DEF OK, Failed

LEMMA InToRun ==
  ASSUME NEW c \in DOMAIN Calls, NEW e \in 1 .. Calls[c].executables,
         NEW k \in 1 .. Calls[c].repetitions
  PROVE  <<c, e, k>> \in ToRun
BY DEF ToRun

LEMMA ToRunParts ==
  ASSUME NEW p \in ToRun
  PROVE  /\ p = <<p[1], p[2], p[3]>>
         /\ p[1] \in DOMAIN Calls
         /\ p[2] \in 1 .. Calls[p[1]].executables
         /\ p[3] \in 1 .. Calls[p[1]].repetitions
         /\ p[1] \in Nat /\ p[2] \in Nat /\ p[3] \in Nat
BY Parameters DEF ToRun

LEMMA InitL == Init => LInv
BY Parameters DEF Init, LInv, ProcessesOK, RanInv, MainsInv, Idle, Tester, Main, OK, Proper

-----------------------------------------------------------------------------
(***************************************************************************)
(* What ends ./main, and what it does else.                                *)
(***************************************************************************)
AtItsEnd ==
  /\ main.place = "repeat" /\ ~ RunsAgain /\ main.result = OK
  /\ main.executable = Calls[main.call].executables
  /\ main.call = Len(Calls)

MainGone ==
  /\ main.place # "none"
  /\ \E status \in Int : MainEnds(status) /\ (status = OK => AtItsEnd)
  /\ UNCHANGED <<tests, ran>>

MainGoesOn ==
  /\ main.place # "none"
  /\ main'.place \in {"build", "repeat"}
  /\ UNCHANGED <<tests, tester, mains>>

LEMMA BuildSteps ==
  ASSUME LInv, Build
  PROVE  \/ MainGone
         \/ /\ MainGoesOn /\ UNCHANGED ran
            /\ main' = [main EXCEPT !.place = "repeat", !.counter = 0]
<1>1. main.place = "build" /\ UNCHANGED <<tests, ran>> /\ main \in Main
  BY DEF Build, LInv, ProcessesOK
<1>2. \/ MainEnds(256) \/ MainEnds(11)
      \/ /\ main' = [main EXCEPT !.place = "repeat", !.counter = 0]
         /\ UNCHANGED <<tester, mains>>
  BY DEF Build
<1>3. CASE MainEnds(256) \/ MainEnds(11)
  <2>1. 256 \in Int /\ 11 \in Int /\ 256 # OK /\ 11 # OK
    BY DEF OK
  <2>. QED  BY <1>1, <1>3, <2>1 DEF MainGone
<1>4. CASE /\ main' = [main EXCEPT !.place = "repeat", !.counter = 0]
           /\ UNCHANGED <<tester, mains>>
  BY <1>1, <1>4 DEF MainGoesOn, Main
<1>. QED  BY <1>2, <1>3, <1>4

LEMMA RunSteps ==
  ASSUME LInv, RunProgram
  PROVE  \/ MainGone
         \/ /\ MainGoesOn
            /\ \E status \in Int :
                 /\ main' = [main EXCEPT !.counter = @ + 1, !.result = status]
                 /\ ran' = Append(ran, [program |-> Program(main.counter + 1),
                                        status |-> status])
<1>1. main.place = "repeat" /\ UNCHANGED tests /\ main \in Main
  BY DEF RunProgram, LInv, ProcessesOK
<1>2. CASE command.at = 0
  <2>1. MainEnds(256) /\ UNCHANGED ran
    BY <1>2 DEF RunProgram
  <2>2. 256 \in Int /\ 256 # OK
    BY DEF OK
  <2>. QED  BY <1>1, <2>1, <2>2 DEF MainGone
<1>3. CASE command.at # 0
  <2>1. PICK status \in {OK} \cup Failed :
             /\ main' = [main EXCEPT !.counter = @ + 1, !.result = status]
             /\ ran' = Append(ran, [program |-> Program(main.counter + 1),
                                    status |-> status])
    BY <1>3 DEF RunProgram
  <2>2. UNCHANGED <<tester, mains>>
    BY <1>3 DEF RunProgram
  <2>3. status \in Int
    BY Parameters DEF OK
  <2>. QED  BY <1>1, <2>1, <2>2, <2>3 DEF MainGoesOn, Main
<1>. QED  BY <1>2, <1>3

LEMMA NextSteps ==
  ASSUME LInv, NextExecutable
  PROVE  /\ UNCHANGED ran
         /\ \/ MainGone
            \/ /\ MainGoesOn
               /\ main.executable < Calls[main.call].executables
               /\ main' = [main EXCEPT !.place = "build", !.executable = @ + 1]
            \/ /\ MainGoesOn
               /\ main.executable = Calls[main.call].executables
               /\ main.result = OK /\ main.call < Len(Calls)
               /\ main' = [main EXCEPT !.place = "build", !.call = @ + 1,
                                       !.executable = 1]
<1>. DEFINE o == Free(Outcome("ok", live, Null), command)
<1>1. main.place = "repeat" /\ ~ RunsAgain /\ UNCHANGED <<tests, ran>>
  BY DEF NextExecutable
<1>2. /\ main.executable < Calls[main.call].executables
         \/ main.executable = Calls[main.call].executables
      /\ main.call < Len(Calls) \/ main.call = Len(Calls)
  BY <1>1, Parameters DEF LInv, ProcessesOK
<1>3. CASE o.status # "ok"
  <2>1. MainEnds(6)
    BY <1>3 DEF NextExecutable
  <2>. QED  BY <1>1, <2>1 DEF MainGone, OK
<1>4. CASE o.status = "ok" /\ main.executable < Calls[main.call].executables
  BY <1>1, <1>4 DEF NextExecutable, MainGoesOn, LInv, ProcessesOK, Main
<1>5. CASE o.status = "ok" /\ ~ (main.executable < Calls[main.call].executables)
  <2>1. CASE main.result = OK /\ main.call < Len(Calls)
    BY <1>1, <1>2, <1>5, <2>1 DEF NextExecutable, MainGoesOn, LInv, ProcessesOK, Main
  <2>2. CASE ~ (main.result = OK /\ main.call < Len(Calls))
    <3>1. MainEnds(Status(main.result))
      BY <1>5, <2>2 DEF NextExecutable
    <3>2. Status(main.result) \in Int /\ (Status(main.result) = OK => AtItsEnd)
      BY <1>1, <1>2, <1>5, <2>2 DEF Status, OK, AtItsEnd
    <3>. QED  BY <1>1, <3>1, <3>2 DEF MainGone
  <2>. QED  BY <2>1, <2>2
<1>. QED  BY <1>1, <1>3, <1>4, <1>5

(***************************************************************************)
(* At its end ./main has run everything, and it all went well.             *)
(***************************************************************************)
LEMMA EndRanWell ==
  ASSUME LInv, AtItsEnd
  PROVE  AllRanWell
<1>1. /\ main.call = Len(Calls) /\ main.executable = Calls[main.call].executables
      /\ main.counter >= Calls[main.call].repetitions
  BY Parameters DEF AtItsEnd, RunsAgain, LInv, ProcessesOK, Main
<1>2. Past = ToRun
  <2>1. ASSUME NEW p \in ToRun PROVE p \in Past
    <3>1. CASE p[1] # main.call
      BY <1>1, <3>1, ToRunParts, Parameters DEF Past, LInv, ProcessesOK
    <3>2. CASE p[1] = main.call /\ p[2] # main.executable
      BY <1>1, <3>2, ToRunParts, Parameters DEF Past
    <3>3. CASE p[1] = main.call /\ p[2] = main.executable
      <4>1. p[3] <= main.counter
        BY <1>1, <3>3, ToRunParts, Parameters DEF LInv, ProcessesOK, Main
      <4>. QED  BY <3>3, <4>1 DEF Past, AtItsEnd
    <3>. QED  BY <3>1, <3>2, <3>3
  <2>. QED  BY <2>1 DEF Past
<1>3. \A n \in DOMAIN ran : ran[n].status = OK
  BY LenProperties DEF AtItsEnd, LInv, RanInv
<1>. QED  BY <1>2, <1>3 DEF AllRanWell, AtItsEnd, LInv, RanInv

-----------------------------------------------------------------------------
(***************************************************************************)
(* The processes.                                                          *)
(***************************************************************************)
LEMMA ProcessesStep == LInv /\ [Next]_vars => ProcessesOK'
<1>. SUFFICES ASSUME LInv, [Next]_vars PROVE ProcessesOK'
  OBVIOUS
<1>0. ProcessesOK /\ tester.i + 1 \in Nat
  BY DEF LInv, ProcessesOK, Tester
<1>1. CASE Improper
  <2>1. \A status : EndsBy(status) \in {"exit", "abort", "undefined"}
    BY DEF EndsBy
  <2>2. PICK status : tester' = [tester EXCEPT !.place = EndsBy(status)]
    BY <1>1 DEF Improper
  <2>. QED  BY <1>0, <1>1, <2>1, <2>2 DEF Improper, ProcessesOK, Tester, Main
<1>2. CASE StartFails
  <2>1. tester' = [tester EXCEPT !.i = @ + 1, !.result = -1] /\ tester.place = "test"
    BY <1>2 DEF StartFails
  <2>2. tester' \in Tester
    <3>1. -1 \in Int
      OBVIOUS
    <3>. QED  BY <1>0, <2>1, <3>1 DEF ProcessesOK, Tester
  <2>3. tester'.place = "test"
    BY <1>0, <2>1 DEF ProcessesOK, Tester
  <2>. QED  BY <1>0, <1>2, <2>1, <2>2, <2>3 DEF StartFails, ProcessesOK
<1>3. CASE StartMain
  <2>1. main' = [place |-> "build", call |-> 1, executable |-> 1, counter |-> 0,
                 result |-> 0]
    BY <1>3 DEF StartMain, Idle, OK
  <2>2. main' \in Main /\ 1 \in DOMAIN Calls /\ 1 \in 1 .. Calls[1].executables
    BY <2>1, Parameters DEF Main
  <2>3. tester' \in Tester /\ tester'.place = "wait" /\ tests' = tests
    BY <1>0, <1>3 DEF StartMain, ProcessesOK, Tester
  <2>. QED  BY <1>0, <2>1, <2>2, <2>3 DEF ProcessesOK
<1>4. CASE TestReturns
  <2>1. tester' \in Tester /\ tester'.place # "wait" /\ tester.place # "wait"
    BY <1>0, <1>4 DEF TestReturns, ProcessesOK, Tester
  <2>. QED  BY <1>0, <1>4, <2>1 DEF TestReturns, ProcessesOK
<1>5. CASE MainGone
  <2>1. PICK status \in Int : MainEnds(status) /\ tests' = tests
    BY <1>5 DEF MainGone
  <2>2. tester' \in Tester /\ tester'.place = "test"
    BY <1>0, <2>1 DEF MainEnds, ProcessesOK, Tester
  <2>3. main' \in Main /\ main'.place = "none"
    BY <1>0, <2>1 DEF MainEnds, ProcessesOK, Main
  <2>. QED  BY <1>0, <2>1, <2>2, <2>3 DEF ProcessesOK
<1>6. CASE (Build \/ RunProgram \/ NextExecutable) /\ ~ MainGone
  <2>1. UNCHANGED <<tests, tester>> /\ main.place # "none" /\ main'.place # "none"
    BY <1>6, BuildSteps, RunSteps, NextSteps DEF MainGoesOn
  <2>2. /\ main.call \in DOMAIN Calls /\ Calls[main.call].executables \in Nat
        /\ Calls[main.call].repetitions \in Nat
        /\ main.executable \in 1 .. Calls[main.call].executables
        /\ main.call + 1 \in Nat /\ main.executable + 1 \in Nat /\ main.counter + 1 \in Nat
    BY <1>0, <2>1, Parameters DEF ProcessesOK, Main
  <2>3. /\ main' \in Main
        /\ main'.call \in DOMAIN Calls
        /\ main'.executable \in 1 .. Calls[main'.call].executables
        /\ main'.place = "repeat" => main'.counter <= Calls[main'.call].repetitions
    <3>1. CASE Build
      <4>1. main' = [main EXCEPT !.place = "repeat", !.counter = 0]
        BY <1>6, <3>1, BuildSteps
      <4>2. main' \in Main
        BY <1>0, <4>1 DEF ProcessesOK, Main
      <4>3. /\ main'.call = main.call /\ main'.executable = main.executable
            /\ main'.counter = 0
        BY <1>0, <4>1 DEF ProcessesOK, Main
      <4>. QED  BY <2>2, <4>2, <4>3
    <3>2. CASE RunProgram
      <4>1. main.counter < Calls[main.call].repetitions /\ main.place = "repeat"
        BY <3>2 DEF RunProgram, RunsAgain
      <4>2. PICK status \in Int :
                 main' = [main EXCEPT !.counter = @ + 1, !.result = status]
        BY <1>6, <3>2, RunSteps
      <4>3. main' \in Main
        BY <1>0, <2>2, <4>2 DEF ProcessesOK, Main
      <4>4. /\ main'.call = main.call /\ main'.executable = main.executable
            /\ main'.counter = main.counter + 1 /\ main.counter \in Nat
        BY <1>0, <4>2 DEF ProcessesOK, Main
      <4>. QED  BY <2>2, <4>1, <4>3, <4>4
    <3>3. CASE /\ main.executable < Calls[main.call].executables
               /\ main' = [main EXCEPT !.place = "build", !.executable = @ + 1]
      <4>1. main' \in Main
        BY <1>0, <2>2, <3>3 DEF ProcessesOK, Main
      <4>2. /\ main'.place = "build" /\ main'.call = main.call
            /\ main'.executable = main.executable + 1
        BY <1>0, <3>3 DEF ProcessesOK, Main
      <4>. QED  BY <2>2, <3>3, <4>1, <4>2
    <3>4. CASE /\ main.call < Len(Calls)
               /\ main' = [main EXCEPT !.place = "build", !.call = @ + 1,
                                       !.executable = 1]
      <4>1. main.call + 1 \in DOMAIN Calls /\ 1 \in 1 .. Calls[main.call + 1].executables
        BY <2>2, <3>4, Parameters
      <4>2. main' \in Main
        BY <1>0, <2>2, <3>4 DEF ProcessesOK, Main
      <4>3. /\ main'.place = "build" /\ main'.call = main.call + 1
            /\ main'.executable = 1
        BY <1>0, <3>4 DEF ProcessesOK, Main
      <4>. QED  BY <4>1, <4>2, <4>3
    <3>. QED  BY <1>6, <3>1, <3>2, <3>3, <3>4, NextSteps
  <2>. QED  BY <1>0, <2>1, <2>3 DEF ProcessesOK
<1>9. CASE UNCHANGED vars
  BY <1>0, <1>9 DEF vars, ProcessesOK
<1>. QED
  BY <1>1, <1>2, <1>3, <1>4, <1>5, <1>6, <1>9 DEF Next

(***************************************************************************)
(* What ./main has run.                                                    *)
(***************************************************************************)
LEMMA RanStep == LInv /\ [Next]_vars => RanInv'
<1>. SUFFICES ASSUME LInv, [Next]_vars PROVE RanInv'
  OBVIOUS
<1>0. ProcessesOK /\ RanInv /\ ProcessesOK'
  BY ProcessesStep DEF LInv
<1>1. CASE UNCHANGED <<main, ran>>
  BY <1>0, <1>1 DEF RanInv, Past
<1>2. CASE StartMain
  <2>1. main'.call = 1 /\ main'.executable = 1 /\ main'.place = "build"
        /\ main'.result = OK
    BY <1>2 DEF StartMain, Idle
  <2>2. Past' = {}
    BY <2>1, ToRunParts, Parameters DEF Past
  <2>3. ran' = <<>>
    BY <1>2 DEF StartMain
  <2>. QED  BY <2>1, <2>2, <2>3, EmptySeq DEF RanInv
<1>3. CASE MainGone
  BY <1>0, <1>3 DEF MainGone, MainEnds, RanInv, ProcessesOK, Main
<1>4. CASE Build /\ ~ MainGone
  <2>1. UNCHANGED ran /\ main' = [main EXCEPT !.place = "repeat", !.counter = 0]
    BY <1>4, BuildSteps
  <2>2. main.place = "build"
    BY <1>4 DEF Build
  <2>3. Past' = Past
    BY <1>0, <2>1, <2>2, ToRunParts DEF Past, ProcessesOK, Main
  <2>. QED  BY <1>0, <2>1, <2>2, <2>3 DEF RanInv, ProcessesOK, Main
<1>5. CASE RunProgram /\ ~ MainGone
  <2>. DEFINE p == Program(main.counter + 1)
  <2>1. PICK status \in Int :
             /\ main' = [main EXCEPT !.counter = @ + 1, !.result = status]
             /\ ran' = Append(ran, [program |-> p, status |-> status])
    BY <1>5, RunSteps
  <2>2. main.place = "repeat" /\ main.result = OK
        /\ main.counter < Calls[main.call].repetitions
    BY <1>5 DEF RunProgram, RunsAgain
  <2>3. p \in ToRun
    <3>1. /\ main.call \in DOMAIN Calls
          /\ main.executable \in 1 .. Calls[main.call].executables
          /\ main.counter \in Nat
      BY <1>0, <2>2 DEF ProcessesOK, Main
    <3>2. main.counter + 1 \in 1 .. Calls[main.call].repetitions
      BY <2>2, <3>1, Parameters
    <3>. QED  BY <3>1, <3>2, InToRun DEF Program
  <2>4. ran \in Seq([program : ToRun, status : Int])
        /\ ran' \in Seq([program : ToRun, status : Int])
    BY <1>0, <2>1, <2>3, AppendProperties DEF RanInv
  <2>5. /\ Len(ran') = Len(ran) + 1 /\ Len(ran) \in Nat
        /\ DOMAIN ran = 1 .. Len(ran) /\ DOMAIN ran' = 1 .. Len(ran) + 1
        /\ \A n \in 1 .. Len(ran) : ran'[n] = ran[n]
        /\ ran'[Len(ran) + 1] = [program |-> p, status |-> status]
    BY <2>1, <2>4, LenProperties, AppendProperties
  <2>6. \A n \in 1 .. Len(ran) : ran[n].status = OK
    BY <1>0, <2>2, <2>5 DEF RanInv
  <2>7. Past' = Past \cup {p}
    <3>1. /\ main'.place = "repeat" /\ main'.call = main.call
          /\ main'.executable = main.executable /\ main'.counter = main.counter + 1
          /\ main.counter \in Nat
      BY <1>0, <2>1, <2>2 DEF ProcessesOK, Main
    <3>2. ASSUME NEW q \in ToRun
          PROVE  q = p <=> /\ q[1] = main.call /\ q[2] = main.executable
                           /\ q[3] = main.counter + 1
      BY ToRunParts DEF Program
    <3>. QED  BY <2>2, <2>3, <3>1, <3>2, ToRunParts DEF Past
  <2>8. {ran'[n].program : n \in DOMAIN ran'} = {ran[n].program : n \in DOMAIN ran} \cup {p}
    BY <2>5
  <2>9. {ran'[n].program : n \in DOMAIN ran'} = Past'
    BY <1>0, <2>2, <2>7, <2>8 DEF RanInv
  <2>10. main'.result = status
    BY <1>0, <2>1 DEF ProcessesOK, Main
  <2>. QED  BY <2>4, <2>5, <2>6, <2>9, <2>10 DEF RanInv
<1>6. CASE NextExecutable /\ ~ MainGone
  <2>1. /\ main.place = "repeat" /\ ~ RunsAgain /\ UNCHANGED ran
        /\ main'.place = "build" /\ main'.result = main.result
    BY <1>0, <1>6, NextSteps DEF NextExecutable, ProcessesOK, Main
  <2>2. CASE main.result # OK
    BY <1>0, <2>1, <2>2 DEF RanInv
  <2>3. CASE main.result = OK
    <3>1. main.counter = Calls[main.call].repetitions
      BY <1>0, <2>1, <2>3, Parameters DEF RunsAgain, ProcessesOK, Main
    <3>2. ASSUME NEW q \in ToRun PROVE q \in Past' <=> q \in Past
      <4>1. CASE main' = [main EXCEPT !.place = "build", !.executable = @ + 1]
        BY <1>0, <2>1, <3>1, <4>1, ToRunParts DEF Past, ProcessesOK, Main
      <4>2. CASE /\ main.executable = Calls[main.call].executables
                 /\ main' = [main EXCEPT !.place = "build", !.call = @ + 1,
                                         !.executable = 1]
        BY <1>0, <2>1, <3>1, <4>2, ToRunParts DEF Past, ProcessesOK, Main
      <4>. QED  BY <1>6, <4>1, <4>2, NextSteps
    <3>3. Past' = Past
      BY <3>2 DEF Past
    <3>. QED  BY <1>0, <2>1, <3>3 DEF RanInv
  <2>. QED  BY <2>2, <2>3
<1>. QED
  BY <1>1, <1>2, <1>3, <1>4, <1>5, <1>6
     DEF Next, Improper, StartFails, TestReturns, vars

(***************************************************************************)
(* What test has run.                                                      *)
(***************************************************************************)
LEMMA MainsStep == LInv /\ [Next]_vars => MainsInv'
<1>. SUFFICES ASSUME LInv, [Next]_vars PROVE MainsInv'
  OBVIOUS
<1>0. ProcessesOK /\ MainsInv /\ ProcessesOK' /\ tester \in Tester /\ tests \in Int
      /\ tester.i \in Nat /\ tester.i + 1 \in Nat /\ Len(mains) \in Nat
  BY ProcessesStep, LenProperties DEF LInv, ProcessesOK, Tester, MainsInv
<1>1. CASE UNCHANGED <<tests, tester, mains>>
  BY <1>0, <1>1 DEF MainsInv, Proper, TestsOn
<1>2. CASE Improper
  <2>1. \A status : EndsBy(status) \notin {"test", "wait", "success"}
    BY DEF EndsBy
  <2>2. PICK status : tester' = [tester EXCEPT !.place = EndsBy(status)]
    BY <1>2 DEF Improper
  <2>3. tester'.place \notin {"test", "wait", "success"}
    BY <1>0, <2>1, <2>2 DEF Tester
  <2>. QED  BY <1>0, <1>2, <2>3 DEF Improper, MainsInv
<1>3. CASE StartFails
  <2>1. tester'.place = "test" /\ tester'.result # OK
    BY <1>0, <1>3 DEF StartFails, Tester, OK
  <2>. QED  BY <1>0, <1>3, <2>1 DEF StartFails, MainsInv
<1>4. CASE StartMain
  <2>1. /\ tester.place = "test" /\ tester'.place = "wait" /\ tester'.i = tester.i
        /\ tester'.mode = tester.mode /\ tester'.result = tester.result
    BY <1>0, <1>4 DEF StartMain, Tester
  <2>. QED  BY <1>0, <1>4, <2>1 DEF StartMain, MainsInv, Proper, TestsOn
<1>5. CASE TestReturns
  <2>1. tester.place = "test" /\ Proper /\ ~ TestsOn /\ UNCHANGED <<tests, mains>>
    BY <1>5 DEF TestReturns
  <2>2. CASE tester.result # OK
    <3>1. tester'.place = "abort"
      <4>1. tester' = [tester EXCEPT !.place = "abort"]
        BY <1>5, <2>2 DEF TestReturns
      <4>. QED  BY <1>0, <4>1 DEF Tester
    <3>. QED  BY <1>0, <2>1, <3>1 DEF MainsInv
  <2>3. CASE tester.result = OK
    <3>1. tester.i = tests
          /\ Len(mains) = IF tester.mode = "plain" THEN tests ELSE tests + tests
      BY <1>0, <2>1, <2>3 DEF MainsInv, TestsOn
    <3>2. CASE tester.mode = "plain"
      <4>1. /\ tester'.place = "test" /\ tester'.mode = "valgrind" /\ tester'.i = 0
            /\ tester'.result = OK
        BY <1>0, <1>5, <2>1, <2>3, <3>2 DEF TestReturns, Tester
      <4>. QED  BY <1>0, <2>1, <2>3, <3>1, <3>2, <4>1 DEF MainsInv, Proper
    <3>3. CASE tester.mode # "plain"
      <4>1. tester'.place = "success" /\ tester'.result = OK
        BY <1>0, <1>5, <2>3, <3>3 DEF TestReturns, Tester
      <4>. QED  BY <1>0, <2>1, <2>3, <3>1, <3>3, <4>1 DEF MainsInv, Proper
    <3>. QED  BY <3>2, <3>3
  <2>. QED  BY <2>2, <2>3
<1>6. CASE MainGone
  <2>. DEFINE w == AllRanWell
  <2>1. PICK status \in Int : MainEnds(status) /\ (status = OK => AtItsEnd)
    BY <1>6 DEF MainGone
  <2>2. tester.place = "wait" /\ tests' = tests /\ w \in BOOLEAN
    BY <1>0, <1>6 DEF MainGone, ProcessesOK, AllRanWell
  <2>3. /\ Proper /\ tester.result = OK /\ tester.i < tests
        /\ Len(mains) = IF tester.mode = "plain" THEN tester.i ELSE tests + tester.i
        /\ \A n \in DOMAIN mains : mains[n]
    BY <1>0, <2>2 DEF MainsInv, TestsOn
  <2>4. /\ tester'.place = "test" /\ tester'.i = tester.i + 1
        /\ tester'.mode = tester.mode /\ tester'.result = status
    BY <1>0, <2>1 DEF MainEnds, Tester
  <2>5. status = OK => w
    BY <2>1, EndRanWell
  <2>6. mains' = Append(mains, w) /\ mains \in Seq(BOOLEAN)
    BY <1>0, <2>1 DEF MainEnds, MainsInv
  <2>. HIDE DEF w
  <2>7. /\ mains' \in Seq(BOOLEAN) /\ Len(mains') = Len(mains) + 1
        /\ DOMAIN mains = 1 .. Len(mains) /\ DOMAIN mains' = 1 .. Len(mains) + 1
        /\ \A n \in 1 .. Len(mains) : mains'[n] = mains[n]
        /\ mains'[Len(mains) + 1] = w
    BY <2>2, <2>6, AppendProperties, LenProperties
  <2>8. /\ \A n \in 1 .. Len(mains') - 1 : mains'[n]
        /\ status = OK => \A n \in DOMAIN mains' : mains'[n]
    <3>1. ASSUME NEW n \in 1 .. Len(mains) PROVE mains'[n]
      BY <2>3, <2>7, Zenon
    <3>2. 1 .. Len(mains') - 1 = 1 .. Len(mains)
      BY <1>0, <2>7
    <3>3. \A n \in 1 .. Len(mains) + 1 : n = Len(mains) + 1 \/ n \in 1 .. Len(mains)
      BY <1>0
    <3>4. ASSUME status = OK, NEW n \in DOMAIN mains' PROVE mains'[n]
      <4>1. mains'[Len(mains) + 1]
        BY <2>5, <2>7, <3>4, Zenon
      <4>. QED  BY <2>7, <3>1, <3>3, <3>4, <4>1, Zenon
    <3>. QED  BY <3>1, <3>2, <3>4
  <2>. QED  BY <1>0, <2>2, <2>3, <2>4, <2>7, <2>8 DEF MainsInv, Proper
<1>7. CASE (Build \/ RunProgram \/ NextExecutable) /\ ~ MainGone
  BY <1>1, <1>7, BuildSteps, RunSteps, NextSteps DEF MainGoesOn
<1>. QED  BY <1>1, <1>2, <1>3, <1>4, <1>5, <1>6, <1>7 DEF Next, vars

-----------------------------------------------------------------------------
(***************************************************************************)
(* The invariant holds in every reachable state of the launcher, whatever  *)
(* main.c launches and however often test.c tests.                         *)
(***************************************************************************)
THEOREM LauncherInvariant == Spec => []LInv
<1>1. LInv /\ [Next]_vars => LInv'
  BY ProcessesStep, RanStep, MainsStep DEF LInv
<1>. QED  BY InitL, <1>1, PTL DEF Spec

(***************************************************************************)
(* Nothing is run after a failure (the loops of main.c:61-64 and           *)
(* test.c:22), for any calls and any number of tests.                      *)
(***************************************************************************)
THEOREM NothingAfterFailure == Spec => []StopsAtFailure
<1>1. LInv => StopsAtFailure
  BY DEF LInv, RanInv, MainsInv, StopsAtFailure
<1>. QED  BY LauncherInvariant, <1>1, PTL

(***************************************************************************)
(* test ends with success only if each ./main ran every repetition of      *)
(* every executable and all of them succeeded (test.c:22 and main.c:95).   *)
(***************************************************************************)
THEOREM SuccessMeansAllRan == Spec => []SuccessIsReal
<1>1. LInv => SuccessIsReal
  BY LenProperties DEF LInv, MainsInv, SuccessIsReal
<1>. QED  BY LauncherInvariant, <1>1, PTL

-----------------------------------------------------------------------------
(***************************************************************************)
(* What the recursive functions of CString compute.  A statement about     *)
(* every number is the set of the numbers it holds of, and that set is     *)
(* shown to be Nat: the numbers are well founded, so a set that is not all *)
(* of Nat misses a least number.                                           *)
(***************************************************************************)

\* A set of numbers has a least one.
LEMMA Least ==
  ASSUME NEW T \in SUBSET Nat, T # {}
  PROVE  \E m \in T : \A n \in T : m <= n
<1>. DEFINE R == OpToRel(<, Nat)
<1>1. IsWellFoundedOn(R, Nat)
  BY NatLessThanWellFounded
<1>2. \A x, y \in Nat : x < y => <<x, y>> \in R
  BY DEF OpToRel
<1>. HIDE DEF R
<1>3. PICK x \in T : \A y \in T : ~ (<<y, x>> \in R)
  <2>1. T \subseteq Nat
    OBVIOUS
  <2>. QED  BY <1>1, <2>1, WFMin, Zenon
<1>4. ASSUME NEW y \in T
      PROVE  x <= y
  <2>1. x \in Nat /\ y \in Nat /\ ~ (y < x)
    BY <1>2, <1>3
  <2>. QED  BY <2>1
<1>. QED  BY <1>4

\* What holds of 0, and of n + 1 if it holds of n, holds of every number.
LEMMA Induction ==
  ASSUME NEW T \in SUBSET Nat, 0 \in T, \A n \in T : n + 1 \in T
  PROVE  T = Nat
<1>. SUFFICES ASSUME Nat \ T # {}
              PROVE  FALSE
  OBVIOUS
<1>. DEFINE U == Nat \ T
<1>1. PICK m \in U : \A n \in U : m <= n
  <2>1. U \in SUBSET Nat /\ U # {}
    OBVIOUS
  <2>. QED  BY <2>1, Least, Zenon
<1>2. m \in Nat /\ m # 0 /\ m - 1 \in Nat
  BY <1>1
<1>3. m - 1 \in T
  BY <1>1, <1>2
<1>. QED  BY <1>1, <1>2, <1>3

\* The same, for what holds of a number when it holds of those below.
LEMMA InductionBelow ==
  ASSUME NEW T \in SUBSET Nat, \A n \in Nat : (\A m \in 0 .. n - 1 : m \in T) => n \in T
  PROVE  T = Nat
<1>. SUFFICES ASSUME Nat \ T # {}
              PROVE  FALSE
  OBVIOUS
<1>. DEFINE U == Nat \ T
<1>1. PICK m \in U : \A n \in U : m <= n
  <2>1. U \in SUBSET Nat /\ U # {}
    OBVIOUS
  <2>. QED  BY <2>1, Least, Zenon
<1>2. m \in Nat /\ \A k \in 0 .. m - 1 : k \in T
  <2>1. ASSUME NEW k \in 0 .. m - 1
        PROVE  k \in T
    <3>1. k \in Nat /\ m \in Nat /\ k < m
      BY <1>1
    <3>. QED  BY <1>1, <3>1
  <2>. QED  BY <1>1, <2>1
<1>. QED  BY <1>1, <1>2

\* The ranges of the integers.
LEMMA Limits ==
  /\ LLONG_MAX \in Nat /\ ULLONG_MAX \in Nat /\ LLONG_MIN \in Int
  /\ LLONG_MIN = -LLONG_MAX - 1 /\ ULLONG_MAX = 2 * LLONG_MAX + 1 /\ LLONG_MAX >= 1
BY CStringAssumption DEF LLONG_MIN, ULLONG_MAX

\* The loop of digits_u, turn by turn.
LEMMA DigitsUnrolled ==
  /\ DOMAIN digits_u = 0 .. ULLONG_MAX
  /\ \A x \in 0 .. ULLONG_MAX : digits_u[x] = IF x > 9 THEN digits_u[x \div 10] + 1 ELSE 1
<1>. DEFINE Has(n) == \E f : f = [x \in 0 .. n |-> IF x > 9 THEN f[x \div 10] + 1 ELSE 1]
            T == {n \in Nat : Has(n)}
<1>1. 0 \in T
  <2>. DEFINE f == [x \in 0 .. 0 |-> 1]
  <2>1. f = [x \in 0 .. 0 |-> IF x > 9 THEN f[x \div 10] + 1 ELSE 1]
    OBVIOUS
  <2>. QED  BY <2>1
<1>2. ASSUME NEW n \in T
      PROVE  n + 1 \in T
  <2>1. PICK f : f = [x \in 0 .. n |-> IF x > 9 THEN f[x \div 10] + 1 ELSE 1]
    OBVIOUS
  <2>. DEFINE g == [x \in 0 .. n + 1 |-> IF x > 9 THEN f[x \div 10] + 1 ELSE 1]
  <2>2. ASSUME NEW x \in 0 .. n + 1, x > 9
        PROVE  g[x \div 10] = f[x \div 10]
    <3>1. x \div 10 \in 0 .. n
      OBVIOUS
    <3>. QED  BY <2>1, <3>1
  <2>3. g = [x \in 0 .. n + 1 |-> IF x > 9 THEN g[x \div 10] + 1 ELSE 1]
    BY <2>2
  <2>. HIDE DEF g
  <2>4. Has(n + 1)
    BY <2>3
  <2>. QED  BY <2>4
<1>3. Has(ULLONG_MAX)
  <2>. HIDE DEF T
  <2>1. T \in SUBSET Nat
    BY DEF T
  <2>2. T = Nat
    BY <1>1, <1>2, <2>1, Induction
  <2>. QED  BY <2>2, Limits DEF T
<1>4. digits_u = [x \in 0 .. ULLONG_MAX |-> IF x > 9 THEN digits_u[x \div 10] + 1 ELSE 1]
  BY <1>3 DEF digits_u, MoreDigits
<1>. QED  BY <1>4

\* The loop that writes the digits, turn by turn.
LEMMA WrittenUnrolled ==
  /\ DOMAIN written = 0 .. ULLONG_MAX
  /\ \A x \in 0 .. ULLONG_MAX :
       written[x] = IF x \div 10 > 0 THEN Append(written[x \div 10], Digit[(x % 10) + 1])
                    ELSE <<Digit[(x % 10) + 1]>>
<1>. DEFINE Turn10(x, before) == IF x \div 10 > 0 THEN Append(before, Digit[(x % 10) + 1])
                                 ELSE <<Digit[(x % 10) + 1]>>
            Has(n) == \E f : f = [x \in 0 .. n |-> Turn10(x, f[x \div 10])]
            T == {n \in Nat : Has(n)}
<1>1. 0 \in T
  <2>. DEFINE f == [x \in 0 .. 0 |-> <<Digit[(x % 10) + 1]>>]
  <2>1. f = [x \in 0 .. 0 |-> Turn10(x, f[x \div 10])]
    OBVIOUS
  <2>. HIDE DEF f
  <2>2. Has(0)
    BY <2>1
  <2>. QED  BY <2>2
<1>2. ASSUME NEW n \in T
      PROVE  n + 1 \in T
  <2>1. PICK f : f = [x \in 0 .. n |-> Turn10(x, f[x \div 10])]
    OBVIOUS
  <2>. DEFINE g == [x \in 0 .. n + 1 |-> Turn10(x, f[x \div 10])]
  <2>2. ASSUME NEW x \in 0 .. n + 1, x \div 10 > 0
        PROVE  g[x \div 10] = f[x \div 10]
    <3>1. x \div 10 \in 0 .. n /\ x \div 10 \in 0 .. n + 1
      BY <2>2
    <3>. HIDE DEF Turn10
    <3>. QED  BY <2>1, <3>1
  <2>3. g = [x \in 0 .. n + 1 |-> Turn10(x, g[x \div 10])]
    BY <2>2
  <2>. HIDE DEF g, Turn10
  <2>4. Has(n + 1)
    BY <2>3
  <2>. QED  BY <2>4
<1>3. Has(ULLONG_MAX)
  <2>. HIDE DEF T
  <2>1. T \in SUBSET Nat
    BY DEF T
  <2>2. T = Nat
    BY <1>1, <1>2, <2>1, Induction
  <2>. QED  BY <2>2, Limits DEF T
<1>4. written = [x \in 0 .. ULLONG_MAX |-> Turn10(x, written[x \div 10])]
  BY <1>3 DEF written
<1>. QED  BY <1>4

\* Reading a text, character by character.
Reads(text, f) ==
  f = [n \in 0 .. Len(text) |-> IF n = 0 THEN 0 ELSE 10 * f[n - 1] + DigitOf(text[n])]

\* ValueOf has such a function, which gives it.
LEMMA ValueUnrolled ==
  ASSUME NEW text, Len(text) \in Nat
  PROVE  \E f : Reads(text, f) /\ ValueOf(text) = f[Len(text)]
<1>. DEFINE Next10(n, before) == IF n = 0 THEN 0 ELSE 10 * before + DigitOf(text[n])
            Has(m) == \E f : f = [n \in 0 .. m |-> Next10(n, f[n - 1])]
            T == {m \in Nat : Has(m)}
<1>1. 0 \in T
  <2>. DEFINE f == [n \in 0 .. 0 |-> 0]
  <2>1. f = [n \in 0 .. 0 |-> Next10(n, f[n - 1])]
    OBVIOUS
  <2>. HIDE DEF f
  <2>2. Has(0)
    BY <2>1
  <2>. QED  BY <2>2
<1>2. ASSUME NEW m \in T
      PROVE  m + 1 \in T
  <2>1. PICK f : f = [n \in 0 .. m |-> Next10(n, f[n - 1])]
    OBVIOUS
  <2>. DEFINE g == [n \in 0 .. m + 1 |-> Next10(n, f[n - 1])]
  <2>2. ASSUME NEW n \in 0 .. m + 1, n # 0
        PROVE  g[n - 1] = f[n - 1]
    <3>1. n - 1 \in 0 .. m
      BY <2>2
    <3>. QED  BY <2>1, <3>1
  <2>3. g = [n \in 0 .. m + 1 |-> Next10(n, g[n - 1])]
    BY <2>2
  <2>. HIDE DEF g, Next10
  <2>4. Has(m + 1)
    BY <2>3
  <2>5. m + 1 \in Nat
    OBVIOUS
  <2>. HIDE DEF Has
  <2>. QED  BY <2>4, <2>5
<1>3. Has(Len(text))
  <2>. HIDE DEF T
  <2>1. T \in SUBSET Nat
    BY DEF T
  <2>2. T = Nat
    BY <1>1, <1>2, <2>1, Induction
  <2>. QED  BY <2>2 DEF T
<1>. DEFINE v == CHOOSE f : f = [n \in 0 .. Len(text) |-> Next10(n, f[n - 1])]
<1>4. v = [n \in 0 .. Len(text) |-> Next10(n, v[n - 1])]
  BY <1>3
<1>5. ValueOf(text) = v[Len(text)]
  BY DEF ValueOf
<1>. HIDE DEF v
<1>. QED  BY <1>4, <1>5 DEF Reads

\* One character more.
LEMMA ValueAppend ==
  ASSUME NEW S, NEW s \in Seq(S), NEW c \in S
  PROVE  ValueOf(Append(s, c)) = 10 * ValueOf(s) + DigitOf(c)
<1>. DEFINE t == Append(s, c)
<1>1. /\ Len(s) \in Nat /\ Len(t) = Len(s) + 1 /\ t[Len(s) + 1] = c
      /\ \A n \in 1 .. Len(s) : t[n] = s[n]
  OBVIOUS
<1>2. PICK f : Reads(s, f) /\ ValueOf(s) = f[Len(s)]
  <2>1. Len(s) \in Nat
    BY <1>1
  <2>. QED  BY <2>1, ValueUnrolled
<1>3. PICK g : Reads(t, g) /\ ValueOf(t) = g[Len(t)]
  <2>1. Len(t) \in Nat
    BY <1>1
  <2>. QED  BY <2>1, ValueUnrolled
<1>. HIDE DEF t
<1>. DEFINE T == {n \in Nat : n <= Len(s) => g[n] = f[n]}
<1>4. T = Nat
  <2>1. 0 \in T
    BY <1>1, <1>2, <1>3 DEF Reads
  <2>2. ASSUME NEW n \in T
        PROVE  n + 1 \in T
    <3>1. SUFFICES ASSUME n + 1 <= Len(s)
                   PROVE  g[n + 1] = f[n + 1]
      OBVIOUS
    <3>2. g[n] = f[n] /\ n \in Nat /\ t[n + 1] = s[n + 1]
      BY <1>1, <3>1
    <3>3. f[n + 1] = 10 * f[n] + DigitOf(s[n + 1])
      BY <1>1, <1>2, <3>1, <3>2 DEF Reads
    <3>4. g[n + 1] = 10 * g[n] + DigitOf(t[n + 1])
      BY <1>1, <1>3, <3>1, <3>2 DEF Reads
    <3>. QED  BY <3>2, <3>3, <3>4
  <2>3. T \in SUBSET Nat
    OBVIOUS
  <2>. HIDE DEF T
  <2>. QED  BY <2>1, <2>2, <2>3, Induction
<1>5. g[Len(s)] = f[Len(s)]
  BY <1>1, <1>4
<1>6. g[Len(s) + 1] = 10 * g[Len(s)] + DigitOf(t[Len(s) + 1])
  BY <1>1, <1>3 DEF Reads
<1>. QED  BY <1>1, <1>2, <1>3, <1>5, <1>6 DEF t

\* A text of one character.
LEMMA ValueSingle ==
  ASSUME NEW c
  PROVE  ValueOf(<<c>>) = 10 * 0 + DigitOf(c)
<1>. DEFINE t == <<c>>
<1>1. Len(t) = 1 /\ t[1] = c
  OBVIOUS
<1>2. PICK f : Reads(t, f) /\ ValueOf(t) = f[Len(t)]
  BY <1>1, ValueUnrolled
<1>. HIDE DEF t
<1>3. f[1] = 10 * f[0] + DigitOf(t[1]) /\ f[0] = 0
  BY <1>1, <1>2 DEF Reads
<1>. QED  BY <1>1, <1>2, <1>3 DEF t

\* The digits are ten different characters.
Figures == {Digit[d + 1] : d \in 0 .. 9}

\* DigitOf finds the digit of each of them.
LEMMA DigitIs ==
  ASSUME NEW d \in 0 .. 9
  PROVE  /\ Digit[d + 1] \in Figures /\ DigitOf(Digit[d + 1]) = d
         /\ Digit[d + 1] = "0" <=> d = 0
         /\ Digit[d + 1] # "-"
<1>1. /\ Digit[1] = "0" /\ Digit[2] = "1" /\ Digit[3] = "2" /\ Digit[4] = "3"
      /\ Digit[5] = "4" /\ Digit[6] = "5" /\ Digit[7] = "6" /\ Digit[8] = "7"
      /\ Digit[9] = "8" /\ Digit[10] = "9"
  BY DEF Digit
<1>2. \A e \in 0 .. 9 : Digit[e + 1] = Digit[d + 1] => e = d
  BY <1>1
<1>3. DigitOf(Digit[d + 1]) = d
  BY <1>2 DEF DigitOf
<1>4. \/ d = 0 \/ d = 1 \/ d = 2 \/ d = 3 \/ d = 4
      \/ d = 5 \/ d = 6 \/ d = 7 \/ d = 8 \/ d = 9
  OBVIOUS
<1>5. /\ Digit[d + 1] # "-"
      /\ Digit[d + 1] = "0" <=> d = 0
  BY <1>1, <1>4
<1>6. Digit[d + 1] \in Figures
  BY DEF Figures
<1>. QED  BY <1>3, <1>5, <1>6

\* The loop of digits_i, turn by turn.
LEMMA NegativeUnrolled ==
  \A x \in LLONG_MIN .. -1 :
    digits_negative[x] = IF x < -9 THEN digits_negative[-((-x) \div 10)] + 1 ELSE 1
<1>. DEFINE Has(n) == \E f : f = [x \in -n .. -1 |-> IF x < -9 THEN f[-((-x) \div 10)] + 1 ELSE 1]
            T == {n \in Nat : Has(n)}
<1>1. 0 \in T
  <2>. DEFINE f == [x \in -0 .. -1 |-> 1]
  <2>1. f = [x \in -0 .. -1 |-> IF x < -9 THEN f[-((-x) \div 10)] + 1 ELSE 1]
    OBVIOUS
  <2>. HIDE DEF f
  <2>2. Has(0)
    BY <2>1
  <2>. QED  BY <2>2
<1>2. ASSUME NEW n \in T
      PROVE  n + 1 \in T
  <2>1. PICK f : f = [x \in -n .. -1 |-> IF x < -9 THEN f[-((-x) \div 10)] + 1 ELSE 1]
    OBVIOUS
  <2>. DEFINE g == [x \in -(n + 1) .. -1 |-> IF x < -9 THEN f[-((-x) \div 10)] + 1 ELSE 1]
  <2>2. ASSUME NEW x \in -(n + 1) .. -1, x < -9
        PROVE  g[-((-x) \div 10)] = f[-((-x) \div 10)]
    <3>1. -((-x) \div 10) \in -n .. -1 /\ -((-x) \div 10) \in -(n + 1) .. -1
      BY <2>2
    <3>. QED  BY <2>1, <3>1
  <2>3. g = [x \in -(n + 1) .. -1 |-> IF x < -9 THEN g[-((-x) \div 10)] + 1 ELSE 1]
    BY <2>2
  <2>. HIDE DEF g
  <2>4. Has(n + 1)
    BY <2>3
  <2>. QED  BY <2>4
<1>3. Has(LLONG_MAX + 1)
  <2>. HIDE DEF T
  <2>1. T \in SUBSET Nat
    BY DEF T
  <2>2. T = Nat
    BY <1>1, <1>2, <2>1, Induction
  <2>3. LLONG_MAX + 1 \in T
    BY <2>2, Limits
  <2>. QED  BY <2>3 DEF T
<1>4. digits_negative =
        [x \in LLONG_MIN .. -1 |-> IF x < -9 THEN digits_negative[-((-x) \div 10)] + 1 ELSE 1]
  <2>1. -(LLONG_MAX + 1) = LLONG_MIN
    BY Limits
  <2>. QED  BY <1>3, <2>1 DEF digits_negative
<1>. QED  BY <1>4

\* digits_u and the loop that writes the digits make as many turns.
Spelt(x) ==
  /\ written[x] \in Seq(Figures) /\ Len(written[x]) = digits_u[x]
  /\ digits_u[x] \in Nat \ {0} /\ (x < 10 <=> digits_u[x] = 1)
  /\ ValueOf(written[x]) = x
  /\ written[x][1] # "-" /\ (x > 0 => written[x][1] # "0")

\* The text of every number fills the buffer exactly, reads as the number, and has
\* no leading zero.
LEMMA EverySpelt == \A x \in 0 .. ULLONG_MAX : Spelt(x)
<1>. DEFINE T == {x \in Nat : x <= ULLONG_MAX => Spelt(x)}
<1>1. ASSUME NEW x \in Nat, \A y \in 0 .. x - 1 : y \in T
      PROVE  x \in T
  <2>1. SUFFICES ASSUME x <= ULLONG_MAX
                 PROVE  Spelt(x)
    OBVIOUS
  <2>. DEFINE q == x \div 10  d == x % 10
  <2>2. /\ q \in Nat /\ d \in 0 .. 9 /\ x = 10 * q + d
        /\ q > 0 <=> x > 9
        /\ x > 9 => q < x
    OBVIOUS
  <2>3. /\ Digit[d + 1] \in Figures /\ DigitOf(Digit[d + 1]) = d /\ Digit[d + 1] # "-"
        /\ Digit[d + 1] = "0" <=> d = 0
    BY <2>2, DigitIs
  <2>4. /\ digits_u[x] = IF x > 9 THEN digits_u[q] + 1 ELSE 1
        /\ written[x] = IF q > 0 THEN Append(written[q], Digit[d + 1]) ELSE <<Digit[d + 1]>>
    <3>1. x \in 0 .. ULLONG_MAX
      BY <2>1, Limits
    <3>. QED  BY <3>1, DigitsUnrolled, WrittenUnrolled
  <2>. HIDE DEF q, d
  <2>5. CASE x > 9
    <3>1. Spelt(q)
      <4>1. q \in 0 .. x - 1 /\ q <= ULLONG_MAX
        BY <2>1, <2>2, <2>5, Limits
      <4>. QED  BY <1>1, <4>1
    <3>2. written[x] = Append(written[q], Digit[d + 1]) /\ digits_u[x] = digits_u[q] + 1
      BY <2>2, <2>4, <2>5
    <3>3. ValueOf(written[x]) = 10 * q + d
      BY <2>3, <3>1, <3>2, ValueAppend DEF Spelt
    <3>4. /\ written[x] \in Seq(Figures) /\ Len(written[x]) = digits_u[x]
          /\ written[x][1] = written[q][1]
      BY <2>3, <3>1, <3>2 DEF Spelt
    <3>5. digits_u[x] \in Nat \ {0} /\ digits_u[x] # 1
      BY <3>1, <3>2 DEF Spelt
    <3>. QED  BY <2>2, <2>5, <3>1, <3>3, <3>4, <3>5 DEF Spelt
  <2>6. CASE ~ x > 9
    <3>1. written[x] = <<Digit[d + 1]>> /\ digits_u[x] = 1 /\ x = d
      BY <2>2, <2>4, <2>6
    <3>2. ValueOf(written[x]) = x
      BY <2>2, <2>3, <3>1, ValueSingle
    <3>3. written[x] \in Seq(Figures) /\ Len(written[x]) = 1 /\ written[x][1] = Digit[d + 1]
      BY <2>3, <3>1
    <3>. QED  BY <2>2, <2>3, <2>6, <3>1, <3>2, <3>3 DEF Spelt
  <2>. QED  BY <2>5, <2>6
<1>. HIDE DEF T
<1>2. T \in SUBSET Nat
  BY DEF T
<1>3. T = Nat
  BY <1>1, <1>2, InductionBelow
<1>. QED  BY <1>3, Limits DEF T

\* The loop fills the buffer.
LEMMA BufferIs ==
  ASSUME NEW x \in 0 .. ULLONG_MAX
  PROVE  buffer_u(x) = written[x]
<1>1. /\ written[x] \in Seq(Figures) /\ Len(written[x]) = digits_u[x] /\ digits_u[x] \in Nat
  BY EverySpelt DEF Spelt
<1>. DEFINE w == written[x]  n == digits_u[x]
<1>2. buffer_u(x) = [i \in 1 .. n |-> IF i > n - Len(w) THEN w[i - (n - Len(w))] ELSE "garbage"]
  BY DEF buffer_u
<1>. HIDE DEF w, n
<1>3. n - Len(w) = 0 /\ n \in Nat
  BY <1>1 DEF w, n
<1>4. \A i \in 1 .. n : i > n - Len(w) /\ i - (n - Len(w)) = i
  BY <1>3
<1>5. w = [i \in 1 .. n |-> w[i]]
  BY <1>1 DEF w, n
<1>. QED  BY <1>2, <1>4, <1>5 DEF w

\* The largest of one number.
LEMMA MaxOfOne ==
  ASSUME NEW n \in Int
  PROVE  Max({n}) = n
BY DEF Max

\* What malloc may give where no block is live, or one.
LEMMA FirstBlock ==
  ASSUME NEW text
  PROVE  Allocate({}, text) = {Outcome("ok", {}, Null),
                               Outcome("ok", {1}, [at |-> 1, text |-> text])}
BY DEF Allocate

LEMMA NextBlock ==
  ASSUME NEW text, NEW n \in Nat
  PROVE  Allocate({n}, text) =
           {Outcome("ok", {n}, Null),
            Outcome("ok", {n, n + 1}, [at |-> n + 1, text |-> text])}
<1>1. {n} # {} /\ Max({n}) = n
  BY MaxOfOne
<1>2. {n} \cup {n + 1} = {n, n + 1}
  OBVIOUS
<1>. QED  BY <1>1, <1>2 DEF Allocate

\* to_string_u spells its argument, if there is memory.
LEMMA ToStringU ==
  ASSUME NEW heap, NEW x \in 0 .. ULLONG_MAX
  PROVE  to_string_u(heap, x) = Allocate(heap, written[x])
<1>1. buffer_u(x) = written[x] /\ Len(written[x]) = digits_u[x] /\ ValueOf(written[x]) = x
      /\ digits_u[x] \in Nat
  BY BufferIs, EverySpelt DEF Spelt
<1>2. to_string_u(heap, x) =
        {IF o.result.at = 0 THEN o
         ELSE IF Len(written[x]) > digits_u[x] THEN [o EXCEPT !.status = "undefined"]
         ELSE IF ValueOf(written[x]) # x THEN [o EXCEPT !.status = "abort"]
         ELSE o : o \in Allocate(heap, written[x])}
  BY <1>1 DEF to_string_u
<1>3. ~ Len(written[x]) > digits_u[x]
  BY <1>1
<1>. QED  BY <1>1, <1>2, <1>3

\* The digits of a negative number are those of its opposite.
LEMMA NegativeDigits ==
  ASSUME NEW x \in LLONG_MIN .. -1
  PROVE  digits_negative[x] = digits_u[-x] /\ -x \in 0 .. ULLONG_MAX
<1>. DEFINE T == {n \in Nat : n >= 1 /\ n <= LLONG_MAX + 1 =>
                                digits_negative[-n] = digits_u[n]}
<1>1. ASSUME NEW n \in Nat, \A m \in 0 .. n - 1 : m \in T
      PROVE  n \in T
  <2>1. SUFFICES ASSUME n >= 1, n <= LLONG_MAX + 1
                 PROVE  digits_negative[-n] = digits_u[n]
    OBVIOUS
  <2>2. -n \in LLONG_MIN .. -1 /\ n \in 0 .. ULLONG_MAX /\ -(-n) = n
    BY <2>1, Limits
  <2>3. /\ digits_negative[-n] =
             IF -n < -9 THEN digits_negative[-((-(-n)) \div 10)] + 1 ELSE 1
        /\ digits_u[n] = IF n > 9 THEN digits_u[n \div 10] + 1 ELSE 1
    BY <2>2, NegativeUnrolled, DigitsUnrolled
  <2>4. CASE n > 9
    <3>1. -n < -9 /\ n \div 10 \in 0 .. n - 1 /\ n \div 10 >= 1
          /\ n \div 10 <= LLONG_MAX + 1
      BY <2>1, <2>4, Limits
    <3>2. digits_negative[-(n \div 10)] = digits_u[n \div 10]
      BY <1>1, <3>1
    <3>. QED  BY <2>2, <2>3, <2>4, <3>1, <3>2
  <2>5. CASE ~ n > 9
    <3>1. ~ -n < -9
      BY <2>5
    <3>. QED  BY <2>3, <2>5, <3>1
  <2>. QED  BY <2>4, <2>5
<1>2. T = Nat
  <2>1. T \in SUBSET Nat
    OBVIOUS
  <2>. HIDE DEF T
  <2>. QED  BY <1>1, <2>1, InductionBelow
<1>3. -x \in T /\ -x >= 1 /\ -x <= LLONG_MAX + 1 /\ -(-x) = x
  BY <1>2, Limits
<1>. QED  BY <1>3, Limits

\* What the loop writes is the decimal text of the number.
LEMMA ShowsNatural ==
  ASSUME NEW x \in 0 .. ULLONG_MAX
  PROVE  Shows(written[x], x)
<1>. DEFINE w == written[x]
<1>1. /\ w \in Seq(Figures) /\ Len(w) = digits_u[x] /\ digits_u[x] \in Nat \ {0}
      /\ x < 10 <=> digits_u[x] = 1
      /\ ValueOf(w) = x /\ w[1] # "-" /\ (x > 0 => w[1] # "0")
  BY EverySpelt DEF Spelt
<1>. HIDE DEF w
<1>2. Head(w) = w[1]
  BY <1>1
<1>3. Head(w) = "0" => Len(w) = 1
  BY <1>1, <1>2
<1>4. Shows(w, x)
  <2>1. ~ x < 0 /\ (x < 0 <=> Head(w) = "-") /\ ValueOf(w) = x
    BY <1>1, <1>2
  <2>. QED  BY <1>3, <2>1, Zenon DEF Shows
<1>. QED  BY <1>4 DEF w

\* With the sign before it, that of its opposite.
LEMMA ShowsNegative ==
  ASSUME NEW x \in LLONG_MIN .. -1
  PROVE  Shows(<<"-">> \o written[-x], x)
<1>. DEFINE w == written[-x]  t == <<"-">> \o w
<1>0. -x \in 0 .. ULLONG_MAX
  BY NegativeDigits
<1>1. /\ w \in Seq(Figures) /\ Len(w) = digits_u[-x] /\ digits_u[-x] \in Nat \ {0}
      /\ -x < 10 <=> digits_u[-x] = 1
      /\ ValueOf(w) = -x /\ (-x > 0 => w[1] # "0")
  BY <1>0, EverySpelt DEF Spelt
<1>2. Head(t) = "-" /\ Tail(t) = w
  <2>. DEFINE F == Figures \cup {"-"}
  <2>1. w \in Seq(F) /\ "-" \in F
    <3>1. Figures \subseteq F
      OBVIOUS
    <3>. QED  BY <1>1, <3>1
  <2>. HIDE DEF w, F
  <2>2. Head(t) = "-" /\ Tail(t) \in Seq(F) /\ Len(Tail(t)) = Len(w)
        /\ \A i \in 1 .. Len(w) : Tail(t)[i] = w[i]
    BY <2>1
  <2>3. Tail(t) = w
    BY <2>1, <2>2
  <2>. QED  BY <2>2, <2>3
<1>. HIDE DEF w, t
<1>3. Head(w) = w[1]
  BY <1>1
<1>4. Shows(t, x)
  <2>1. x < 0 /\ ValueOf(w) = -x
    BY <1>1
  <2>2. Head(w) = "0" => Len(w) = 1
    BY <1>1, <1>3
  <2>. QED  BY <1>2, <2>1, <2>2, Zenon DEF Shows
<1>. QED  BY <1>4 DEF w, t

\* The opposite of a negative number fits, of the least one too.
LEMMA MagnitudeIs ==
  ASSUME NEW x \in LLONG_MIN .. -1
  PROVE  Magnitude(x) = -x /\ -x > 0
<1>1. CASE x = LLONG_MIN
  <2>1. -(x + 1) + 1 = -x /\ -x >= 0 /\ -x < ULLONG_MAX + 1 /\ ULLONG_MAX \in Nat
    BY <1>1, Limits
  <2>2. (-x) % (ULLONG_MAX + 1) = -x
    BY <2>1
  <2>. QED  BY <1>1, <2>1, <2>2 DEF Magnitude
<1>2. CASE x # LLONG_MIN
  <2>1. -x <= LLONG_MAX
    BY <1>2, Limits
  <2>. QED  BY <1>2, <2>1, Limits DEF Magnitude
<1>. QED  BY <1>1, <1>2

\* The digits of -x behind the sign, when both buffers were allocated.
LEMMA DigitsCopied ==
  ASSUME NEW x \in LLONG_MIN .. -1, NEW buffer, buffer.at = 1
  PROVE  /\ CopyDigits(x, buffer, Outcome("ok", {1}, Null)) = Outcome("undefined", {1}, Null)
         /\ CopyDigits(x, buffer, Outcome("ok", {1, 2}, [at |-> 2, text |-> written[-x]]))
              = Outcome("ok", {1}, [at |-> 1, text |-> <<"-">> \o written[-x]])
<1>1. CopyDigits(x, buffer, Outcome("ok", {1}, Null)) = Outcome("undefined", {1}, Null)
  <2>. DEFINE o == Outcome("ok", {1}, Null)
  <2>1. o.status = "ok" /\ o.result.at = 0
    BY DEF Outcome, Null
  <2>2. [o EXCEPT !.status = "undefined"] = Outcome("undefined", {1}, Null)
    BY DEF Outcome
  <2>. HIDE DEF o
  <2>3. CopyDigits(x, buffer, o) = [o EXCEPT !.status = "undefined"]
    BY <2>1, Zenon DEF CopyDigits
  <2>. QED  BY <2>2, <2>3 DEF o
<1>. DEFINE w == written[-x]  signed == [at |-> 1, text |-> <<"-">> \o w]
            digits == [at |-> 2, text |-> w]
            o == Outcome("ok", {1, 2}, digits)
<1>2. digits_negative[x] = digits_u[-x] /\ -x \in 0 .. ULLONG_MAX
  BY NegativeDigits
<1>3. Len(w) = digits_i(x) /\ digits_i(x) \in Nat /\ ValueOf(w) = -x
  BY <1>2, EverySpelt DEF Spelt, digits_i
<1>. HIDE DEF w
<1>4. ~ Len(w) > digits_i(x) /\ -ValueOf(w) = x
  BY <1>3
<1>5. o.status = "ok" /\ o.live = {1, 2} /\ o.result = digits
  BY DEF Outcome
<1>6. digits.at = 2 /\ digits.text = w
  OBVIOUS
<1>7. [o EXCEPT !.result = signed] = Outcome("ok", {1, 2}, signed)
  <2>. HIDE DEF signed, digits
  <2>. QED  BY DEF Outcome
<1>8. Free(Outcome("ok", {1, 2}, signed), digits) = Outcome("ok", {1}, signed)
  <2>. HIDE DEF signed, digits
  <2>. DEFINE p == Outcome("ok", {1, 2}, signed)
  <2>1. p.status = "ok" /\ p.live = {1, 2} /\ {1, 2} \ {2} = {1}
    BY DEF Outcome
  <2>2. [p EXCEPT !.live = @ \ {2}] = Outcome("ok", {1}, signed)
    BY <2>1 DEF Outcome
  <2>. HIDE DEF p
  <2>3. Free(p, digits) = [p EXCEPT !.live = @ \ {2}]
    BY <1>6, <2>1 DEF Free
  <2>. QED  BY <2>2, <2>3 DEF p
<1>. HIDE DEF o, digits
<1>9. CopyDigits(x, buffer, o) = Free([o EXCEPT !.result = signed], digits)
  <2>1. o.result.at = 2 /\ o.result.text = w
    BY <1>5, <1>6
  <2>2. CopyDigits(x, buffer, o) =
          Free([o EXCEPT !.result = [at |-> buffer.at, text |-> <<"-">> \o o.result.text]],
               o.result)
    <3>1. ~ (o.status # "ok") /\ ~ (o.result.at = 0 \/ Len(o.result.text) > digits_i(x))
          /\ ~ (-ValueOf(o.result.text) # x)
      BY <1>4, <1>5, <2>1
    <3>. QED  BY <3>1, Zenon DEF CopyDigits
  <2>. QED  BY <1>5, <2>1, <2>2
<1>. QED  BY <1>1, <1>7, <1>8, <1>9 DEF o, w, digits

\* The outcomes of to_string_i, from an empty heap.
LEMMA ToStringI ==
  ASSUME NEW x \in LLONG_MIN .. LLONG_MAX, NEW o \in to_string_i({}, x)
  PROVE  \/ o = Outcome("ok", {}, Null)
         \/ /\ o.status = "ok" /\ o.live = {1} /\ o.result.at = 1
            /\ o.result.text \in Seq(Figures \cup {"-"}) /\ Shows(o.result.text, x)
         \/ x < 0 /\ o = Outcome("undefined", {1}, Null)
<1>0. ASSUME NEW y \in 0 .. ULLONG_MAX
      PROVE  /\ written[y] \in Seq(Figures \cup {"-"})
             /\ <<"-">> \o written[y] \in Seq(Figures \cup {"-"})
  <2>. DEFINE F == Figures \cup {"-"}
  <2>1. written[y] \in Seq(Figures) /\ Figures \subseteq F /\ "-" \in F
    BY EverySpelt DEF Spelt
  <2>. HIDE DEF F
  <2>2. written[y] \in Seq(F) /\ <<"-">> \in Seq(F)
    BY <2>1
  <2>3. <<"-">> \o written[y] \in Seq(F)
    BY <2>2
  <2>. QED  BY <2>2, <2>3 DEF F
<1>1. CASE x >= 0
  <2>1. x \in 0 .. ULLONG_MAX
    BY <1>1, Limits
  <2>2. o \in Allocate({}, written[x])
    BY <1>1, <2>1, ToStringU DEF to_string_i
  <2>3. o \in {Outcome("ok", {}, Null), Outcome("ok", {1}, [at |-> 1, text |-> written[x]])}
    BY <2>2, FirstBlock
  <2>4. CASE o = Outcome("ok", {1}, [at |-> 1, text |-> written[x]])
    <3>1. o.status = "ok" /\ o.live = {1} /\ o.result.at = 1 /\ o.result.text = written[x]
      BY <2>4 DEF Outcome
    <3>. QED  BY <1>0, <2>1, <3>1, ShowsNatural
  <2>. QED  BY <2>3, <2>4
<1>2. CASE x < 0
  <2>. DEFINE m == Magnitude(x)
  <2>0. x \in LLONG_MIN .. -1
    BY <1>2, Limits
  <2>1. m = -x /\ -x > 0 /\ -x \in 0 .. ULLONG_MAX
    BY <2>0, MagnitudeIs, NegativeDigits
  <2>. HIDE DEF m
  <2>2. PICK b \in Allocate({}, <<>>) :
          o \in IF b.result.at = 0 THEN {b}
                ELSE {CopyDigits(x, b.result, p) : p \in to_string_u(b.live, m)}
    <3>1. ~ x >= 0 /\ ~ m < 0
      BY <2>0, <2>1
    <3>2. o \in UNION {IF b.result.at = 0 THEN {b}
                       ELSE {CopyDigits(x, b.result, p) : p \in to_string_u(b.live, m)}
                         : b \in Allocate({}, <<>>)}
      BY <3>1, Zenon DEF to_string_i, m
    <3>. QED  BY <3>2
  <2>3. b \in {Outcome("ok", {}, Null), Outcome("ok", {1}, [at |-> 1, text |-> <<>>])}
    BY FirstBlock
  <2>4. CASE b = Outcome("ok", {}, Null)
    <3>1. b.result.at = 0
      BY <2>4 DEF Outcome, Null
    <3>. QED  BY <2>2, <2>4, <3>1
  <2>5. CASE b = Outcome("ok", {1}, [at |-> 1, text |-> <<>>])
    <3>1. b.result.at = 1 /\ b.live = {1}
      BY <2>5 DEF Outcome
    <3>2. PICK p \in to_string_u({1}, m) : o = CopyDigits(x, b.result, p)
      BY <2>2, <3>1
    <3>3. p \in {Outcome("ok", {1}, Null),
                 Outcome("ok", {1, 2}, [at |-> 2, text |-> written[-x]])}
      <4>1. to_string_u({1}, m) = Allocate({1}, written[-x])
        BY <2>1, ToStringU
      <4>2. Allocate({1}, written[-x]) =
              {Outcome("ok", {1}, Null),
               Outcome("ok", {1, 1 + 1}, [at |-> 1 + 1, text |-> written[-x]])}
        <5>1. 1 \in Nat
          OBVIOUS
        <5>. QED  BY <5>1, NextBlock
      <4>. QED  BY <3>2, <4>1, <4>2
    <3>4. \/ o = Outcome("undefined", {1}, Null)
          \/ o = Outcome("ok", {1}, [at |-> 1, text |-> <<"-">> \o written[-x]])
      BY <2>0, <3>1, <3>2, <3>3, DigitsCopied
    <3>5. CASE o = Outcome("ok", {1}, [at |-> 1, text |-> <<"-">> \o written[-x]])
      <4>1. o.status = "ok" /\ o.live = {1} /\ o.result.at = 1
            /\ o.result.text = <<"-">> \o written[-x]
        BY <3>5 DEF Outcome
      <4>. QED  BY <1>0, <2>0, <2>1, <4>1, ShowsNegative
    <3>. QED  BY <1>2, <3>4, <3>5
  <2>. QED  BY <2>3, <2>4, <2>5
<1>. QED  BY <1>1, <1>2, Limits

-----------------------------------------------------------------------------
\* The loop of the concatenations, turn by turn.
Turns(live0, head, list, f) ==
  /\ f[0] = {[status |-> "ok", live |-> live0, result |-> head, previous |-> Null]}
  /\ \A n \in 1 .. Len(list) : f[n] = UNION {Turn(turn, list[n]) : turn \in f[n - 1]}

\* Loop has such a function, and takes its value after the last argument.
LEMMA LoopUnrolled ==
  ASSUME NEW live0, NEW head, NEW list, Len(list) \in Nat
  PROVE  \E f : /\ Turns(live0, head, list, f)
                /\ Loop(live0, head, list) = f[Cardinality(Arguments(list))]
<1>. DEFINE start == {[status |-> "ok", live |-> live0, result |-> head, previous |-> Null]}
            After(n, before) ==
              IF n = 0 THEN start ELSE UNION {Turn(turn, list[n]) : turn \in before}
            Has(m) == \E f : f = [n \in 0 .. m |-> After(n, f[n - 1])]
            T == {m \in Nat : Has(m)}
<1>1. 0 \in T
  <2>. DEFINE f == [n \in 0 .. 0 |-> start]
  <2>. HIDE DEF start
  <2>1. f = [n \in 0 .. 0 |-> After(n, f[n - 1])]
    OBVIOUS
  <2>. HIDE DEF f
  <2>2. Has(0)
    BY <2>1
  <2>. QED  BY <2>2
<1>2. ASSUME NEW m \in T
      PROVE  m + 1 \in T
  <2>. HIDE DEF start, After
  <2>1. PICK f : f = [n \in 0 .. m |-> After(n, f[n - 1])]
    OBVIOUS
  <2>. DEFINE g == [n \in 0 .. m + 1 |-> After(n, f[n - 1])]
  <2>2. ASSUME NEW n \in 0 .. m + 1, n # 0
        PROVE  g[n - 1] = f[n - 1]
    <3>1. n - 1 \in 0 .. m /\ n - 1 \in 0 .. m + 1
      BY <2>2
    <3>2. g[n - 1] = After(n - 1, f[n - 1 - 1])
      BY <3>1
    <3>3. f[n - 1] = After(n - 1, f[n - 1 - 1])
      BY <2>1, <3>1
    <3>. QED  BY <3>2, <3>3
  <2>3. \A n \in 0 .. m + 1 : After(n, f[n - 1]) = After(n, g[n - 1])
    BY <2>2 DEF After
  <2>4. g = [n \in 0 .. m + 1 |-> After(n, g[n - 1])]
    BY <2>3
  <2>. HIDE DEF g
  <2>5. Has(m + 1)
    BY <2>4
  <2>6. m + 1 \in Nat
    OBVIOUS
  <2>. HIDE DEF Has
  <2>. QED  BY <2>5, <2>6
<1>3. Has(Len(list))
  <2>. HIDE DEF T
  <2>1. T \in SUBSET Nat
    BY DEF T
  <2>2. T = Nat
    BY <1>1, <1>2, <2>1, Induction
  <2>. QED  BY <2>2 DEF T
<1>. DEFINE v == CHOOSE f : f = [n \in 0 .. Len(list) |-> After(n, f[n - 1])]
<1>4. v = [n \in 0 .. Len(list) |-> After(n, v[n - 1])]
  BY <1>3
<1>5. Loop(live0, head, list) = v[Cardinality(Arguments(list))]
  BY DEF Loop
<1>. HIDE DEF v, start
<1>6. v[0] = start
  <2>1. 0 \in 0 .. Len(list) /\ After(0, v[0 - 1]) = start
    OBVIOUS
  <2>. HIDE DEF After
  <2>. QED  BY <1>4, <2>1
<1>7. ASSUME NEW n \in 1 .. Len(list)
      PROVE  v[n] = UNION {Turn(turn, list[n]) : turn \in v[n - 1]}
  <2>1. n \in 0 .. Len(list)
    OBVIOUS
  <2>2. After(n, v[n - 1]) = UNION {Turn(turn, list[n]) : turn \in v[n - 1]}
    OBVIOUS
  <2>. HIDE DEF After
  <2>. QED  BY <1>4, <2>1, <2>2
<1>. QED  BY <1>5, <1>6, <1>7 DEF Turns, start

\* What a turn leaves of a loop that concatenates literals.
TurnOK(turn) ==
  \/ /\ turn.status = "ok" /\ turn.result.at \in Nat \ {0}
     /\ turn.live = {turn.result.at} /\ turn.previous = turn.result
  \/ turn.status = "ok" /\ turn.live = {} /\ turn.result = Null /\ turn.previous = Null
  \/ turn.status = "exit" /\ turn.live = {} /\ turn.result = Null

\* The first turn appends a literal to a literal.
LEMMA FirstTurn ==
  ASSUME NEW head, head.at = -1, NEW arg, arg.string.at = -1, arg.free = FALSE,
         NEW t \in Turn([status |-> "ok", live |-> {}, result |-> head, previous |-> Null], arg)
  PROVE  TurnOK(t)
<1>. DEFINE u == [status |-> "ok", live |-> {}, result |-> head, previous |-> Null]
<1>0. u.status = "ok" /\ u.live = {} /\ u.result = head /\ u.previous = Null /\ t \in Turn(u, arg)
  OBVIOUS
<1>. HIDE DEF u
<1>1. PICK o \in concatenate({}, head, arg.string) :
        t = [status |-> Free(o, Null).status, live |-> Free(o, Null).live,
             result |-> o.result, previous |-> o.result]
  BY <1>0 DEF Turn, Previous
<1>. DEFINE text == head.text \o arg.string.text
<1>. HIDE DEF text
<1>2. concatenate({}, head, arg.string) = Allocate({}, text)
  BY DEF concatenate, Readable, text
<1>3. Free(o, Null) = o
  BY DEF Free, Null
<1>4. o \in {Outcome("ok", {}, Null), Outcome("ok", {1}, [at |-> 1, text |-> text])}
  BY <1>1, <1>2, FirstBlock
<1>. QED  BY <1>1, <1>3, <1>4 DEF TurnOK, Outcome, Null

\* The turns after it free the result of the turn before.
LEMMA LaterTurn ==
  ASSUME NEW u, TurnOK(u), NEW arg, arg.string.at = -1, arg.free = FALSE,
         NEW t \in Turn(u, arg)
  PROVE  TurnOK(t)
<1>1. CASE u.status = "exit"
  BY <1>1 DEF Turn, TurnOK
<1>2. CASE u.status = "ok"
  <2>1. PICK o \in concatenate(u.live, u.result, arg.string) :
          t = [status |-> Free(o, u.previous).status, live |-> Free(o, u.previous).live,
               result |-> o.result, previous |-> o.result]
    BY <1>2 DEF Turn, Previous
  <2>2. CASE u.result.at = 0
    <3>1. u.live = {} /\ u.result = Null /\ u.previous = Null
      BY <1>2, <2>2 DEF TurnOK
    <3>2. o = Outcome("exit", {}, Null)
      BY <2>1, <2>2, <3>1 DEF concatenate
    <3>3. Free(o, u.previous) = o
      BY <3>1, <3>2 DEF Free, Outcome
    <3>. QED  BY <2>1, <3>2, <3>3 DEF TurnOK, Outcome
  <2>3. CASE u.result.at # 0
    <3>. DEFINE k == u.result.at  text == u.result.text \o arg.string.text
    <3>1. u.live = {k} /\ k \in Nat \ {0} /\ u.previous.at = k
      BY <1>2, <2>3 DEF TurnOK, Null
    <3>. HIDE DEF text
    <3>2. o \in Allocate({k}, text)
      BY <2>1, <2>3, <3>1 DEF concatenate, Readable, text
    <3>3. o \in {Outcome("ok", {k}, Null),
                 Outcome("ok", {k, k + 1}, [at |-> k + 1, text |-> text])}
      BY <3>1, <3>2, NextBlock
    <3>4. CASE o = Outcome("ok", {k}, Null)
      <4>1. Free(o, u.previous).status = "ok" /\ Free(o, u.previous).live = {}
            /\ o.result = Null
        BY <3>1, <3>4 DEF Free, Outcome
      <4>. QED  BY <2>1, <4>1 DEF TurnOK
    <3>5. CASE o = Outcome("ok", {k, k + 1}, [at |-> k + 1, text |-> text])
      <4>1. {k, k + 1} \ {k} = {k + 1} /\ k + 1 \in Nat \ {0}
        BY <3>1
      <4>2. Free(o, u.previous).status = "ok" /\ Free(o, u.previous).live = {k + 1}
            /\ o.result.at = k + 1
        BY <3>1, <3>5, <4>1 DEF Free, Outcome
      <4>. QED  BY <2>1, <4>1, <4>2 DEF TurnOK
    <3>. QED  BY <3>3, <3>4, <3>5
  <2>. QED  BY <2>2, <2>3
<1>. QED  BY <1>1, <1>2 DEF TurnOK

\* concatenate_many of literals: no block is left but that of the result, and a
\* malloc that fails can only end the process, or leave a null pointer.
LEMMA ManyLiterals ==
  ASSUME NEW head, head.at = -1, NEW k \in Nat \ {0}, NEW strings,
         DOMAIN strings = 1 .. k, \A i \in 1 .. k : strings[i].at = -1,
         NEW o \in concatenate_many({}, head, strings)
  PROVE  \/ o.status = "ok" /\ o.result.at \in Nat /\ o.live = {o.result.at} \ {0}
         \/ o.status = "exit" /\ o.live = {} /\ o.result = Null
<1>. DEFINE list == [i \in 1 .. k |-> [string |-> strings[i], free |-> FALSE]]
            start == [status |-> "ok", live |-> {}, result |-> head, previous |-> Null]
<1>1. /\ Len(list) = k
      /\ \A i \in 1 .. k : list[i].string.at = -1 /\ list[i].free = FALSE
  OBVIOUS
<1>2. DOMAIN list = 1 .. k
  OBVIOUS
<1>3. PICK turn \in Loop({}, head, list) : o = Outcome(turn.status, turn.live, turn.result)
  BY DEF concatenate_many
<1>. HIDE DEF list
<1>4. PICK f : /\ Turns({}, head, list, f)
               /\ Loop({}, head, list) = f[Cardinality(Arguments(list))]
  <2>1. Len(list) \in Nat
    BY <1>1
  <2>. QED  BY <2>1, LoopUnrolled, Zenon
<1>5. Cardinality(Arguments(list)) = k
  <2>1. Arguments(list) = 1 .. k
    BY <1>1, <1>2 DEF Arguments
  <2>2. Cardinality(1 .. k) = k
    BY FS_Interval
  <2>. QED  BY <2>1, <2>2
<1>6. /\ f[0] = {start}
      /\ \A n \in 1 .. k : f[n] = UNION {Turn(u, list[n]) : u \in f[n - 1]}
  BY <1>1, <1>4 DEF Turns
<1>. DEFINE T == {n \in Nat : n \in 1 .. k => \A u \in f[n] : TurnOK(u)}
<1>7. 0 \in T
  OBVIOUS
<1>8. ASSUME NEW n \in T
      PROVE  n + 1 \in T
  <2>1. SUFFICES ASSUME n + 1 \in 1 .. k, NEW t \in f[n + 1]
                 PROVE  TurnOK(t)
    OBVIOUS
  <2>2. PICK u \in f[n] : t \in Turn(u, list[n + 1])
    BY <1>6, <2>1
  <2>3. list[n + 1].string.at = -1 /\ list[n + 1].free = FALSE
    BY <1>1, <2>1
  <2>4. CASE n = 0
    <3>1. u = start
      BY <1>6, <2>2, <2>4
    <3>2. t \in Turn(start, list[n + 1])
      BY <2>2, <3>1
    <3>. QED  BY <2>3, <3>2, FirstTurn
  <2>5. CASE n # 0
    <3>1. n \in 1 .. k
      BY <2>1, <2>5
    <3>2. TurnOK(u)
      BY <2>2, <3>1
    <3>. QED  BY <2>2, <2>3, <3>2, LaterTurn
  <2>. QED  BY <2>4, <2>5
<1>9. TurnOK(turn)
  <2>. HIDE DEF T
  <2>1. T \in SUBSET Nat
    BY DEF T
  <2>2. T = Nat
    BY <1>7, <1>8, <2>1, Induction
  <2>3. k \in T /\ k \in 1 .. k
    BY <2>2
  <2>4. turn \in f[k]
    BY <1>3, <1>4, <1>5
  <2>. QED  BY <2>3, <2>4 DEF T
<1>. QED  BY <1>3, <1>9 DEF TurnOK, Outcome, Null

\* concatenate_many_free_args of a literal and a null pointer: nothing is done.
LEMMA NothingAppended ==
  ASSUME NEW head, NEW string, string.at = 0,
         NEW m \in concatenate_many_free_args({}, head, FALSE,
                                              <<[string |-> string, free |-> TRUE]>>)
  PROVE  m = Outcome("ok", {}, head)
<1>. DEFINE list == <<[string |-> string, free |-> TRUE]>>
            start == [status |-> "ok", live |-> {}, result |-> head, previous |-> Null]
<1>1. PICK turn \in Loop({}, head, list) : m = Outcome(turn.status, turn.live, turn.result)
  BY DEF concatenate_many_free_args
<1>2. Len(list) = 1 /\ DOMAIN list = {1} /\ list[1].string.at = 0
  OBVIOUS
<1>. HIDE DEF list
<1>3. PICK f : /\ Turns({}, head, list, f)
               /\ Loop({}, head, list) = f[Cardinality(Arguments(list))]
  <2>1. Len(list) \in Nat
    BY <1>2
  <2>. QED  BY <2>1, LoopUnrolled, Zenon
<1>4. Cardinality(Arguments(list)) = 0
  <2>1. Arguments(list) = {}
    BY <1>2 DEF Arguments
  <2>. QED  BY <2>1, FS_EmptySet
<1>5. f[0] = {start}
  BY <1>2, <1>3 DEF Turns
<1>6. turn = start
  BY <1>1, <1>3, <1>4, <1>5
<1>. QED  BY <1>1, <1>6

\* The same of a block: it is freed, whether there is memory for the result or not.
LEMMA BlockAppended ==
  ASSUME NEW head, head.at = -1, NEW string, string.at = 1,
         NEW m \in concatenate_many_free_args({1}, head, FALSE,
                                              <<[string |-> string, free |-> TRUE]>>)
  PROVE  m \in {Outcome("ok", {}, Null),
                Outcome("ok", {2}, [at |-> 2, text |-> head.text \o string.text])}
<1>. DEFINE arg == [string |-> string, free |-> TRUE]
            list == <<arg>>
            heap == {1}
            start == [status |-> "ok", live |-> heap, result |-> head, previous |-> Null]
<1>1. PICK turn \in Loop(heap, head, list) : m = Outcome(turn.status, turn.live, turn.result)
  BY DEF concatenate_many_free_args
<1>2. Len(list) = 1 /\ DOMAIN list = {1} /\ list[1] = arg
  OBVIOUS
<1>3. arg.string = string /\ arg.free
  OBVIOUS
<1>. HIDE DEF list, arg, heap
<1>4. PICK f : /\ Turns(heap, head, list, f)
               /\ Loop(heap, head, list) = f[Cardinality(Arguments(list))]
  <2>1. Len(list) \in Nat
    BY <1>2
  <2>. QED  BY <2>1, LoopUnrolled, Zenon
<1>5. Cardinality(Arguments(list)) = 1
  <2>1. Arguments(list) = {1}
    BY <1>2, <1>3 DEF Arguments
  <2>. QED  BY <2>1, FS_Singleton
<1>6. turn \in Turn(start, arg)
  <2>1. f[0] = {start} /\ f[1] = UNION {Turn(u, arg) : u \in f[0]}
    BY <1>2, <1>4 DEF Turns
  <2>. QED  BY <1>1, <1>4, <1>5, <2>1
<1>7. start.status = "ok" /\ start.live = {1} /\ start.result = head /\ start.previous = Null
  BY DEF heap
<1>. HIDE DEF start
<1>8. PICK o \in concatenate({1}, head, string) :
        turn = [status |-> Free(Free(o, Null), string).status,
                live |-> Free(Free(o, Null), string).live,
                result |-> o.result, previous |-> o.result]
  BY <1>3, <1>6, <1>7 DEF Turn, Previous
<1>. DEFINE text == head.text \o string.text
<1>. HIDE DEF text
<1>9. Free(o, Null) = o
  BY DEF Free, Null
<1>10. o \in {Outcome("ok", {1}, Null), Outcome("ok", {1, 2}, [at |-> 2, text |-> text])}
  <2>1. o \in Allocate({1}, text)
    BY <1>8 DEF concatenate, Readable, text
  <2>2. Allocate({1}, text) = {Outcome("ok", {1}, Null),
                               Outcome("ok", {1, 1 + 1}, [at |-> 1 + 1, text |-> text])}
    <3>1. 1 \in Nat
      OBVIOUS
    <3>. QED  BY <3>1, NextBlock
  <2>. QED  BY <2>1, <2>2
<1>11. CASE o = Outcome("ok", {1}, Null)
  <2>1. Free(o, string).status = "ok" /\ Free(o, string).live = {} /\ o.result = Null
    BY <1>11 DEF Free, Outcome
  <2>. QED  BY <1>1, <1>8, <1>9, <2>1 DEF Outcome
<1>12. CASE o = Outcome("ok", {1, 2}, [at |-> 2, text |-> text])
  <2>1. {1, 2} \ {1} = {2}
    OBVIOUS
  <2>2. /\ Free(o, string).status = "ok" /\ Free(o, string).live = {2}
        /\ o.result = [at |-> 2, text |-> text]
    BY <1>12, <2>1 DEF Free, Outcome
  <2>. QED  BY <1>1, <1>8, <1>9, <2>2 DEF Outcome, text
<1>. QED  BY <1>10, <1>11, <1>12

-----------------------------------------------------------------------------
(***************************************************************************)
(* The strings of the processes.                                           *)
(***************************************************************************)
StringsInv ==
  /\ tests \in TestCounts
  /\ TypeOK
  /\ main.place = "repeat" => command.at \in Nat /\ live = {command.at} \ {0}
  /\ main.place # "repeat" /\ tester.place # "undefined" => live = {}
  /\ MessageIsRight

\* It holds at the beginning ...
LEMMA StringsStart == Init => StringsInv
<1>. SUFFICES ASSUME Init PROVE StringsInv
  OBVIOUS
<1>1. tests \in TestCounts /\ tests \in Int
  BY Parameters DEF Init
<1>2. tester.place = "test" /\ tester.i = 0 /\ tester.result = 0 /\ main.place = "none"
      /\ main.result = 0 /\ live = {}
  BY DEF Init, Idle, OK
<1>3. TypeOK
  BY <1>1, <1>2 DEF TypeOK, OK
<1>. QED  BY <1>1, <1>2, <1>3 DEF StringsInv, MessageIsRight

\* The end of ./main, with nothing on its heap.
LEMMA StringsAtTheEnd ==
  ASSUME LInv, StringsInv, main.place # "none", NEW status \in {OK, 6, 256}, MainEnds(status),
         live' = {}, tests' = tests
  PROVE  StringsInv'
<1>1. /\ tester.place = "wait" /\ tester \in Tester /\ main \in Main
      /\ Proper /\ tester.i < tests /\ tests \in Int
  BY DEF LInv, ProcessesOK, MainsInv, TestsOn
<1>2. /\ tester'.place = "test" /\ tester'.i = tester.i + 1 /\ tester'.result = status
      /\ main'.place = "none" /\ main'.result = main.result
  BY <1>1 DEF MainEnds, Tester, Main
<1>3. tester'.i \in 0 .. tests
  BY <1>1, <1>2 DEF Tester
<1>4. TypeOK'
  BY <1>2, <1>3 DEF TypeOK, StringsInv
<1>. QED  BY <1>2, <1>4 DEF StringsInv, MessageIsRight

\* The message about an improper number.
LEMMA StringsOfTheMessage ==
  ASSUME LInv, StringsInv, Improper
  PROVE  StringsInv'
<1>1. /\ tester.place = "test" /\ tester \in Tester /\ ~ Proper /\ live = {}
      /\ main.place = "none" /\ tests \in TestCounts
      /\ UNCHANGED <<tests, main>>
  BY DEF Improper, LInv, ProcessesOK, StringsInv
<1>2. tests \in LLONG_MIN .. LLONG_MAX /\ tests \in Int
  BY <1>1, LauncherAssumption, Limits DEF LLONG_MIN
<1>3. PICK t \in to_string_i({}, tests) :
        \E m \in IF t.status # "ok" THEN {t}
                 ELSE concatenate_many_free_args(t.live, Literal(<<"improper">>), FALSE,
                                                 <<[string |-> t.result, free |-> TRUE]>>) :
          LET end == Free(m, m.result)
          IN  /\ tester' = [tester EXCEPT !.place = EndsBy(end.status)]
              /\ command' = m.result
              /\ live' = end.live
  BY <1>1, Zenon DEF Improper
<1>4. PICK m \in IF t.status # "ok" THEN {t}
                 ELSE concatenate_many_free_args(t.live, Literal(<<"improper">>), FALSE,
                                                 <<[string |-> t.result, free |-> TRUE]>>) :
          /\ tester' = [tester EXCEPT !.place = EndsBy(Free(m, m.result).status)]
          /\ command' = m.result
          /\ live' = Free(m, m.result).live
  BY <1>3
<1>5. Literal(<<"improper">>).at = -1 /\ Literal(<<"improper">>).text = <<"improper">>
  BY DEF Literal
<1>6. tester'.place = EndsBy(Free(m, m.result).status) /\ tester'.i = tester.i
      /\ tester'.result = tester.result
  BY <1>1, <1>4 DEF Tester
<1>7. EndsBy("ok") = "exit" /\ EndsBy("undefined") = "undefined"
  BY DEF EndsBy
<1>8. SUFFICES /\ tester'.place \in {"exit", "undefined"} /\ live' \subseteq Nat
               /\ tester'.place = "exit" =>
                    /\ live' = {}
                    /\ command'.at # 0 => Shows(Tail(command'.text), tests)
               /\ tester'.place = "undefined" => command'.at \in {-1, 0}
  BY <1>1, <1>6 DEF StringsInv, TypeOK, MessageIsRight
<1>9. CASE t = Outcome("ok", {}, Null)
  <2>1. t.status = "ok" /\ t.live = {} /\ t.result = Null /\ t.result.at = 0
    BY <1>9 DEF Outcome, Null
  <2>2. m = Outcome("ok", {}, Literal(<<"improper">>))
    <3>1. m \in concatenate_many_free_args({}, Literal(<<"improper">>), FALSE,
                                           <<[string |-> t.result, free |-> TRUE]>>)
      BY <1>4, <2>1
    <3>. QED  BY <2>1, <3>1, NothingAppended
  <2>3. /\ Free(m, m.result).status = "undefined" /\ Free(m, m.result).live = {}
        /\ m.result.at = -1
    BY <1>5, <2>2 DEF Free, Outcome
  <2>. QED  BY <1>4, <1>6, <1>7, <2>3
<1>10. CASE /\ t.status = "ok" /\ t.live = {1} /\ t.result.at = 1
            /\ t.result.text \in Seq(Figures \cup {"-"}) /\ Shows(t.result.text, tests)
  <2>. DEFINE text == <<"improper">> \o t.result.text
  <2>1. m \in {Outcome("ok", {}, Null), Outcome("ok", {2}, [at |-> 2, text |-> text])}
    <3>1. m \in concatenate_many_free_args({1}, Literal(<<"improper">>), FALSE,
                                           <<[string |-> t.result, free |-> TRUE]>>)
      BY <1>4, <1>10
    <3>. QED  BY <1>5, <1>10, <3>1, BlockAppended
  <2>2. Tail(text) = t.result.text
    <3>. DEFINE F == Figures \cup {"-", "improper"}  s == t.result.text
    <3>1. s \in Seq(F) /\ "improper" \in F
      <4>1. Figures \cup {"-"} \subseteq F
        OBVIOUS
      <4>. QED  BY <1>10, <4>1
    <3>. HIDE DEF F, s
    <3>2. Tail(<<"improper">> \o s) \in Seq(F) /\ Len(Tail(<<"improper">> \o s)) = Len(s)
          /\ \A i \in 1 .. Len(s) : Tail(<<"improper">> \o s)[i] = s[i]
      BY <3>1
    <3>3. Tail(<<"improper">> \o s) = s
      BY <3>1, <3>2
    <3>. QED  BY <3>3 DEF s
  <2>. HIDE DEF text
  <2>3. CASE m = Outcome("ok", {}, Null)
    <3>1. Free(m, m.result).status = "ok" /\ Free(m, m.result).live = {} /\ m.result.at = 0
      BY <2>3 DEF Free, Outcome, Null
    <3>. QED  BY <1>4, <1>6, <1>7, <3>1
  <2>4. CASE m = Outcome("ok", {2}, [at |-> 2, text |-> text])
    <3>1. Free(m, m.result).status = "ok" /\ Free(m, m.result).live = {}
          /\ m.result.text = text
      BY <2>4 DEF Free, Outcome
    <3>. QED  BY <1>4, <1>6, <1>7, <1>10, <2>2, <3>1
  <2>. QED  BY <2>1, <2>3, <2>4
<1>11. CASE t = Outcome("undefined", {1}, Null)
  <2>1. m = t
    BY <1>4, <1>11 DEF Outcome
  <2>2. Free(m, m.result).status = "undefined" /\ Free(m, m.result).live = {1}
        /\ m.result.at = 0
    BY <1>11, <2>1 DEF Free, Outcome, Null
  <2>. QED  BY <1>4, <1>6, <1>7, <2>2
<1>. QED  BY <1>2, <1>3, <1>9, <1>10, <1>11, ToStringI

\* ... and every step keeps it.
LEMMA StringsStep == LInv /\ StringsInv /\ [Next]_vars => StringsInv'
<1>. SUFFICES ASSUME LInv, StringsInv, [Next]_vars PROVE StringsInv'
  OBVIOUS
<1>0. /\ tester \in Tester /\ main \in Main /\ tests \in Int
      /\ main.place # "none" <=> tester.place = "wait"
      /\ main.place # "none" => Proper /\ tester.i < tests
  BY DEF LInv, ProcessesOK, MainsInv, TestsOn
<1>1. CASE Improper
  BY <1>1, StringsOfTheMessage
<1>2. CASE StartFails
  <2>1. /\ tester.place = "test" /\ Proper /\ tester.i < tests
        /\ tester'.place = "test" /\ tester'.i = tester.i + 1 /\ tester'.result = -1
        /\ UNCHANGED <<tests, main, command, live>>
    BY <1>0, <1>2 DEF StartFails, TestsOn, Tester
  <2>2. tester'.i \in 0 .. tests
    BY <1>0, <2>1 DEF Tester
  <2>3. TypeOK'
    BY <2>1, <2>2 DEF TypeOK, StringsInv
  <2>. QED  BY <1>0, <2>1, <2>3 DEF StringsInv, MessageIsRight
<1>3. CASE StartMain
  <2>1. /\ tester'.place = "wait" /\ tester'.i = tester.i /\ tester'.result = tester.result
        /\ main'.place = "build" /\ main'.result = OK /\ live' = {} /\ UNCHANGED tests
    BY <1>0, <1>3 DEF StartMain, Idle, Tester
  <2>2. TypeOK'
    BY <2>1 DEF TypeOK, StringsInv
  <2>. QED  BY <2>1, <2>2 DEF StringsInv, MessageIsRight
<1>4. CASE TestReturns
  <2>1. /\ tester.place = "test" /\ Proper /\ tests >= 0
        /\ tester'.place \in {"abort", "test", "success"}
        /\ tester'.i \in {tester.i, 0} /\ tester'.result = tester.result
        /\ UNCHANGED <<tests, main, command, live>>
    BY <1>0, <1>4 DEF TestReturns, Proper, Tester
  <2>2. TypeOK'
    BY <1>0, <2>1 DEF TypeOK, StringsInv
  <2>. QED  BY <1>0, <2>1, <2>2 DEF StringsInv, MessageIsRight, Proper
<1>5. CASE Build
  <2>. DEFINE strings == [i \in 1 .. 5 |-> Literal(<<"part">>)]
  <2>1. PICK o \in concatenate_many(live, Literal(<<"part">>), strings) :
          /\ command' = o.result
          /\ live' = o.live
          /\ IF o.status = "ok"
               THEN /\ main' = [main EXCEPT !.place = "repeat", !.counter = 0]
                    /\ UNCHANGED <<tester, mains>>
               ELSE MainEnds(IF o.status = "exit" THEN 256 ELSE 11)
    BY <1>5 DEF Build
  <2>2. main.place = "build" /\ live = {} /\ UNCHANGED tests /\ tester.place = "wait"
    BY <1>0, <1>5 DEF Build, StringsInv
  <2>3. \/ o.status = "ok" /\ o.result.at \in Nat /\ o.live = {o.result.at} \ {0}
        \/ o.status = "exit" /\ o.live = {} /\ o.result = Null
    <3>1. DOMAIN strings = 1 .. 5 /\ \A i \in 1 .. 5 : strings[i].at = -1
      BY DEF Literal
    <3>2. Literal(<<"part">>).at = -1 /\ 5 \in Nat \ {0}
      BY DEF Literal
    <3>3. o \in concatenate_many({}, Literal(<<"part">>), strings)
      BY <2>1, <2>2
    <3>. HIDE DEF strings
    <3>. QED  BY <3>1, <3>2, <3>3, ManyLiterals
  <2>4. CASE o.status = "ok"
    <3>1. /\ main'.place = "repeat" /\ main'.result = main.result /\ UNCHANGED tester
          /\ command'.at \in Nat /\ live' = {command'.at} \ {0}
      BY <1>0, <2>1, <2>3, <2>4 DEF Main
    <3>2. TypeOK'
      BY <2>2, <3>1 DEF TypeOK, StringsInv
    <3>. QED  BY <2>2, <3>1, <3>2 DEF StringsInv, MessageIsRight
  <2>5. CASE o.status = "exit"
    <3>1. MainEnds(256) /\ live' = {}
      BY <2>1, <2>3, <2>5
    <3>. QED  BY <2>2, <3>1, StringsAtTheEnd
  <2>. QED  BY <2>3, <2>4, <2>5
<1>6. CASE RunProgram
  <2>1. /\ main.place = "repeat" /\ tester.place = "wait" /\ UNCHANGED <<tests, command, live>>
        /\ command.at \in Nat /\ live = {command.at} \ {0}
    BY <1>0, <1>6 DEF RunProgram, StringsInv
  <2>2. CASE command.at = 0
    <3>1. MainEnds(256) /\ live' = {}
      BY <1>6, <2>1, <2>2 DEF RunProgram
    <3>. QED  BY <2>1, <3>1, StringsAtTheEnd
  <2>3. CASE command.at # 0
    <3>1. PICK status \in {OK} \cup Failed :
               main' = [main EXCEPT !.counter = @ + 1, !.result = status]
      BY <1>6, <2>3 DEF RunProgram
    <3>2. main'.place = "repeat" /\ main'.result \in {OK} \cup Failed /\ UNCHANGED tester
      BY <1>0, <1>6, <2>1, <2>3, <3>1 DEF RunProgram, Main
    <3>3. TypeOK'
      BY <2>1, <3>2 DEF TypeOK, StringsInv
    <3>. QED  BY <2>1, <3>2, <3>3 DEF StringsInv, MessageIsRight
  <2>. QED  BY <2>2, <2>3
<1>7. CASE NextExecutable
  <2>. DEFINE o == Free(Outcome("ok", live, Null), command)
  <2>1. /\ main.place = "repeat" /\ tester.place = "wait" /\ UNCHANGED <<tests, command>>
        /\ command.at \in Nat /\ live = {command.at} \ {0} /\ live' = o.live
    BY <1>0, <1>7 DEF NextExecutable, StringsInv
  <2>2. o.status = "ok" /\ o.live = {}
    BY <2>1 DEF Free, Outcome
  <2>3. \/ main'.place = "build" /\ main'.result = main.result /\ UNCHANGED tester
        \/ MainEnds(Status(main.result))
    BY <1>0, <1>7, <2>2 DEF NextExecutable, Main
  <2>4. Status(main.result) \in {OK, 6, 256}
    BY DEF Status, OK
  <2>5. CASE main'.place = "build" /\ main'.result = main.result /\ UNCHANGED tester
    <3>1. TypeOK'
      BY <2>1, <2>2, <2>5 DEF TypeOK, StringsInv
    <3>. QED  BY <2>1, <2>2, <2>5, <3>1 DEF StringsInv, MessageIsRight
  <2>6. CASE MainEnds(Status(main.result))
    BY <2>1, <2>2, <2>4, <2>6, StringsAtTheEnd
  <2>. QED  BY <2>3, <2>5, <2>6
<1>8. CASE UNCHANGED vars
  BY <1>8 DEF vars, StringsInv, TypeOK, MessageIsRight, Proper
<1>. QED  BY <1>1, <1>2, <1>3, <1>4, <1>5, <1>6, <1>7, <1>8 DEF Next

(***************************************************************************)
(* ./main owns the string of its command and frees it, whichever malloc    *)
(* fails, and the results handed on are those of system() (main.c:61-66,   *)
(* c_string.c:24-74), for any calls and any number of tests.               *)
(***************************************************************************)
THEOREM CommandIsOwned == Spec => []StringsOwned
<1>1. StringsInv /\ LInv => StringsOwned
  BY DEF StringsInv, StringsOwned, NoLeak, LInv, ProcessesOK
<1>. QED  BY LauncherInvariant, StringsStart, StringsStep, <1>1, PTL DEF Spec

(***************************************************************************)
(* The message about an improper number of tests shows the number          *)
(* (test.c:16-20, c_string.c:101-180), whatever the number.                *)
(***************************************************************************)
THEOREM MessageShowsTheNumber == Spec => []MessageIsRight
<1>1. StringsInv => MessageIsRight
  BY DEF StringsInv
<1>. QED  BY LauncherInvariant, StringsStart, StringsStep, <1>1, PTL DEF Spec

-----------------------------------------------------------------------------
(***************************************************************************)
(* Sets of words that begin in different places, and the rank of a word:   *)
(* how many begin no later.                                                *)
(***************************************************************************)
Apart(words) ==
  /\ IsFiniteSet(words)
  /\ \A w \in words : w.from \in Nat
  /\ \A v, w \in words : v.from = w.from => v = w

UpTo(words, w) == {v \in words : v.from <= w.from}
Earlier(words, i) == {v \in words : v.from < i}

LEMMA EarlierCounted ==
  ASSUME NEW W, Apart(W), NEW i \in Nat
  PROVE  /\ IsFiniteSet(Earlier(W, i))
         /\ Cardinality(Earlier(W, i)) \in Nat
         /\ Cardinality(Earlier(W, i)) <= Cardinality(W)
         /\ Cardinality(W) \in Nat
         /\ Cardinality(Earlier(W, i)) = Cardinality(W) <=> Earlier(W, i) = W
<1>1. Earlier(W, i) \in SUBSET W /\ IsFiniteSet(W)
  BY DEF Earlier, Apart
<1>. QED  BY <1>1, FS_Subset, FS_CardinalityType

LEMMA RankGrows ==
  ASSUME NEW W, Apart(W), NEW v \in W, NEW w \in W, v.from < w.from
  PROVE  Cardinality(UpTo(W, v)) < Cardinality(UpTo(W, w))
<1>1. UpTo(W, w) \in SUBSET W /\ IsFiniteSet(W) /\ w \in UpTo(W, w)
  BY DEF UpTo, Apart
<1>2. IsFiniteSet(UpTo(W, w))
  BY <1>1, FS_Subset
<1>3. UpTo(W, v) \in SUBSET (UpTo(W, w) \ {w})
  BY DEF UpTo, Apart
<1>4. /\ IsFiniteSet(UpTo(W, w) \ {w})
      /\ Cardinality(UpTo(W, w) \ {w}) = Cardinality(UpTo(W, w)) - 1
  BY <1>1, <1>2, FS_RemoveElement
<1>5. /\ Cardinality(UpTo(W, v)) <= Cardinality(UpTo(W, w) \ {w})
      /\ IsFiniteSet(UpTo(W, v))
  BY <1>3, <1>4, FS_Subset
<1>6. Cardinality(UpTo(W, v)) \in Nat /\ Cardinality(UpTo(W, w)) \in Nat
  BY <1>2, <1>5, FS_CardinalityType
<1>. QED  BY <1>4, <1>5, <1>6

(***************************************************************************)
(* InOrder puts each word at its rank.                                     *)
(***************************************************************************)
LEMMA RankIsPlace ==
  ASSUME NEW W, Apart(W), NEW w \in W
  PROVE  /\ Cardinality(UpTo(W, w)) \in 1 .. Cardinality(W)
         /\ InOrder(W)[Cardinality(UpTo(W, w))] = w
<1>. DEFINE n == Cardinality(UpTo(W, w))
<1>1. UpTo(W, w) \in SUBSET W /\ IsFiniteSet(W) /\ UpTo(W, w) # {}
  BY DEF UpTo, Apart
<1>2. IsFiniteSet(UpTo(W, w)) /\ n <= Cardinality(W)
  BY <1>1, FS_Subset
<1>3. n \in Nat /\ n # 0 /\ Cardinality(W) \in Nat
  BY <1>1, <1>2, FS_CardinalityType, FS_EmptySet
<1>4. n \in 1 .. Cardinality(W)
  BY <1>2, <1>3
<1>5. ASSUME NEW v \in W, Cardinality(UpTo(W, v)) = n PROVE v = w
  <2>1. v.from \in Nat /\ w.from \in Nat
    BY DEF Apart
  <2>2. ~ (v.from < w.from) /\ ~ (w.from < v.from)
    BY <1>3, <1>5, RankGrows
  <2>. QED  BY <2>1, <2>2 DEF Apart
<1>6. (CHOOSE v \in W : Cardinality(UpTo(W, v)) = n) = w
  BY <1>5
<1>7. InOrder(W)[n] = CHOOSE v \in W : Cardinality(UpTo(W, v)) = n
  BY <1>4 DEF InOrder, UpTo
<1>. QED  BY <1>4, <1>6, <1>7

LEMMA FunctionIsSeq ==
  ASSUME NEW n \in Nat, NEW S, NEW t \in [1 .. n -> S]
  PROVE  t \in Seq(S) /\ Len(t) = n
<1>1. t \in Seq(S)
  BY SeqDef
<1>2. Len(t) \in Nat /\ 1 .. Len(t) = 1 .. n
  BY <1>1, LenProperties
<1>. QED  BY <1>1, <1>2

(***************************************************************************)
(* A sequence whose elements are at their ranks is a prefix of InOrder.    *)
(***************************************************************************)
Ranked(s, words) ==
  /\ s \in Seq(words)
  /\ \A n \in 1 .. Len(s) : Cardinality(UpTo(words, s[n])) = n

LEMMA RankedIsPrefix ==
  ASSUME NEW W, Apart(W), NEW s, Ranked(s, W), Len(s) <= Cardinality(W)
  PROVE  /\ IsPrefix(s, InOrder(W))
         /\ Len(s) = Cardinality(W) => s = InOrder(W)
<1>. DEFINE t == InOrder(W)
            c == Cardinality(W)
<1>1. Len(s) \in Nat /\ s \in Seq(W) /\ c \in Nat
  BY LenProperties, FS_CardinalityType DEF Ranked, Apart
<1>2. \A n \in 1 .. Len(s) : s[n] \in W /\ t[n] = s[n]
  <2>. TAKE n \in 1 .. Len(s)
  <2>1. s[n] \in W
    BY <1>1, ElementOfSeq
  <2>. QED  BY <2>1, RankIsPlace DEF Ranked
<1>3. Len(t) = c /\ \E S : t \in Seq(S)
  <2>. DEFINE S == {t[n] : n \in 1 .. c}
  <2>1. t \in [1 .. c -> S]
    BY DEF InOrder
  <2>. HIDE DEF t, c, S
  <2>. QED  BY <1>1, <2>1, FunctionIsSeq
<1>. HIDE DEF t, c
<1>4. /\ SubSeq(s, 1, Len(s)) \in Seq(W) /\ Len(SubSeq(s, 1, Len(s))) = Len(s)
      /\ \A n \in 1 .. Len(s) : SubSeq(s, 1, Len(s))[n] = s[n]
  BY <1>1, <1>2, SubSeqProperties
<1>5. /\ SubSeq(t, 1, Len(s)) \in Seq(W) /\ Len(SubSeq(t, 1, Len(s))) = Len(s)
      /\ \A n \in 1 .. Len(s) : SubSeq(t, 1, Len(s))[n] = t[n]
  BY <1>1, <1>2, SubSeqProperties
<1>6. SubSeq(s, 1, Len(s)) = SubSeq(t, 1, Len(s))
  BY <1>1, <1>2, <1>4, <1>5, SeqEqual
<1>7. ASSUME Len(s) = c PROVE s = t
  <2>1. PICK S : t \in Seq(S)
    BY <1>3
  <2>2. \A n \in 1 .. Len(t) : t[n] \in W
    BY <1>2, <1>3, <1>7
  <2>3. t \in Seq(W)
    BY <1>1, <1>3, <2>1, <2>2, SeqDef, LenProperties
  <2>. QED  BY <1>1, <1>2, <1>3, <1>7, <2>3, SeqEqual
<1>. QED  BY <1>3, <1>6, <1>7 DEF IsPrefix, t, c

-----------------------------------------------------------------------------
(***************************************************************************)
(* The words of a format are finitely many and do not overlap.             *)
(***************************************************************************)
LEMMA WordsApart ==
  ASSUME NEW types, Len(types) \in Nat, NEW V \in SUBSET WordsOf(types)
  PROVE  Apart(V)
<1>. DEFINE last == Len(types)
<1>1. \A w \in V : /\ w.from \in 1 .. last /\ w.to \in 1 .. last
                    /\ w = [from |-> w.from, to |-> w.to]
  BY DEF WordsOf
<1>2. ASSUME NEW v \in V, NEW w \in V, v.from = w.from, v.to < w.to PROVE FALSE
  <2>1. types[v.to + 1] = DELIMITER
    BY <1>1, <1>2 DEF WordsOf
  <2>2. v.to + 1 \in w.from .. w.to
    BY <1>1, <1>2 DEF WordsOf
  <2>. QED  BY <2>1, <2>2 DEF WordsOf
<1>3. ASSUME NEW v \in V, NEW w \in V, v.from = w.from PROVE v = w
  <2>1. ~ (v.to < w.to) /\ ~ (w.to < v.to)
    BY <1>2, <1>3
  <2>2. v.to = w.to
    BY <1>1, <2>1
  <2>. QED  BY <1>1, <1>3, <2>2
<1>4. IsFiniteSet(V)
  <2>. DEFINE f == [w \in V |-> w.from]
  <2>1. f \in [V -> 1 .. last]
    BY <1>1
  <2>2. f \in Injection(V, 1 .. last)
    BY <1>3, <2>1 DEF Injection, IsInjective
  <2>3. IsFiniteSet(1 .. last)
    BY FS_Interval
  <2>. QED  BY <2>2, <2>3, FS_Injection
<1>. QED  BY <1>1, <1>3, <1>4 DEF Apart

(***************************************************************************)
(* strchr finds the next delimiter or none.                                *)
(***************************************************************************)
LEMMA Strchr ==
  ASSUME Len(format) \in Nat, first \in Nat \ {0}
  PROVE  \/ /\ Second = 0
            /\ \A i \in first .. Len(format) : format[i] # DELIMITER
         \/ /\ Second \in first .. Len(format) /\ format[Second] = DELIMITER
            /\ \A i \in first .. Second - 1 : format[i] # DELIMITER
<1>. DEFINE I == {i \in first .. Len(format) : format[i] = DELIMITER}
<1>1. Second = IF I # {} THEN Min(I) ELSE 0
  BY DEF Second, SelectInSubSeq
<1>2. CASE I = {}
  BY <1>1, <1>2
<1>3. CASE I # {}
  <2>1. I \subseteq Nat
    OBVIOUS
  <2>2. PICK m \in I : \A i \in I : ~ (<<i, m>> \in OpToRel(<, Nat))
    BY <1>3, <2>1, NatLessThanWellFounded, WFMin
  <2>3. OpToRel(<, Nat) = {ss \in Nat \X Nat : ss[1] < ss[2]}
    BY Zenon DEF OpToRel
  <2>4. ASSUME NEW i \in I PROVE m <= i
    <3>1. i \in Nat /\ m \in Nat /\ <<i, m>> \in Nat \X Nat
      BY <2>1
    <3>2. ~ (i < m)
      BY <2>2, <2>3, <3>1
    <3>. QED  BY <3>1, <3>2
  <2>5. Min(I) \in I /\ \A i \in I : Min(I) <= i
    BY <2>4 DEF Min
  <2>6. \A i \in I : i \in Nat /\ i \in first .. Len(format) /\ format[i] = DELIMITER
    BY <2>1
  <2>. DEFINE m0 == Min(I)
  <2>7. Second = m0
    BY <1>1, <1>3
  <2>8. \A i \in first .. Len(format) : format[i] = DELIMITER => m0 <= i
    BY <2>5
  <2>9. m0 \in first .. Len(format) /\ format[m0] = DELIMITER
    BY <2>5
  <2>. HIDE DEF m0, I
  <2>10. \A i \in first .. m0 - 1 : format[i] # DELIMITER
    BY <2>8, <2>9
  <2>. QED  BY <2>7, <2>9, <2>10
<1>. QED  BY <1>2, <1>3

(***************************************************************************)
(* The loop is at the beginning of the format or after a delimiter.        *)
(***************************************************************************)
InLoop ==
  /\ Len(format) \in Nat
  /\ first \in 1 .. Len(format) + 1
  /\ first = 1 \/ format[first - 1] = DELIMITER

Here == [from |-> first, to |-> first + Size - 1]

LEMMA WordHere ==
  ASSUME InLoop
  PROVE  /\ Size \in Nat
         /\ Size # 0 => Here \in WordsOf(format)
         /\ Size = 0 => \A w \in WordsOf(format) : w.from # first
         /\ \A w \in WordsOf(format) : w.from > first => ~ Ends /\ w.from > Second
         /\ ~ Ends => Second \in first .. Len(format) - 1 /\ format[Second] = DELIMITER
<1>. DEFINE last == Len(format)
<1>0. last \in Nat /\ first \in Nat \ {0} /\ first <= last + 1
  BY DEF InLoop
<1>1. CASE Second = 0 /\ \A i \in first .. last : format[i] # DELIMITER
  <2>1. Size = last + 1 - first /\ Size \in Nat /\ Ends
    BY <1>0, <1>1 DEF Size, Ends
  <2>2. ASSUME Size # 0 PROVE Here \in WordsOf(format)
    <3>1. Here.from = first /\ Here.to = last /\ first <= last
      BY <1>0, <2>1, <2>2 DEF Here
    <3>2. Here \in [from : 1 .. last, to : 1 .. last]
      BY <1>0, <2>1, <2>2 DEF Here
    <3>. QED  BY <1>0, <1>1, <3>1, <3>2 DEF WordsOf, InLoop
  <2>3. ASSUME NEW w \in WordsOf(format) PROVE ~ (w.from > first)
    <3>1. /\ w.from \in 1 .. last
          /\ w.from = 1 \/ format[w.from - 1] = DELIMITER
      BY DEF WordsOf
    <3>. QED  BY <1>0, <1>1, <3>1
  <2>4. ASSUME Size = 0, NEW w \in WordsOf(format) PROVE w.from # first
    BY <1>0, <2>1, <2>4 DEF WordsOf
  <2>. QED  BY <2>1, <2>2, <2>3, <2>4
<1>2. CASE /\ Second \in first .. last /\ format[Second] = DELIMITER
           /\ \A i \in first .. Second - 1 : format[i] # DELIMITER
  <2>1. Size = Second - first /\ Size \in Nat /\ Second # 0
    BY <1>0, <1>2 DEF Size
  <2>2. ASSUME Size # 0 PROVE Here \in WordsOf(format)
    <3>1. Here.from = first /\ Here.to = Second - 1 /\ first <= Second - 1
      BY <1>0, <1>2, <2>1, <2>2 DEF Here
    <3>2. Here \in [from : 1 .. last, to : 1 .. last]
      BY <1>0, <1>2, <2>1, <2>2 DEF Here
    <3>. QED  BY <1>0, <1>2, <3>1, <3>2 DEF WordsOf, InLoop
  <2>3. ASSUME NEW w \in WordsOf(format), w.from > first PROVE w.from > Second /\ ~ Ends
    <3>1. /\ w.from \in 1 .. last /\ w.to \in 1 .. last /\ w.from <= w.to
          /\ w.from = 1 \/ format[w.from - 1] = DELIMITER
          /\ format[w.from] # DELIMITER
      BY DEF WordsOf
    <3>2. w.from > Second
      BY <1>0, <1>2, <2>3, <3>1
    <3>. QED  BY <1>0, <1>2, <3>1, <3>2 DEF Ends
  <2>4. ASSUME Size = 0, NEW w \in WordsOf(format) PROVE w.from # first
    <3>1. w.from \in 1 .. last /\ w.to \in 1 .. last /\ format[w.from] # DELIMITER
      BY DEF WordsOf
    <3>2. Second = first
      BY <1>0, <1>2, <2>1, <2>4
    <3>. QED  BY <1>2, <3>1, <3>2
  <2>5. ~ Ends => Second \in first .. last - 1
    BY <1>0, <1>2 DEF Ends
  <2>. QED  BY <1>2, <2>1, <2>2, <2>3, <2>4, <2>5
<1>. QED  BY <1>0, <1>1, <1>2, Strchr

(***************************************************************************)
(* What a turn of the loop leaves behind: the word that is here, if there  *)
(* is one, and nothing else.                                               *)
(***************************************************************************)
Behind(V) == IF Ends THEN V ELSE Earlier(V, Second + 1)

LEMMA TurnCounts ==
  ASSUME InLoop, NEW V \in SUBSET WordsOf(format)
  PROVE  /\ Cardinality(Earlier(V, first)) \in Nat
         /\ Size # 0 /\ Here \in V =>
              /\ Cardinality(Behind(V)) = Cardinality(Earlier(V, first)) + 1
              /\ Cardinality(UpTo(V, Here)) = Cardinality(Earlier(V, first)) + 1
         /\ Size = 0 \/ Here \notin V =>
              Cardinality(Behind(V)) = Cardinality(Earlier(V, first))
<1>. DEFINE W == WordsOf(format)
<1>1. /\ first \in Nat /\ Size \in Nat /\ Here.from = first
      /\ Apart(V) /\ Apart(W) /\ \A w \in V : w \in W /\ w.from \in Nat
  <2>1. first \in Nat /\ Len(format) \in Nat
    BY DEF InLoop
  <2>2. Apart(V) /\ Apart(W)
    BY <2>1, WordsApart
  <2>3. \A w \in V : w \in W /\ w.from \in Nat
    BY <2>2 DEF Apart
  <2>4. Here.from = first
    BY DEF Here
  <2>. QED  BY <2>1, <2>2, <2>3, <2>4, WordHere
<1>2. \A w \in V : w.from = first => Size # 0 /\ w = Here
  BY <1>1, WordHere DEF Apart
<1>3. \A w \in V : w.from > first => ~ Ends /\ w.from > Second
  BY <1>1, WordHere
<1>4. ~ Ends => Second \in Nat /\ Second >= first
  BY <1>1, WordHere DEF InLoop
<1>5. /\ IsFiniteSet(Earlier(V, first)) /\ Cardinality(Earlier(V, first)) \in Nat
  BY <1>1, EarlierCounted
<1>6. CASE Size # 0 /\ Here \in V
  <2>1. UpTo(V, Here) = Earlier(V, first) \cup {Here} /\ Here \notin Earlier(V, first)
    BY <1>1, <1>2, <1>6 DEF UpTo, Earlier
  <2>2. Behind(V) = Earlier(V, first) \cup {Here}
    <3>1. CASE Ends
      BY <1>1, <1>2, <1>3, <1>6, <3>1 DEF Behind, Earlier
    <3>2. CASE ~ Ends
      BY <1>1, <1>2, <1>3, <1>4, <1>6, <3>2 DEF Behind, Earlier
    <3>. QED  BY <3>1, <3>2
  <2>3. Cardinality(Earlier(V, first) \cup {Here}) = Cardinality(Earlier(V, first)) + 1
    BY <1>5, <2>1, FS_AddElement
  <2>. QED  BY <1>5, <1>6, <2>1, <2>2, <2>3
<1>7. CASE Size = 0 \/ Here \notin V
  <2>1. Behind(V) = Earlier(V, first)
    <3>1. CASE Ends
      BY <1>1, <1>2, <1>3, <1>7, <3>1 DEF Behind, Earlier
    <3>2. CASE ~ Ends
      BY <1>1, <1>2, <1>3, <1>4, <1>7, <3>2 DEF Behind, Earlier
    <3>. QED  BY <3>1, <3>2
  <2>. QED  BY <1>5, <1>7, <2>1
<1>. QED  BY <1>5, <1>6, <1>7

-----------------------------------------------------------------------------
(***************************************************************************)
(* The formats of all clients are sequences of characters.                 *)
(***************************************************************************)
Written == {DELIMITER, "p", "G", "L", "g", "o", "r", "7", "d", "s", "c", "h", "u", "F", "l"}

LEMMA CallsWritten ==
  /\ Len(PrintCalls) = 3
  /\ \A n \in 1 .. 3 : PrintCalls[n].format \in Seq(Written)
<1>. DEFINE tail == <<"d", DELIMITER, "G", DELIMITER, "s", DELIMITER, "d", DELIMITER, "s">>
            one == <<"p", DELIMITER, "G", DELIMITER, "L", "g", DELIMITER, "o", DELIMITER,
                     DELIMITER, "r", "r", "7", DELIMITER>>
            two == <<DELIMITER, "p", DELIMITER, DELIMITER, "d">>
            end == <<"L", "g", DELIMITER, DELIMITER>>
<1>1. tail \in Seq(Written)
  BY DEF Written
<1>2. one \in Seq(Written)
  BY DEF Written
<1>3. two \in Seq(Written) /\ end \in Seq(Written)
  BY DEF Written
<1>4. Blanks(7) \in Seq(Written)
  <2>1. Blanks(7) \in [1 .. 7 -> Written]
    BY DEF Blanks, Written
  <2>. QED  BY <2>1, FunctionIsSeq
<1>. HIDE DEF tail, one, two, end
<1>5. one \o tail \in Seq(Written) /\ two \o Blanks(7) \o end \o tail \in Seq(Written)
  BY <1>1, <1>2, <1>3, <1>4, ConcatProperties
<1>6. PrintCalls[3].format \in Seq(Written)
  <2>. DEFINE sp == DELIMITER
              t == <<sp, "p", sp, sp, "c", sp, "h", "d", sp, "h", "u", sp,
                     "F", sp, "G", sp, "F", sp, "G", sp, sp, "u", sp, sp,
                     "l", "u", sp, "l", "d", sp, "l", "l", "u", sp, "l", "l", "d", sp>>
  <2>1. t \in Seq(Written)
    BY DEF Written
  <2>2. PrintCalls[3].format = t
    BY DEF PrintCalls
  <2>. HIDE DEF t
  <2>. QED  BY <2>1, <2>2
<1>7. PrintCalls[1].format = one \o tail
  BY DEF PrintCalls, one, tail
<1>8. PrintCalls[2].format = two \o Blanks(7) \o end \o tail
  BY DEF PrintCalls, two, end, tail
<1>9. Len(PrintCalls) = 3
  BY DEF PrintCalls
<1>10. \A n \in 1 .. 3 : n = 1 \/ n = 2 \/ n = 3
  OBVIOUS
<1>11. PrintCalls[1].format \in Seq(Written) /\ PrintCalls[2].format \in Seq(Written)
  BY <1>5, <1>7, <1>8
<1>. QED  BY Zenon, <1>6, <1>9, <1>10, <1>11

-----------------------------------------------------------------------------
(***************************************************************************)
(* The arguments that a format calls for, at the ranks of their words.     *)
(***************************************************************************)
LEMMA ArgumentsRanked ==
  ASSUME NEW types, Len(types) \in Nat
  PROVE  LET C == ConversionsOf(types)
         IN  /\ Apart(C) /\ C \subseteq WordsOf(types)
             /\ Len(ArgumentsFor(types)) = Cardinality(C)
             /\ \A w \in C : /\ Cardinality(UpTo(C, w)) \in 1 .. Cardinality(C)
                             /\ ArgumentsFor(types)[Cardinality(UpTo(C, w))] = Asked(types, w)
<1>. DEFINE C == ConversionsOf(types)
            a == ArgumentsFor(types)
            c == Cardinality(C)
<1>1. C \in SUBSET WordsOf(types) /\ Apart(C)
  <2>1. C \in SUBSET WordsOf(types)
    BY DEF ConversionsOf
  <2>. QED  BY <2>1, WordsApart
<1>2. c \in Nat
  BY <1>1, FS_CardinalityType DEF Apart
<1>3. Len(a) = c
  <2>. DEFINE S == {a[n] : n \in 1 .. c}
  <2>1. a \in [1 .. c -> S]
    BY DEF ArgumentsFor
  <2>. HIDE DEF a, c, S
  <2>. QED  BY <1>2, <2>1, FunctionIsSeq
<1>4. ASSUME NEW w \in C
      PROVE  Cardinality(UpTo(C, w)) \in 1 .. c /\ a[Cardinality(UpTo(C, w))] = Asked(types, w)
  <2>1. Cardinality(UpTo(C, w)) \in 1 .. c /\ InOrder(C)[Cardinality(UpTo(C, w))] = w
    BY <1>1, RankIsPlace
  <2>2. \A n \in 1 .. c : a[n] = Asked(types, InOrder(C)[n])
    BY DEF ArgumentsFor
  <2>. QED  BY <2>1, <2>2
<1>. QED  BY <1>1, <1>3, <1>4

-----------------------------------------------------------------------------
(***************************************************************************)
(* The loop of print_many: the words that were shown are at their ranks,   *)
(* all of those before the remainder; and as many arguments were taken as  *)
(* conversions stand before it, when the arguments are those that the      *)
(* format calls for.                                                       *)
(***************************************************************************)
PrintInv ==
  /\ format \in Seq(Written \cup Characters)
  /\ printer \in {"idle", "turn", "done", "undefined"}
  /\ printer # "idle" => /\ Ranked(shown, WordsOf(format))
                         /\ Len(shown) <= Cardinality(WordsOf(format))
  /\ printer = "turn" => /\ InLoop
                         /\ Len(shown) = Cardinality(Earlier(WordsOf(format), first))
  /\ printer = "done" => Len(shown) = Cardinality(WordsOf(format))

ArgsInv ==
  args = ArgumentsFor(format) /\ printer # "idle" =>
    /\ printer # "undefined"
    /\ printer = "turn" => used = Cardinality(Earlier(ConversionsOf(format), first))
    /\ printer = "done" => used = Cardinality(ConversionsOf(format))

-----------------------------------------------------------------------------
(***************************************************************************)
(* The one buffer: what it holds and what the last jump left, place by     *)
(* place, and which calls and tests are over.                              *)
(***************************************************************************)
CallsPlaces == {"client", "main", "print", "printing"}
JumpsPlaces == {"first", "jump", "second"}
TestsPlaces == {"tests", "exit", "abort"}

Names == {TESTS[n] : n \in 1 .. Len(TESTS)}

JumpInv ==
  /\ place \in CallsPlaces \cup JumpsPlaces \cup TestsPlaces
  /\ printed \in 0 .. Len(PrintCalls)
  /\ place \notin CallsPlaces => printed = Len(PrintCalls)
  /\ place \in {"print", "printing"} => JMP_BUF = 1
  /\ place = "printing" => printed < Len(PrintCalls)
  /\ place = "first" => jmp_value = test_print_many_longjmp
  /\ place = "jump" => JMP_BUF = 2
  /\ place = "second" => jmp_value = jmp_value_2
  /\ tested \in Seq(Names) /\ Len(tested) <= Len(TESTS)
  /\ \A n \in 1 .. Len(tested) : tested[n] = TESTS[n]
  /\ result = IF place = "abort" THEN "failed" ELSE "OK"
  /\ place = "tests" => exits.registered
  /\ place = "exit" => tested = TESTS /\ exits.ran
  /\ exits = [registered |-> exits.registered, ran |-> exits.ran]

-----------------------------------------------------------------------------
LIInv == PrintInv /\ ArgsInv /\ JumpInv

avars == <<pvars, lvars, request, answer>>

\* The loop begins.
LEMMA Begins ==
  ASSUME NEW types \in Seq(Written \cup Characters)
  PROVE  /\ 1 \in 1 .. Len(types) + 1 /\ Len(types) \in Nat
         /\ \A V \in SUBSET WordsOf(types) : Cardinality(Earlier(V, 1)) = 0
         /\ Cardinality(WordsOf(types)) \in Nat
<1>1. Len(types) \in Nat
  BY LenProperties
<1>2. Cardinality(WordsOf(types)) \in Nat
  BY <1>1, WordsApart, FS_CardinalityType DEF Apart
<1>3. ASSUME NEW V \in SUBSET WordsOf(types) PROVE Cardinality(Earlier(V, 1)) = 0
  <2>1. \A w \in V : w.from \in 1 .. Len(types)
    BY DEF WordsOf
  <2>2. Earlier(V, 1) = {}
    BY <1>1, <2>1 DEF Earlier
  <2>. QED  BY <2>2, FS_EmptySet
<1>. QED  BY <1>1, <1>2, <1>3

LEMMA PrintingBegins ==
  ASSUME NEW types \in Seq(Written \cup Characters), NEW arguments,
         format' = types, args' = arguments, printer' = "turn",
         first' = 1, used' = 0, shown' = <<>>
  PROVE  PrintInv' /\ ArgsInv'
<1>1. Ranked(<<>>, WordsOf(types)) /\ Len(<<>>) = 0
  <2>1. <<>> \in Seq(WordsOf(types)) /\ Len(<<>>) = 0
    BY EmptySeq
  <2>. QED  BY <2>1 DEF Ranked
<1>2. InLoop'
  BY Begins DEF InLoop
<1>3. PrintInv'
  BY <1>1, <1>2, Begins DEF PrintInv
<1>4. ConversionsOf(types) \in SUBSET WordsOf(types)
  BY DEF ConversionsOf
<1>5. ArgsInv'
  BY <1>4, Begins DEF ArgsInv
<1>. QED  BY <1>3, <1>5

\* What a turn shows.
LEMMA TurnShows ==
  ASSUME PrintInv, print_many_turn
  PROVE  /\ Ranked(shown', WordsOf(format))
         /\ Len(shown') = Cardinality(Behind(WordsOf(format)))
<1>. DEFINE W == WordsOf(format)
<1>1. InLoop /\ Ranked(shown, W) /\ Len(shown) = Cardinality(Earlier(W, first))
  BY DEF PrintInv, print_many_turn
<1>2. /\ Cardinality(Earlier(W, first)) \in Nat /\ shown \in Seq(W) /\ Len(shown) \in Nat
      /\ Size = 0 \/ Here \in W
  BY <1>1, TurnCounts, WordHere DEF Ranked
<1>3. CASE Size = 0
  BY <1>1, <1>2, <1>3, TurnCounts DEF print_many_turn
<1>4. CASE Size # 0
  <2>1. shown' = Append(shown, Here)
    BY <1>4 DEF print_many_turn, Here
  <2>2. /\ shown' \in Seq(W) /\ Len(shown') = Len(shown) + 1
        /\ \A n \in 1 .. Len(shown) : shown'[n] = shown[n]
        /\ shown'[Len(shown) + 1] = Here
    BY <1>2, <1>4, <2>1, AppendProperties
  <2>3. /\ Cardinality(Behind(W)) = Len(shown) + 1
        /\ Cardinality(UpTo(W, Here)) = Len(shown) + 1
    BY <1>1, <1>2, <1>4, TurnCounts
  <2>4. ASSUME NEW n \in 1 .. Len(shown') PROVE Cardinality(UpTo(W, shown'[n])) = n
    <3>1. CASE n = Len(shown) + 1
      BY <2>2, <2>3, <3>1
    <3>2. CASE n # Len(shown) + 1
      <4>1. n \in 1 .. Len(shown)
        BY <1>2, <2>2, <3>2
      <4>. QED  BY <1>1, <2>2, <4>1 DEF Ranked
    <3>. QED  BY <3>1, <3>2
  <2>. QED  BY <2>2, <2>3, <2>4 DEF Ranked
<1>. QED  BY <1>3, <1>4

\* What a turn takes: the argument of the word that is here, of its type.
LEMMA TurnTakes ==
  ASSUME PrintInv, ArgsInv, print_many_turn, args = ArgumentsFor(format)
  PROVE  /\ ~ (/\ TakesArgument(Word)
               /\ used = Len(args) \/ ~ Fits(args[used + 1], Conversion(Word)))
         /\ used' = Cardinality(Behind(ConversionsOf(format)))
<1>. DEFINE C == ConversionsOf(format)
<1>1. InLoop /\ used = Cardinality(Earlier(C, first)) /\ C \in SUBSET WordsOf(format)
  BY DEF PrintInv, ArgsInv, print_many_turn, ConversionsOf
<1>2. used \in Nat /\ Len(format) \in Nat /\ first \in 1 .. Len(format) + 1 /\ Size \in Nat
  BY <1>1, TurnCounts, WordHere DEF InLoop
<1>3. CASE Size = 0
  <2>1. Word = <<>>
    <3>1. Len(Word) = 0 /\ Word \in Seq(Written \cup Characters)
      BY <1>2, <1>3, SubSeqProperties DEF Word, PrintInv
    <3>. QED  BY <3>1, EmptySeq
  <2>2. ~ TakesArgument(Word)
    BY <2>1 DEF TakesArgument
  <2>. QED  BY <1>1, <1>3, <2>2, TurnCounts DEF print_many_turn
<1>4. CASE Size # 0
  <2>1. Here \in WordsOf(format) /\ Here.from = first /\ Here.to = first + Size - 1
    BY <1>1, <1>4, WordHere DEF Here
  <2>2. Conversion(Word) = Asked(format, Here)
    BY <2>1 DEF Asked, Word
  <2>3. Here.to \in 1 .. Len(format)
    BY <2>1 DEF WordsOf
  <2>4. Word # <<>>
    <3>1. Len(Word) = Size
      BY <1>2, <1>4, <2>1, <2>3, SubSeqProperties DEF Word, PrintInv
    <3>. QED  BY <1>4, <3>1, EmptySeq
  <2>5. TakesArgument(Word) <=> Here \in C
    BY <2>1, <2>2, <2>4 DEF TakesArgument, ConversionsOf
  <2>6. CASE Here \in C
    <3>1. /\ used' = used + 1
          /\ Cardinality(Behind(C)) = used + 1 /\ Cardinality(UpTo(C, Here)) = used + 1
      BY <1>1, <1>4, <2>5, <2>6, TurnCounts DEF print_many_turn
    <3>2. /\ Len(args) = Cardinality(C) /\ used + 1 \in 1 .. Cardinality(C)
          /\ Cardinality(C) \in Nat
          /\ args[used + 1] = Asked(format, Here)
      BY <1>2, <2>6, <3>1, ArgumentsRanked, FS_CardinalityType DEF Apart
    <3>3. used # Len(args)
      BY <1>2, <3>2
    <3>. QED  BY <2>2, <3>1, <3>2, <3>3 DEF Fits
  <2>7. CASE Here \notin C
    BY <1>1, <1>4, <2>5, <2>7, TurnCounts DEF print_many_turn
  <2>. QED  BY <2>6, <2>7
<1>. QED  BY <1>2, <1>3, <1>4

LEMMA TurnKeeps ==
  ASSUME PrintInv, ArgsInv, print_many_turn
  PROVE  PrintInv' /\ ArgsInv'
<1>. DEFINE W == WordsOf(format)
            C == ConversionsOf(format)
<1>1. /\ format' = format /\ args' = args /\ InLoop
      /\ Len(format) \in Nat /\ first \in Nat
      /\ C \in SUBSET W
  BY DEF PrintInv, print_many_turn, InLoop, ConversionsOf
<1>2. /\ printer' = "done" => Ends
      /\ printer' = "turn" => ~ Ends /\ first' = Second + 1
      /\ printer' \in {"turn", "done", "undefined"}
  BY DEF print_many_turn
<1>3. /\ Ends => Behind(W) = W /\ Behind(C) = C
      /\ ~ Ends => /\ Behind(W) = Earlier(W, Second + 1)
                   /\ Behind(C) = Earlier(C, Second + 1)
                   /\ Second \in 1 .. Len(format) - 1 /\ format[Second] = DELIMITER
  <2>1. ~ Ends => Second \in 1 .. Len(format) - 1 /\ format[Second] = DELIMITER
    BY <1>1, WordHere DEF InLoop
  <2>. QED  BY <2>1 DEF Behind
<1>4. Cardinality(Behind(W)) <= Cardinality(W)
  <2>1. Apart(W)
    BY <1>1, WordsApart
  <2>2. CASE Ends
    BY <1>3, <2>1, <2>2, FS_CardinalityType DEF Apart
  <2>3. CASE ~ Ends
    <3>1. Second + 1 \in Nat
      BY <1>1, <1>3, <2>3
    <3>. QED  BY <1>3, <2>1, <2>3, <3>1, EarlierCounted
  <2>. QED  BY <2>2, <2>3
<1>5. printer' = "turn" => InLoop'
  <2>1. ASSUME ~ Ends, first' = Second + 1 PROVE InLoop'
    <3>1. first' \in 1 .. Len(format) + 1 /\ first' - 1 = Second
      BY <1>1, <1>3, <2>1
    <3>. QED  BY <1>1, <1>3, <2>1, <3>1 DEF InLoop
  <2>. QED  BY <1>2, <2>1
<1>6. PrintInv'
  BY <1>1, <1>2, <1>3, <1>4, <1>5, TurnShows DEF PrintInv
<1>7. ArgsInv'
  <2>. SUFFICES ASSUME args = ArgumentsFor(format)
                PROVE  /\ printer' # "undefined"
                       /\ printer' = "turn" => used' = Cardinality(Earlier(C, first'))
                       /\ printer' = "done" => used' = Cardinality(C)
    BY <1>1 DEF ArgsInv
  <2>1. printer' # "undefined"
    BY TurnTakes DEF print_many_turn
  <2>2. used' = Cardinality(Behind(C))
    BY TurnTakes
  <2>. QED  BY <1>2, <1>3, <2>1, <2>2
<1>. QED  BY <1>6, <1>7

-----------------------------------------------------------------------------
LEMMA LibraryStart == LibraryInit => LIInv
<1>. USE CallsWritten
<1>1. Len(<<>>) = 0 /\ <<>> \in Seq(Names) /\ <<>> \in Seq(Written \cup Characters)
  BY EmptySeq
<1>2. Len(TESTS) = 9
  BY DEF TESTS
<1>3. ASSUME LinkingTestInit PROVE LIInv
  <2>1. PrintInv /\ ArgsInv
    BY <1>1, <1>3 DEF LinkingTestInit, PrintInv, ArgsInv
  <2>2. JumpInv
    BY <1>1, <1>2, <1>3
    DEF LinkingTestInit, JumpInv, CallsPlaces, JumpsPlaces, TestsPlaces
  <2>. QED  BY <2>1, <2>2 DEF LIInv
<1>4. ASSUME ClientInit PROVE LIInv
  <2>1. JumpInv
    BY <1>1, <1>2, <1>4
    DEF ClientInit, JumpInv, CallsPlaces, JumpsPlaces, TestsPlaces
  <2>2. CASE format \in Formats /\ printer = "turn"
    <3>1. PICK n \in 0 .. MaxFormat : format \in [1 .. n -> Characters]
      BY <2>2 DEF Formats
    <3>2. n \in Nat
      BY LibraryAssumption
    <3>3. format \in [1 .. n -> Written \cup Characters]
      BY <3>1
    <3>4. format \in Seq(Written \cup Characters)
      BY <3>2, <3>3, FunctionIsSeq
    <3>5. /\ 1 \in 1 .. Len(format) + 1 /\ Len(format) \in Nat
          /\ Cardinality(Earlier(WordsOf(format), 1)) = 0
          /\ Cardinality(Earlier(ConversionsOf(format), 1)) = 0
          /\ Cardinality(WordsOf(format)) \in Nat
      BY <3>4, Begins DEF ConversionsOf
    <3>6. Ranked(<<>>, WordsOf(format))
      BY <1>1, EmptySeq DEF Ranked
    <3>7. first = 1 /\ used = 0 /\ shown = <<>>
      BY <1>4 DEF ClientInit
    <3>8. PrintInv
      BY <1>1, <2>2, <3>4, <3>5, <3>6, <3>7 DEF PrintInv, InLoop
    <3>9. ArgsInv
      BY <2>2, <3>5, <3>7 DEF ArgsInv
    <3>. QED  BY <2>1, <3>8, <3>9 DEF LIInv
  <2>3. CASE format = <<>> /\ printer = "idle"
    <3>1. PrintInv /\ ArgsInv
      BY <1>1, <2>3 DEF PrintInv, ArgsInv
    <3>. QED  BY <2>1, <3>1 DEF LIInv
  <2>. QED  BY <1>4, <2>2, <2>3 DEF ClientInit
<1>. QED  BY <1>3, <1>4 DEF LibraryInit

LEMMA LibraryStep == LIInv /\ [LibraryNext]_avars => LIInv'
<1>. SUFFICES ASSUME LIInv, [LibraryNext]_avars PROVE LIInv'
  OBVIOUS
<1>. USE CallsWritten
<1>0. Len(TESTS) = 9 /\ \A n \in 1 .. 9 : TESTS[n] \in Names
  <2>1. Len(TESTS) = 9
    BY DEF TESTS
  <2>. QED  BY <2>1 DEF Names
<1>1. ASSUME UNCHANGED pvars PROVE PrintInv' /\ ArgsInv'
  BY <1>1 DEF LIInv, PrintInv, ArgsInv, InLoop, pvars
<1>2. ASSUME UNCHANGED lvars PROVE JumpInv'
  BY <1>2 DEF LIInv, JumpInv, lvars
<1>3. CASE tests_setjmp
  <2>1. JumpInv'
    BY <1>3 DEF LIInv, JumpInv, tests_setjmp, CallsPlaces, JumpsPlaces, TestsPlaces
  <2>. QED  BY <1>1, <1>3, <2>1 DEF LIInv, tests_setjmp
<1>4. CASE test_print_many
  <2>1. printed + 1 \in 1 .. 3
    BY <1>4 DEF LIInv, JumpInv, test_print_many
  <2>2. PrintCalls[printed + 1].format \in Seq(Written \cup Characters)
    <3>1. PrintCalls[printed + 1].format \in Seq(Written)
      BY <2>1
    <3>. QED  BY <3>1, SeqDef
  <2>3. PrintInv' /\ ArgsInv'
    BY <1>4, <2>2, PrintingBegins DEF test_print_many, Printing
  <2>4. JumpInv'
    BY <1>4 DEF LIInv, JumpInv, test_print_many, CallsPlaces, JumpsPlaces, TestsPlaces
  <2>. QED  BY <2>3, <2>4 DEF LIInv
<1>5. CASE print_many
  BY <1>2, <1>5, TurnKeeps DEF LIInv, print_many
<1>6. CASE print_many_returns
  <2>1. JumpInv'
    BY <1>6 DEF LIInv, JumpInv, print_many_returns, CallsPlaces, JumpsPlaces, TestsPlaces
  <2>. QED  BY <1>1, <1>6, <2>1 DEF LIInv, print_many_returns
<1>7. CASE test_print_many_jumps
  <2>1. JumpInv'
    BY <1>7 DEF LIInv, JumpInv, test_print_many_jumps, longjmp, CallsPlaces, JumpsPlaces,
                TestsPlaces
  <2>. QED  BY <1>1, <1>7, <2>1 DEF LIInv, test_print_many_jumps
<1>8. CASE after_first_jump
  <2>1. JumpInv'
    BY <1>8 DEF LIInv, JumpInv, after_first_jump, SecondBuffer, CallsPlaces, JumpsPlaces,
                TestsPlaces
  <2>. QED  BY <1>1, <1>8, <2>1 DEF LIInv, after_first_jump
<1>9. CASE longjump_test
  <2>1. JumpInv'
    BY <1>9 DEF LIInv, JumpInv, longjump_test, longjmp, CallsPlaces, JumpsPlaces,
                TestsPlaces
  <2>. QED  BY <1>1, <1>9, <2>1 DEF LIInv, longjump_test
<1>10. CASE after_second_jump
  <2>1. JumpInv'
    BY <1>10 DEF LIInv, JumpInv, after_second_jump, CallsPlaces, JumpsPlaces, TestsPlaces
  <2>. QED  BY <1>1, <1>10, <2>1 DEF LIInv, after_second_jump
<1>11. CASE main_test_linking
  <2>1. /\ tested' = Append(tested, TESTS[Len(tested) + 1]) /\ Len(tested) < 9
        /\ tested \in Seq(Names) /\ \A n \in 1 .. Len(tested) : tested[n] = TESTS[n]
        /\ Len(tested) \in Nat
    BY <1>0, <1>11, LenProperties DEF LIInv, JumpInv, main_test_linking, Left
  <2>2. /\ tested' \in Seq(Names) /\ Len(tested') = Len(tested) + 1
        /\ \A n \in 1 .. Len(tested) : tested'[n] = tested[n]
        /\ tested'[Len(tested) + 1] = TESTS[Len(tested) + 1]
    BY <1>0, <2>1, AppendProperties
  <2>3. \A n \in 1 .. Len(tested') : tested'[n] = TESTS[n]
    BY <2>1, <2>2
  <2>4. \/ place' = "tests" /\ result' = "OK"
        \/ place' = "abort" /\ result' = "failed"
    BY <1>11 DEF main_test_linking
  <2>5. JumpInv'
    BY <1>0, <1>11, <2>1, <2>2, <2>3, <2>4
    DEF LIInv, JumpInv, main_test_linking, CallsPlaces, JumpsPlaces, TestsPlaces
  <2>. QED  BY <1>1, <1>11, <2>5 DEF LIInv, main_test_linking
<1>12. CASE main_returns
  <2>1. tested = TESTS
    <3>. DEFINE n == Len(tested)
    <3>1. /\ result = "OK" /\ ~ (n < Len(TESTS)) /\ n <= Len(TESTS) /\ tested \in Seq(Names)
          /\ \A i \in 1 .. n : tested[i] = TESTS[i]
      BY <1>12 DEF LIInv, JumpInv, main_returns, at_exit, Left
    <3>4. n \in Nat
      BY <3>1, LenProperties
    <3>. HIDE DEF n
    <3>3. n = 9
      BY <1>0, <3>1, <3>4
    <3>2. TESTS \in Seq(Names)
      BY <1>0 DEF TESTS
    <3>. QED  BY <1>0, <3>1, <3>2, <3>3, SeqEqual DEF n
  <2>2. exits'.ran /\ exits' = [registered |-> exits'.registered, ran |-> exits'.ran]
    BY <1>12 DEF LIInv, JumpInv, main_returns, at_exit
  <2>3. JumpInv'
    BY <1>12, <2>1, <2>2
    DEF LIInv, JumpInv, main_returns, at_exit, CallsPlaces, JumpsPlaces, TestsPlaces
  <2>. QED  BY <1>1, <1>12, <2>3 DEF LIInv, main_returns, at_exit
<1>13. CASE to_string
  BY <1>1, <1>2, <1>13 DEF LIInv, to_string
<1>14. CASE UNCHANGED avars
  BY <1>1, <1>2, <1>14 DEF LIInv, avars
<1>. QED
  BY <1>3, <1>4, <1>5, <1>6, <1>7, <1>8, <1>9, <1>10, <1>11, <1>12, <1>13,
     <1>14
  DEF LibraryNext, LinkingTestNext, avars

(***************************************************************************)
(* The words shown are at their ranks, the arguments taken are those of    *)
(* the conversions passed, and the buffer holds what the next jump needs,  *)
(* through every call of print_many (print.c:35-73) and every step of      *)
(* linking_test (linking_test.c), for every format and every argument.     *)
(***************************************************************************)
THEOREM LibraryInvariant == LibrarySpec => []LIInv
<1>. QED  BY LibraryStart, LibraryStep, PTL DEF LibrarySpec, avars

(***************************************************************************)
(* print_many sees every word of every format once and in order, whatever  *)
(* its characters, its length and the place of its delimiters              *)
(* (print.c:44-70).                                                        *)
(***************************************************************************)
THEOREM WordsOnceInOrder == LibrarySpec => []WordsSeen
<1>1. LIInv => WordsSeen
  <2>. SUFFICES ASSUME LIInv PROVE WordsSeen
    OBVIOUS
  <2>1. Apart(WordsOf(format))
    BY LenProperties, WordsApart DEF LIInv, PrintInv
  <2>2. CASE printer = "idle"
    BY <2>2 DEF WordsSeen
  <2>3. CASE printer # "idle"
    <3>1. /\ Ranked(shown, WordsOf(format))
          /\ Len(shown) <= Cardinality(WordsOf(format))
          /\ printer = "done" => Len(shown) = Cardinality(WordsOf(format))
      BY <2>3 DEF LIInv, PrintInv
    <3>. QED  BY <2>1, <3>1, RankedIsPrefix DEF WordsSeen
  <2>. QED  BY <2>2, <2>3
<1>. QED  BY <1>1, LibraryInvariant, PTL

(***************************************************************************)
(* When the arguments are those that the format calls for, no va_arg goes  *)
(* past them or asks for another type, and print_many takes them all: an   *)
(* improper word takes none (print.c:51-65, 83-162).                       *)
(***************************************************************************)
THEOREM ArgumentsAreTaken == LibrarySpec => [](args = ArgumentsFor(format) => ArgumentsMatch)
<1>1. LIInv => (args = ArgumentsFor(format) => ArgumentsMatch)
  <2>. SUFFICES ASSUME LIInv, args = ArgumentsFor(format) PROVE ArgumentsMatch
    OBVIOUS
  <2>1. Len(args) = Cardinality(ConversionsOf(format))
    BY LenProperties, ArgumentsRanked DEF LIInv, PrintInv
  <2>. QED  BY <2>1 DEF LIInv, ArgsInv, ArgumentsMatch
<1>. QED  BY <1>1, LibraryInvariant, PTL

(***************************************************************************)
(* Each longjmp of linking_test lands at the setjmp that expects its       *)
(* value, only a failed test aborts, and a main that returns has run the   *)
(* nine tests and destroyed what they left (linking_test.c:26-82).         *)
(***************************************************************************)
THEOREM JumpsLandWhereExpected == LibrarySpec => []JumpsLand
<1>1. LIInv => JumpsLand
  BY DEF LIInv, JumpInv, JumpsLand, CallsPlaces, JumpsPlaces, TestsPlaces
<1>. QED  BY <1>1, LibraryInvariant, PTL

-----------------------------------------------------------------------------
(***************************************************************************)
(* The answer of to_string: none yet, null, the text in one block, or null *)
(* for a negative number whose digits could not be allocated.              *)
(***************************************************************************)
AnswerInv ==
  /\ request \in LLONG_MIN .. ULLONG_MAX
  /\ \/ answer \in {None, Outcome("ok", {}, Null)}
     \/ /\ answer.status = "ok" /\ answer.live = {1} /\ answer.result.at = 1
        /\ Shows(answer.result.text, request)
     \/ request < 0 /\ answer = Outcome("undefined", {1}, Null)

\* Before the first call there is no answer.
LEMMA AnswerStart == LibraryInit => AnswerInv
<1>1. 0 \in LLONG_MIN .. ULLONG_MAX
  BY Limits
<1>. QED  BY <1>1 DEF LibraryInit, ClientInit, AnswerInv

\* Every call of to_string answers so; printing leaves the answer alone.
LEMMA AnswerStep ==
  AnswerInv /\ [LibraryNext]_<<pvars, lvars, request, answer>> => AnswerInv'
<1>. SUFFICES ASSUME AnswerInv, [LibraryNext]_<<pvars, lvars, request, answer>>
              PROVE  AnswerInv'
  OBVIOUS
<1>1. CASE UNCHANGED <<request, answer>>
  BY <1>1 DEF AnswerInv, None
<1>2. CASE to_string
  <2>1. request' = request /\ request \in LLONG_MIN .. ULLONG_MAX
    BY <1>2 DEF to_string, AnswerInv
  <2>2. CASE request <= LLONG_MAX /\ answer' \in to_string_i({}, request)
    <3>1. request \in LLONG_MIN .. LLONG_MAX
      BY <2>1, <2>2, Limits
    <3>. QED  BY <2>1, <2>2, <3>1, ToStringI DEF AnswerInv
  <2>3. CASE request >= 0 /\ answer' \in to_string_u({}, request)
    <3>1. request \in 0 .. ULLONG_MAX
      BY <2>1, <2>3, Limits
    <3>2. answer' \in {Outcome("ok", {}, Null),
                       Outcome("ok", {1}, [at |-> 1, text |-> written[request]])}
      BY <2>3, <3>1, ToStringU, FirstBlock
    <3>3. CASE answer' = Outcome("ok", {1}, [at |-> 1, text |-> written[request]])
      <4>1. answer'.status = "ok" /\ answer'.live = {1} /\ answer'.result.at = 1
            /\ answer'.result.text = written[request]
        BY <3>3 DEF Outcome
      <4>. QED  BY <2>1, <3>1, <4>1, ShowsNatural DEF AnswerInv
    <3>. QED  BY <2>1, <3>2, <3>3 DEF AnswerInv
  <2>. QED  BY <1>2, <2>2, <2>3 DEF to_string
<1>. QED  BY <1>1, <1>2 DEF LibraryNext

(***************************************************************************)
(* to_string gives the decimal text of every number (c_string.c:101-180),  *)
(* however large a long long is.                                           *)
(***************************************************************************)
THEOREM TextOfEveryNumber == LibrarySpec => []TextIsRight
<1>1. AnswerInv => TextIsRight
  <2>. SUFFICES ASSUME AnswerInv PROVE TextIsRight
    OBVIOUS
  <2>1. CASE answer \in {None, Outcome("ok", {}, Null)}
    BY <2>1 DEF TextIsRight, None, Outcome, Null
  <2>2. CASE /\ answer.status = "ok" /\ answer.live = {1} /\ answer.result.at = 1
             /\ Shows(answer.result.text, request)
    BY <2>2 DEF TextIsRight
  <2>3. CASE request < 0 /\ answer = Outcome("undefined", {1}, Null)
    <3>1. answer.status = "undefined" /\ answer.live = {1}
      BY <2>3 DEF Outcome
    <3>2. Cardinality({1}) = 1
      BY FS_Singleton
    <3>. QED  BY <2>3, <3>1, <3>2 DEF TextIsRight
  <2>. QED  BY <2>1, <2>2, <2>3 DEF AnswerInv
<1>. QED  BY AnswerStart, AnswerStep, <1>1, PTL DEF LibrarySpec
=============================================================================
