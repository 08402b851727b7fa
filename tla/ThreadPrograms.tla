---------------------------- MODULE ThreadPrograms ----------------------------
(***************************************************************************)
(* The small programs about the life of threads and shared data: of ch15   *)
(* all, of ch16 heap_stack.c, stack_shared_var.c, race_to_data_mutex.c,    *)
(* race_to_data_sem.c and ExtremeC_examples_chapter16_5_raw.c.  A program  *)
(* is a table of operations, those of main() and those of each thread's    *)
(* body; a behaviour runs one of them.  An operation is one step unless    *)
(* another thread can see it half done.                                    *)
(*                                                                         *)
(* Any pthread_create, malloc, sem_open and pthread_attr_setstack may      *)
(* fail; joins and detachments of valid handles do not.  What the C        *)
(* standard leaves undefined ends the behaviour, except where the outcome  *)
(* is one of a few.                                                        *)
(***************************************************************************)
EXTENDS Rendezvous, Integers, Sequences, FiniteSetsExt

CONSTANTS
  Length,    \* cells of the shared array (20 in the program)
  MaxRuns,   \* bound on the number of times a program is started
  Absent     \* "value" of a lock that does not exist

ASSUME ThreadProgramsAssumption ==
  /\ Threads = 1 .. 5
  /\ Barriers = {1, 2} /\ barrier_thread_limit = [b \in Barriers |-> 2]
  /\ Length \in Nat /\ Length >= 4 /\ Length % 2 = 0
  /\ MaxRuns \in Nat \ {0}
  /\ Absent \notin Int

-----------------------------------------------------------------------------
(***************************************************************************)
(* The programs.  An operation has an argument (a thread, a number, a      *)
(* barrier, a cell) and touches an object: "main" is the stack of main(),  *)
(* "local" that of the first thread, "block" the memory of malloc, "lock"  *)
(* the spin lock or semaphore, and "static" whatever lives as long as the  *)
(* process.  A mutated form of a program precedes it; no specification     *)
(* uses it.                                                                *)
(***************************************************************************)
Op(name, arg, object) == [name |-> name, arg |-> arg, object |-> object]

Do(name) == <<Op(name, 0, "static")>>
Each(name, n) == [i \in 1 .. n |-> Op(name, i, "static")]
exit_if_failed(status) == <<Op("check", status, "static")>>

\* The usual main(): create all, check, join (or detach) all, check.
Starts(n) == Each("create", n) \o exit_if_failed(1)
Waits(n) == Each("join", n) \o exit_if_failed(2)

\* A body that only prints an object.
Says(object) == <<Op("say", 0, object)>>

join_thread ==
  [main |-> Starts(1) \o Waits(1) \o Do("return"), body |-> <<Says("static")>>]

detach_thread ==
  [main |-> Starts(1) \o Each("detach", 1) \o exit_if_failed(2) \o Do("pthread_exit"),
   body |-> <<Says("static")>>]

race ==
  [main |-> Starts(3) \o Waits(3) \o Do("pthread_exit"),
   body |-> [t \in 1 .. 3 |-> Says("static")]]

race_corrupt_memory ==
  [main |-> Starts(3) \o Each("detach", 3) \o exit_if_failed(2) \o Do("pthread_exit"),
   body |-> [t \in 1 .. 3 |-> Says("main")]]

\* The second thread runs on a stack that main() allocated.
heap_stack ==
  [main |-> Do("malloc") \o Each("create", 1) \o Do("setstack")
              \o <<Op("create", 2, "block")>> \o exit_if_failed(2)
              \o Each("join", 2) \o exit_if_failed(3) \o Do("free") \o Do("return"),
   body |-> <<Says("static"), Says("block")>>]

\* Mutated form of stack_shared_var: the second thread takes the barriers in
\* the other order.
stack_shared_varCrossed ==
  [main |-> Each("create", 2) \o Each("join", 2) \o Do("return"),
   body |-> <<Do("publish") \o Each("wait", 2),
              <<Op("wait", 2, "main"), Op("read", 0, "local"), Op("wait", 1, "main")>>>>]

\* A failed pthread_create is only logged.
stack_shared_var ==
  [main |-> Each("create", 2) \o Each("join", 2) \o Do("return"),
   body |-> <<Do("publish") \o <<Op("wait", 1, "main"), Op("wait", 2, "main")>>,
              <<Op("wait", 1, "main"), Op("read", 0, "local"), Op("wait", 2, "main")>>>>]

\* printf of the sum, which lives in an object.
Shows(object) == <<Op("load", 0, object)>> \o Do("show")

\* race_to_data.s: load, add in a register, store.
race_to_data_s ==
  [main |-> Starts(2) \o Waits(2) \o Do("report") \o Do("return"),
   body |-> [n \in 1 .. 2 |-> <<Op("load", n, "main"), Op("store", n, "main")>>
                                \o Shows("main")]]

race_to_data ==
  [main |-> Starts(2) \o Waits(2) \o Do("report") \o Do("pthread_exit"),
   body |-> [n \in 1 .. 2 |-> <<Op("add", n, "main")>> \o Shows("main")]]

\* Mutated form of AddsLocked: the sum is read after the lock is given back.
AddsLockedShownLate(n) ==
  <<Op("lock", 0, "lock"), Op("load", n, "main"), Op("store", n, "static"),
    Op("unlock", 0, "lock")>> \o Shows("static")

\* thread_body of both programs with a lock: the ingredient is on the stack of
\* main(), the sum is a global variable.
AddsLocked(n) ==
  <<Op("lock", 0, "lock"), Op("load", n, "main"), Op("store", n, "static")>>
    \o Shows("static") \o <<Op("unlock", 0, "lock")>>

\* The report is of a local variable of main() that hides the sum.
race_to_data_mutex ==
  [main |-> Do("spin_init") \o Starts(3) \o Waits(3) \o Do("close")
              \o Do("report_hidden") \o Do("return"),
   body |-> [n \in 1 .. 3 |-> AddsLocked(n)]]

\* Mutated form of race_to_data_sem: one join too few.
race_to_data_semTwoJoins ==
  [main |-> Do("sem_open") \o Starts(3) \o Waits(2) \o Do("close")
              \o Do("report") \o Do("return"),
   body |-> [n \in 1 .. 3 |-> AddsLocked(n)]]

race_to_data_sem ==
  [main |-> Do("sem_open") \o Starts(3) \o Waits(3) \o Do("close")
              \o Do("report") \o Do("return"),
   body |-> [n \in 1 .. 3 |-> AddsLocked(n)]]

\* Mutated form of alloc_thread_body: the length is set after the pointer.
alloc_thread_bodySwapped == Do("malloc") \o Do("set_length")

alloc_thread_body == Do("set_length") \o Do("malloc")

\* The letters, then shared_array[shared_array_len - 1]: the compiled code loads
\* the pointer before the length.
filler_thread_body(start_index) ==
  [k \in 1 .. Length \div 2 |-> Op("cell", start_index + 2 * (k - 1), "block")]
    \o Do("load_pointer") \o <<Op("terminate", 0, "block")>>

alloc == 1
even_filler == 2
odd_filler == 3
printer == 4
dealloc == 5

shared_array_raw ==
  [main |-> [i \in 1 .. 10 |-> IF i % 2 = 1 THEN Op("create", (i + 1) \div 2, "static")
                                            ELSE Op("check", 1, "static")]
              \o Do("pthread_exit"),
   body |-> <<alloc_thread_body, filler_thread_body(0), filler_thread_body(1),
              Do("print_array"), Do("free")>>]

Program ==
  [join_thread |-> join_thread, detach_thread |-> detach_thread, race |-> race,
   race_corrupt_memory |-> race_corrupt_memory, heap_stack |-> heap_stack,
   stack_shared_var |-> stack_shared_var, race_to_data |-> race_to_data,
   race_to_data_s |-> race_to_data_s, race_to_data_mutex |-> race_to_data_mutex,
   race_to_data_sem |-> race_to_data_sem, shared_array_raw |-> shared_array_raw]

-----------------------------------------------------------------------------
VARIABLES
  program,    \* the program that runs: its name and its operations
  runs,       \* times it has been started
  outcome,    \* of the process: running, exited, killed, aborted or undefined
  status,     \* its exit status
  stray,      \* the object by which it became undefined
  at,         \* of main() (0) and each thread, its next operation; 0 if unborn
  after,      \* history: the threads that had ended when a thread began
  failed,     \* the threads whose creation failed
  joinable,   \* the threads neither joined nor detached
  reported,   \* the sum printed by main(), or -1
  found,      \* history: value of the lock when it was initialised or opened
  lock,       \* value of the spin lock or of sem14, which outlives the process
  memory,     \* shared_var, shared_int, the block, the shared array
  register,   \* what each thread has loaded
  shown       \* the sums printed by the threads, in order

process == <<program, runs, outcome, status, stray>>
control == <<failed, joinable, reported, found>>
data == <<lock, memory, register, shown>>
vars == <<process, at, after, control, data, avars>>

Code(t) == IF t = 0 THEN program.main ELSE program.body[t]
Workers == DOMAIN program.body

Over(t) == at[t] > Len(Code(t))
Ended == {t \in Workers : Over(t)}

Ready(t) == outcome = "running" /\ at[t] > 0 /\ ~ Over(t)
Now(t) == Code(t)[at[t]]
Arg(t) == Now(t).arg
Does(t, name) == Ready(t) /\ Now(t).name = name

\* The objects that do not exist, not yet or no more.
Dead ==
  {object \in {"main", "local", "block", "lock"} :
     CASE object = "main"  -> Over(0)
       [] object = "local" -> memory.shared_int = "null" \/ Over(1)
       [] object = "block" -> memory.block # "live"
       [] object = "lock"  -> \E i \in 1 .. at[0] - 1 : program.main[i].name = "close"}

-----------------------------------------------------------------------------
(***************************************************************************)
(* The choices of the code that the actions are built from, with mutated   *)
(* forms that no specification uses.                                       *)
(***************************************************************************)

Failures == failed

Available == lock > 0

\* Mutated form of AfterUnlock: unlocked twice.
AfterUnlockTwice == lock + 2

AfterUnlock == lock + 1

\* Mutated form of LastCell: one cell too low.
LastCellLow == memory.len - 2

LastCell == memory.len - 1

-----------------------------------------------------------------------------
\* A process starts; only sem14 may be older than it.
ProgramsInit ==
  /\ \E name \in DOMAIN Program :
       program = [name |-> name, main |-> Program[name].main, body |-> Program[name].body]
  /\ runs = 1 /\ lock = Absent
  /\ outcome = "running" /\ status = 0 /\ stray = "none"
  /\ at = [t \in 0 .. 5 |-> IF t = 0 THEN 1 ELSE 0]
  /\ after = [t \in Threads |-> {}]
  /\ failed = {} /\ joinable = {} /\ reported = -1 /\ found = Absent
  /\ memory = [shared_var |-> 0, shared_int |-> "null", block |-> "null", len |-> 0,
               cells |-> [i \in 0 .. Length - 1 |-> "garbage"]]
  /\ register = [t \in Threads |-> 0]
  /\ shown = <<>>
  /\ Init

Goto(t, place) ==
  /\ at' = [at EXCEPT ![t] = place]
  /\ after' = IF t # 0 /\ at[t] = 1 THEN [after EXCEPT ![t] = Ended] ELSE after

\* An operation of t that touches nothing dead.
Works(t, name) ==
  /\ Does(t, name)
  /\ Now(t).object \notin Dead
  /\ Goto(t, at[t] + 1)
  /\ UNCHANGED <<process, avars>>

Ends(how, code) ==
  /\ outcome = "running"
  /\ outcome' = how /\ status' = code
  /\ UNCHANGED <<program, runs, stray, at, after, control, data, avars>>

-----------------------------------------------------------------------------
\* main()

pthread_create ==
  /\ Does(0, "create")
  /\ Now(0).object \notin Dead
  /\ \/ /\ at' = [at EXCEPT ![0] = @ + 1, ![Arg(0)] = 1]
        /\ joinable' = joinable \cup {Arg(0)}
        /\ UNCHANGED failed
     \/ /\ at' = [at EXCEPT ![0] = @ + 1]
        /\ failed' = failed \cup {Arg(0)}
        /\ UNCHANGED joinable
  /\ UNCHANGED <<process, after, reported, found, data, avars>>

CheckResults ==
  \/ Works(0, "check") /\ Failures = {} /\ UNCHANGED <<control, data>>
  \/ Does(0, "check") /\ Failures # {} /\ Ends("exited", Arg(0))

\* A handle that was never set may be found invalid, which is only logged.
pthread_join ==
  /\ Works(0, "join")
  /\ Arg(0) \in failed \/ Over(Arg(0))
  /\ joinable' = joinable \ {Arg(0)}
  /\ UNCHANGED <<failed, reported, found, data>>

pthread_detach ==
  /\ Works(0, "detach")
  /\ joinable' = joinable \ {Arg(0)}
  /\ UNCHANGED <<failed, reported, found, data>>

\* pthread_exit ends main(), and the last thread the process; return does both.
pthread_exit == Works(0, "pthread_exit") /\ UNCHANGED <<control, data>>

LastThreadEnds == (\A t \in 0 .. 5 : at[t] > 0 => Over(t)) /\ Ends("exited", 0)

Return == Does(0, "return") /\ Ends("exited", 0)

setstack ==
  \/ Works(0, "setstack") /\ UNCHANGED <<control, data>>
  \/ Does(0, "setstack") /\ Ends("exited", 1)

\* The report at the end, in race_to_data_mutex.c of the wrong variable.
Report ==
  /\ \/ Works(0, "report") /\ reported' = memory.shared_var
     \/ Works(0, "report_hidden") /\ reported' = 0
  /\ UNCHANGED <<failed, joinable, found, data>>

spin_init ==
  /\ Works(0, "spin_init")
  /\ lock' = 1 /\ found' = 1
  /\ UNCHANGED <<failed, joinable, reported, memory, register, shown>>

\* O_CREAT | O_EXCL, then O_EXCL alone, which opens what exists; when both fail
\* the assertion does.
sem_open ==
  \/ /\ Works(0, "sem_open")
     /\ lock' = IF lock = Absent THEN 1 ELSE lock
     /\ found' = lock'
     /\ UNCHANGED <<failed, joinable, reported, memory, register, shown>>
  \/ Does(0, "sem_open") /\ Ends("aborted", 0)

\* pthread_spin_destroy or sem_close.
Close == Works(0, "close") /\ UNCHANGED <<control, data>>

Main ==
  \/ pthread_create \/ CheckResults \/ pthread_join \/ pthread_detach
  \/ pthread_exit \/ LastThreadEnds \/ Return
  \/ setstack \/ Report \/ spin_init \/ sem_open \/ Close

-----------------------------------------------------------------------------
\* The threads; main() calls malloc and free too.

Touches(t, name) == Works(t, name) /\ UNCHANGED <<control, lock, register, shown>>

malloc(t) ==
  /\ Touches(t, "malloc")
  /\ \E block \in {"null", "live"} : memory' = [memory EXCEPT !.block = block]

\* Freeing a null pointer does nothing.
free(t) ==
  /\ Touches(t, "free")
  /\ memory' = [memory EXCEPT !.block = IF @ = "live" THEN "freed" ELSE @]

\* Prints a string, or the int in another thread's stack.
Say(t) == (Touches(t, "say") \/ Touches(t, "read")) /\ UNCHANGED memory

Publish(t) ==
  /\ Touches(t, "publish")
  /\ memory' = [memory EXCEPT !.shared_int = "local"]

Add(t) ==
  /\ Touches(t, "add")
  /\ memory' = [memory EXCEPT !.shared_var = @ + Arg(t)]

Load(t) ==
  /\ Works(t, "load")
  /\ register' = [register EXCEPT ![t] = memory.shared_var]
  /\ UNCHANGED <<control, lock, memory, shown>>

Store(t) ==
  /\ Touches(t, "store")
  /\ memory' = [memory EXCEPT !.shared_var = register[t] + Arg(t)]

Show(t) ==
  /\ Works(t, "show")
  /\ shown' = Append(shown, [thread |-> t, sum |-> register[t]])
  /\ UNCHANGED <<control, lock, memory, register>>

Lock(t) ==
  /\ Works(t, "lock")
  /\ Available
  /\ lock' = lock - 1
  /\ UNCHANGED <<control, memory, register, shown>>

Unlock(t) ==
  /\ Works(t, "unlock")
  /\ lock' = AfterUnlock
  /\ UNCHANGED <<control, memory, register, shown>>

\* pthread_barrier_wait: its call and its return.
Wait(t) ==
  /\ Does(t, "wait")
  /\ \/ (Gather(t, Arg(t)) \/ Complete(t, Arg(t))) /\ UNCHANGED <<at, after>>
     \/ Depart(t, Arg(t)) /\ Goto(t, at[t] + 1)
  /\ UNCHANGED <<process, control, data>>

SetLength(t) ==
  /\ Touches(t, "set_length")
  /\ memory' = [memory EXCEPT !.len = Length]

\* A turn of the loop, or its end.
Cell(t) ==
  \/ /\ Touches(t, "cell")
     /\ Arg(t) < memory.len
     /\ memory' = [memory EXCEPT !.cells[Arg(t)] = "letter"]
  \/ /\ Does(t, "cell")
     /\ Arg(t) >= memory.len
     /\ Goto(t, Length \div 2 + 1)
     /\ UNCHANGED <<process, control, data, avars>>

LoadPointer(t) ==
  /\ Works(t, "load_pointer")
  /\ register' = [register EXCEPT ![t] = IF memory.block = "null" THEN 0 ELSE 1]
  /\ UNCHANGED <<control, lock, memory, shown>>

Terminate(t) ==
  /\ Touches(t, "terminate")
  /\ register[t] = 1 /\ LastCell >= 0
  /\ memory' = [memory EXCEPT !.cells[LastCell] = "end"]

Terminated == \E i \in 0 .. Length - 1 : memory.cells[i] = "end"

\* printf of a null pointer prints "(null)"; garbage may hold a terminator.
PrintArray(t) ==
  Touches(t, "print_array") /\ memory.block # "freed" /\ UNCHANGED memory

\* Undefined behaviour: a dead object, a null pointer or an index that wrapped,
\* a read past the end of the array, a handle that was never set.
Strays(t, object) ==
  CASE Now(t).name = "cell"        -> /\ object = "block" /\ object \in Dead
                                      /\ Arg(t) < memory.len
    [] Now(t).name = "terminate"   -> \/ object = "null" /\ register[t] = 0
                                      \/ object = "wild" /\ register[t] = 1 /\ LastCell < 0
                                      \/ /\ object = "block" /\ object \in Dead
                                         /\ register[t] = 1
    [] Now(t).name = "print_array" -> \/ object = "block" /\ memory.block = "freed"
                                      \/ /\ object = "overrun" /\ ~ Terminated
                                         /\ memory.block = "live"
    [] Now(t).name = "join"        -> object = "handle" /\ Arg(t) \in failed
    [] OTHER                       -> object = Now(t).object /\ object \in Dead

GoesAstray(t) ==
  /\ Ready(t)
  /\ \E object \in {"main", "local", "block", "lock", "null", "wild", "overrun", "handle"} :
       Strays(t, object) /\ stray' = object
  /\ Goto(t, at[t] + 1)
  /\ outcome' = "undefined"
  /\ UNCHANGED <<program, runs, status, control, data, avars>>

Step(t) ==
  \/ malloc(t) \/ free(t) \/ Say(t) \/ Publish(t) \/ Add(t) \/ Load(t) \/ Store(t)
  \/ Show(t) \/ Lock(t) \/ Unlock(t) \/ Wait(t) \/ SetLength(t) \/ Cell(t)
  \/ LoadPointer(t) \/ Terminate(t) \/ PrintArray(t) \/ GoesAstray(t)

-----------------------------------------------------------------------------
(***************************************************************************)
(* Only race_to_data_sem leaves something behind, its semaphore: it may be *)
(* killed at any point and run again.                                      *)
(***************************************************************************)
Kill == program.name = "race_to_data_sem" /\ runs < MaxRuns /\ Ends("killed", 0)

Restart ==
  /\ program.name = "race_to_data_sem" /\ runs < MaxRuns
  /\ outcome # "running"
  /\ runs' = runs + 1
  /\ outcome' = "running"
  /\ at' = [t \in 0 .. 5 |-> IF t = 0 THEN 1 ELSE 0]
  /\ after' = [t \in Threads |-> {}]
  /\ failed' = {} /\ joinable' = {} /\ reported' = -1 /\ found' = Absent
  /\ memory' = [memory EXCEPT !.shared_var = 0]
  /\ register' = [t \in Threads |-> 0]
  /\ shown' = <<>>
  /\ UNCHANGED <<program, lock, stray, avars>>
  /\ status' = 0

ProgramsNext ==
  Main \/ (\E t \in Workers \cup {0} : Step(t)) \/ Kill \/ Restart

ProgramsSafetySpec == ProgramsInit /\ [][ProgramsNext]_vars

(***************************************************************************)
(* main() and every thread keep running while the process lives; nothing   *)
(* makes a process be killed or started again.                             *)
(***************************************************************************)
ProgramsSpec ==
  /\ ProgramsSafetySpec
  /\ WF_vars(Main \/ Step(0))
  /\ \A t \in Threads : WF_vars(t \in Workers /\ Step(t))

-----------------------------------------------------------------------------
TypeOK ==
  /\ program.name \in DOMAIN Program /\ runs \in 1 .. MaxRuns
  /\ outcome \in {"running", "exited", "killed", "aborted", "undefined"}
  /\ status \in 0 .. 3
  /\ stray \in {"none", "main", "local", "block", "lock",
                "null", "wild", "overrun", "handle"}
  /\ \A t \in Workers \cup {0} : at[t] \in 0 .. Len(Code(t)) + 1
  /\ after \in [Threads -> SUBSET Workers]
  /\ failed \subseteq Workers /\ joinable \subseteq Workers
  /\ reported \in -1 .. 6 /\ memory.shared_var \in 0 .. 6
  /\ lock \in {Absent, 0, 1} /\ found \in {Absent, 0, 1}
  /\ register \in [Threads -> 0 .. 6]

(***************************************************************************)
(* Nothing is used before or after its life, but for what the programs are *)
(* about: race_corrupt_memory's strings on the stack of a main() that has  *)
(* left, the unsynchronised array, and, when a call failed that the        *)
(* program goes on after, a null stack and a handle that was never set.    *)
(* Even in the unsynchronised array an index that wrapped is only ever     *)
(* applied to a null pointer: because the length is set before the         *)
(* pointer, no filler writes 4 GB past the block.                          *)
(***************************************************************************)
TouchesTheLiving ==
  outcome = "undefined" =>
    \/ program.name = "race_corrupt_memory" /\ stray = "main"
    \/ program.name = "heap_stack" /\ memory.block = "null"
    \/ program.name = "stack_shared_var" /\ stray = "handle"
    \/ program.name = "shared_array_raw" /\ stray # "wild"

(***************************************************************************)
(* The order that shared_heap.c enforces with its barriers is all that the *)
(* unsynchronised program lacks: fillers that begin after the allocation,  *)
(* a printer that begins after the fillers and a release that begins after *)
(* the printer do no harm, and the printer finds the whole string.  The    *)
(* odd filler, which overwrites the last cell, leaves it terminated.       *)
(***************************************************************************)
Needs ==
  [t \in Workers |-> CASE t = printer -> {even_filler, odd_filler}
                       [] t = dealloc -> {printer}
                       [] t = alloc   -> {}
                       [] OTHER       -> {alloc}]

InOrder(t) == at[t] > 1 => Needs[t] \subseteq after[t]

OrderedArrayIsWhole ==
  program.name = "shared_array_raw" =>
    /\ (\A t \in Workers : InOrder(t)) =>
         /\ outcome = "undefined" => memory.block = "null"
         /\ Over(printer) /\ memory.block = "live" =>
              \A i \in 0 .. Length - 1 :
                memory.cells[i] = IF i = Length - 1 THEN "end" ELSE "letter"
    /\ Over(odd_filler) /\ InOrder(odd_filler) /\ memory.block = "live" =>
         memory.cells[Length - 1] = "end"

(***************************************************************************)
(* The sum is that of the ingredients added so far, whether the addition   *)
(* is atomic or done under a lock.  Where it is a load and a store the sum *)
(* is that of some of them, not of none.  Under a lock the sums that are   *)
(* printed grow, whoever prints them.                                      *)
(***************************************************************************)
Locked == {"race_to_data_mutex", "race_to_data_sem"}
Counting == Locked \cup {"race_to_data", "race_to_data_s"}

Added ==
  {t \in Workers : \E i \in 1 .. at[t] - 1 : Code(t)[i].name \in {"add", "store"}}

AdditionsKept ==
  /\ program.name \in Counting =>
       IF program.name = "race_to_data_s"
         THEN \E T \in SUBSET Added :
                memory.shared_var = SumSet(T) /\ (T = {} => Added = {})
         ELSE memory.shared_var = SumSet(Added)
  /\ program.name \in Locked =>
       \A i, j \in 1 .. Len(shown) : i < j => shown[i].sum < shown[j].sum

(***************************************************************************)
(* One thread at a time holds the lock; what it holds and what is left is  *)
(* what main() found.  sem14 may be found empty, but only after a run that *)
(* ended, or was killed, while a thread held it, and then nothing is added *)
(* or printed.                                                             *)
(***************************************************************************)
Holds(t) ==
  LET done(name) == {i \in 1 .. at[t] - 1 : Code(t)[i].name = name}
  IN  Cardinality(done("lock")) > Cardinality(done("unlock"))

LockExclusive ==
  found # Absent =>
    /\ lock + Cardinality({t \in Workers : Holds(t)}) = found
    /\ found = 0 => runs > 1 /\ Added = {} /\ shown = <<>>

(***************************************************************************)
(* With the types: neither the spin lock nor sem14 is ever above one, in   *)
(* a first run or in one that found what a killed one left.                *)
(***************************************************************************)
LockKept == TypeOK /\ LockExclusive

(***************************************************************************)
(* A process that exits with status 0 has done its work: every thread was  *)
(* created and has ended, none is left to be joined, the stack on the heap *)
(* is freed, and the report is the sum (some sum in race_to_data.s, always *)
(* 0 in race_to_data_mutex).  stack_shared_var exits with status 0 when    *)
(* it could create neither of its threads.                                 *)
(***************************************************************************)
SuccessMeansDone ==
  outcome = "exited" /\ status = 0 =>
    \/ program.name = "stack_shared_var" /\ failed = Workers
    \/ /\ failed = {} /\ Ended = Workers
       /\ joinable = {} \/ program.name = "shared_array_raw"
       /\ program.name = "heap_stack" => memory.block = "freed"
       /\ program.name \in Counting =>
            reported = IF program.name = "race_to_data_mutex" THEN 0 ELSE memory.shared_var

(***************************************************************************)
(* A process whose threads exist, and that did not find sem14 empty, ends. *)
(***************************************************************************)
AllStarted == outcome = "running" /\ found # 0 /\ \A t \in Workers : at[t] > 0

EndsOnceStarted == AllStarted ~> outcome # "running"
=============================================================================
