# TLA+ models of the bookExtremeC programs

The repository is a set of small C programs about threads (`ch15/`, `ch16/`),
a launcher that runs them, and a library of string and logging helpers. This
directory holds TLA+ modules for the parts whose correctness depends on the
order in which things happen, TLC configurations that check them on small
instances, and TLAPS proofs for every instance.

`PROJECT.json` is the index: components, runs, the source lines of every
definition, the hazards each property is aimed at, and the theorems.

## 1. Inventory

| Component | Source | State | Operations | What is hard | What makes it correct |
|---|---|---|---|---|---|
| Condition-variable barrier | `ch16/h2o.c` 25-47, `ch16/shared_heap.c` 34-73 | mutex, condition variable, `barrier_thread_count`, `barrier_round`, each caller's `my_round` | `barrier_init`, `barrier_wait`, `barrier_destroy` | late and spurious wakeups, reuse for the next round, a counter that wraps | callers leave a round together, none early, nobody left behind |
| Molecule program | `ch16/h2o.c` | two named semaphores, oxygen mutex, barrier, molecule counter, 450 threads | thread bodies, `semaphore_initial`, `create_threads`, joins, `semaphore_close` at exit | tokens given back early, failing calls, semaphores that outlive a killed process | every round is one molecule; tokens are conserved; it ends |
| Shared array program | `ch16/shared_heap.c` | the array, its pointer and length, three barriers, six detached threads | allocate, fill, print, free, destroy | two writers and two readers without a lock, freeing, destroying barriers in use | readers see a complete string; nothing is used after it is freed |
| Ordered printing, condition variable | `ch16/race_cond_var.c` | letter to print, mutex, condition variable | wait for a letter, print, hand on | one condition variable for three conditions | A, B, C in order; all end |
| Ordered printing, barriers | `ch16/race_barrier.c` | two library barriers shared by three threads | wait, print, wait | a barrier per pair of threads | A, B, C in order; all end |
| Stack variable shared | `ch16/stack_shared_var.c` | pointer into a thread's stack, two barriers | publish, read, leave | life time of a stack; a failed creation is only logged | the read happens while the stack lives |
| Bounded stack | `ch16/ExtremeC_examples_chapter16_6.c` | items, size, recursive mutex | `my_stack_push`, `my_stack_pop`, `my_stack_full`, `my_stack_empty` | check, unlock, lock again; lock depth | a bounded stack; no push lost |
| Unsynchronised array | `ch16/ExtremeC_examples_chapter16_5_raw.c` | as the shared array, no barriers | the same | every order, a length of zero | shows what the barriers are for |
| Shared counters | `ch15/race_to_data.c`, `.s`, `ch16/race_to_data_mutex.c`, `ch16/race_to_data_sem.c` | a counter, a spin lock or named semaphore | add and print | an increment is three instructions; a semaphore left over | the sum of all increments |
| Thread life times | `ch15/join_thread.c`, `detach_thread.c`, `race.c`, `race_corrupt_memory.c`, `ch16/heap_stack.c` | handles, arguments, a stack on the heap | create, join, detach, exit | arguments that die before they are read | no read of a dead object |
| Launcher | `main.c`, `test.c`, `system.c` | loop counters, result | `launch_execs_in_directory`, `call_system`, `execute`, `test` | wait status and exit status | stops at the first failure and reports it |
| Strings | `c_string.c`, `allocate.c` | heap blocks | `concatenate_many`, `concatenate_many_free_args`, `digits`, `to_string` | ownership when memory runs out; extreme integers | no leak, no double free; the right text |
| Typed logging | `print.c`, `print.h` | position in the format and in the argument list | `print_many`, `assert_many` | the two positions must agree | every argument is read as what it is |
| Linking test | `linking_test.c`, `singleton.h`, `shared_lib_open.c`, `utility.c` | jump buffer, library handle | `tests`, lazy initialisation | `longjmp` into a live frame | each stage runs once |

How they interact: the launcher starts the other programs as processes and sees
only their wait status. Within a program threads interact through mutexes,
condition variables, barriers, semaphores and shared memory. Named semaphores
are shared with *later* runs of the same program. All programs log through
`print.c`; logging changes no state the properties are about.

## 2. What is modelled

### Rendezvous: the promise of a barrier

`gathering` and `released` of each barrier. A caller joins the gathering; the
one that completes it releases everybody, itself included, in one step, and
only when nobody of the round before is still inside; a released caller departs
on its own. It stands for `barrier_wait` as its callers see it and for
`pthread_barrier_wait` in BarrierOrder, which uses the library's barrier.

### CvBarrier: `barrier_wait`

The code of both programs, statement by statement, as far as another thread
can run in between. `bpc[t]` is the place of thread `t`:

| `bpc` | place in `shared_heap.c` |
|---|---|
| `out` | not in `barrier_wait` |
| `lock` | at `pthread_mutex_lock`, line 60 |
| `arrive` | holds the mutex, lines 61-67 |
| `asleep` | in `pthread_cond_wait`, line 69 |
| `relock` | woken, must take the mutex again before line 69 returns |
| `recheck` | holds the mutex, at the loop condition, line 70 |
| `unlock` | holds the mutex, at line 72 |

`barrier_thread_count` and `barrier_round` are the fields of the barrier;
`my_round` is the local variable. `barrier_round` counts modulo `RoundMod`
(2^32 in the program). Several barriers and any number of threads are
parameters. The most general caller, `Call`, enters any barrier at any time,
but never more threads than the limit are inside one at a time. This is an
assumption about the programs, so H2O and SharedHeap have to show it of
themselves (`UsesBarrier`, `UsesBarriers`): every step they make is a step of
`BarrierNext`. Their runs check it, and section 4 has the proofs for all sizes.

### H2O and H2ORestart: `ch16/h2o.c`

H2O extends CvBarrier with one barrier. `tpc[t]` is the place of a thread in its
body: `unborn`, `start` (at `sem_wait` or at the mutex), `barrier` (holds its
token, in `barrier_wait` or back from it), `done`. `mpc` walks through `main()`:
open `carbon`, open `hydrogen`, `create`, `join`, `close_hydrogen`,
`close_carbon` (the `atexit` handler), `exit`, `exited`; `faulted` when a thread used a
semaphore that is not open. `sem` is the value of the named semaphores, which
survive the process; `handle` is the pointer of the process (`unset`, `null`
when both `sem_open` calls failed, `open`, `closed`). `found`, the value of a
semaphore when it was opened, is a history variable.

`sem_open` and `pthread_create` may fail; joins and closes of valid handles do
not. `sem_wait` together with the call of `barrier_wait` is one step, as are
counting the molecule and unlocking `oxygen_mutex`: nobody can see what is in
between. Threads of one kind are alike, so `create_threads` may take them in
any order within their kind.

The barrier's limit (9, line 198) and the initial values of the semaphores (2
and 6, lines 186 and 187) are literals written apart. `H2OAssumption` takes from
the source that the limit is their sum plus one, for the one oxygen; it is an
assumption of the runs and of the proofs, not something they check. A
disagreement is tried from the other side: with one token more than the limit
allows (`InitialValueOneMore`) `UsesBarrier` fails, and with fewer, after a
kill, no round completes (`ShortRunsMakeNothing`).

H2ORestart adds `Rerun`: at any time the process is gone, killed or at its end,
and a new one starts from `main()` with the semaphores as they are.

### SharedHeap: `ch16/shared_heap.c`

Extends CvBarrier with three barriers. `tpc[t]`: `unborn`, `start`, `first` (in
or back from the first barrier it calls), `fill`, `printing`, `second` (in or
back from the second barrier), `destroy`, `done`. Cells hold the filler whose
letter they contain (or nothing, or the terminator). One cell is written in a
step; a print has a start and an end. `malloc` may return a null pointer, which
the code does not check, and a store through it ends the process. `malloc`
takes eight bytes for each cell; a store past the last cell is counted as a
fault here although it would still hit the block, so the model is stricter than
the machine. The number of printers is a parameter (two in the program, with
limits 3, 4 and 3).

A destroyed barrier still lets go of the threads it has released; the standard
does not promise this, and `heap_destroy` shows that the program relies on it.

### Relay, PrintOrder and BarrierOrder: `ch16/race_cond_var.c`, `ch16/race_barrier.c`

Both programs print A, B and C in order; Relay says just that: the output is
always a prefix of `Order` and grows by one letter at a time. The programs'
tables of three threads become tables for `N` threads.

In PrintOrder `pc[t]` is the place of a thread: `lock` (line 52), `test` and
`retest` (holds the mutex, at the condition of line 53 for the first time or
after a wait), `asleep`, `relock` (line 54), `broadcast` (line 61), `unlock`
(line 62), `done`. `actual_print` is the field of the shared state; `print` and
`next_print` are the constants of line 96. Taking a letter, logging it and
setting the next one is one step under the mutex. `main` is the place of
`main()`, which initialises the mutex and the condition variable one after the
other (lines 36-41), creates the threads, joins them one at a time (`joined` is
the index of the loop of lines 117-121), destroys the two objects one after the
other (lines 43-47) and returns. `objects` are those initialised and not
destroyed. Neither the threads nor the destructions look at it, or at each
other: that nobody has still to use an object that is gone (`NoUseAfterDestroy`)
rests on the joins alone. With a loop that begins at 1 the thread of the last
letter is left behind, asleep or before line 52, when the objects go.

BarrierOrder extends Rendezvous: thread `t` shares barrier `t - 1` with its
predecessor and barrier `t` with its successor (lines 51-54), the first and the
last having only one. `objects` are the barriers between their initialisation
and their destruction. A call of a library barrier is two steps, joining the
gathering and returning.

Failing `pthread_create` (and, in BarrierOrder, `pthread_barrier_init`) ends the
process; joins and destructions of valid objects are taken to succeed.

### ThreadPrograms: the small programs

Eleven programs are too small for a module each and alike in what they do: they
create, join or detach threads, and the threads touch an object whose life is
someone else's. ThreadPrograms holds a table for each of them, the operations
of `main()` and of each thread's body in the order of the source, and one action
for each kind of operation. A behaviour runs one program. `at[t]` is the place
of a thread in its table (0 is `main()`); an operation is one step unless
another thread can see it half done:

| Program | Source | What the table is about |
|---|---|---|
| `join_thread`, `detach_thread`, `race` | `ch15/` | create, check, join or detach, end |
| `race_corrupt_memory` | `ch15/` | strings on the stack of a `main()` that leaves by `pthread_exit` |
| `heap_stack` | `ch16/` | a thread whose stack is a buffer that `main()` frees |
| `stack_shared_var` | `ch16/` | a variable on a thread's stack, read between two barriers (Rendezvous) |
| `race_to_data_s`, `race_to_data` | `ch15/race_to_data.s`, `.c` | the increment as load and store, and atomic |
| `race_to_data_mutex`, `race_to_data_sem` | `ch16/` | under a spin lock, under the named semaphore `sem14` |
| `shared_array_raw` | `ch16/ExtremeC_examples_chapter16_5_raw.c` | five detached threads and no barrier |

Each operation names the object it touches; `Dead` says which objects do not
exist at the moment, and touching one ends the behaviour as `undefined`, with
the object in `stray`. Any `pthread_create`, `malloc`, `sem_open` and
`pthread_attr_setstack` may fail; the code then exits, goes on or hangs, as it
does. In `shared_array[shared_array_len - 1] = '\0'` the compiled code (`-O0`)
loads the pointer before the length, so these are two steps. `race_to_data_sem`
may be killed and run again: the semaphore stays as it is. For the last store,
the print and the sums, registers and printed values are kept as history.

### CString and Launcher: `c_string.c`, `test.c`, `main.c`, `system.c`

CString has the functions of `c_string.c` as operators. Since `malloc` may fail
an operator gives the set of its outcomes: a status (`ok`, `exit`, `abort`,
`undefined`), the live blocks and the string returned. A string is a pointer
(to nothing, to a literal, to a block) with its text. `concatenate_many` and
`concatenate_many_free_args` take one `Turn`, the body of their loop, for each of
the arguments before the first null pointer. `digits_u`, `digits_negative` and
`written` are the loops over decimal digits as recursive functions; `ValueOf`
stands for `strtoull` and `atoll` in the assertions. `LLONG_MAX` is the constant of
limits.h; `LLONG_MIN` and `ULLONG_MAX` follow from it as in two's complement.

Launcher is the process `test`, which runs `./main` a number of times, first
plain, then under valgrind, and `./main`, which runs programs through
`call_system` in nested loops. `tester` and `main` hold the loop variables of
the two; a program is any status `system()` may return. The processes know of
each other only that status, and an exit status has eight bits. `Calls` are the
executables and repetitions of `test_threading`; `ran` keeps which program ended
with which status since `./main` started. The argument of `test()` is
also taken improper, which leads through `to_string` and
`concatenate_many_free_args` to the message that `LOG_EXIT_FREE` frees.

### PrintMany, LinkingTest and Library: `print.c`, `linking_test.c`

PrintMany is the loop of `print_many`, one turn a step: `first` is where the
rest of the format begins, `used` how many arguments `va_arg` has taken,
`shown` the words seen. A format is a sequence of characters, an argument its
type. `WordsOf`, the longest parts without a delimiter, and `ArgumentsFor` say
what a caller expects, of the format as a whole. The `va_list` is an array, as
on x86-64, so that `case_1` to `case_3` advance the one of their caller; on a
platform where it is not, the program would print the first argument again and
again.

LinkingTest is the flow of `linking_test.c`: three calls of `print_many` with
their formats and argument types, the jump out of `test_print_many`, the second
`setjmp` in the same buffer, the jump from `utility.c`, the nine tests, `at_exit`.

Library puts these and CString together: its clients are linking_test itself,
or a program that makes one call, of `print_many` with any short format or of
`to_string` with any number.

### BoundedStack and MyStack: `ch16/ExtremeC_examples_chapter16_6.c`

BoundedStack is a sequence with atomic `Push` and `Pop`. MyStack has the fields
of `my_stack_t`, the recursive mutex as `owner` and `depth`, and for each thread
its place in the nested calls:

| `pc` | place of a pusher | locks |
|---|---|---|
| `test`, `look`, `looked` | `my_stack_full` called at line 80: at line 39, 40, 41 | 0, 1, 1 |
| `enter` | at line 53 | 0 |
| `retest`, `relook`, `relooked` | `my_stack_full` called at line 54: at line 39, 40, 41 | 1, 2, 2 |
| `refuse` | at line 55 | 1 |
| `access`, `resize`, `leave` | at lines 58, 59, 60 | 1 |

A popper goes the same way through lines 92, 46-48, 65-73. `answer` is the
value `my_stack_full` or `my_stack_empty` returned, `result` the variable of
line 93. `malloc` may return null; an access through it, or outside the array,
ends the process. The program pushes 10.0; a pusher of the model pushes its
name, so that a lost or doubled item is seen. The stack of the refinement is
the cells below `size`, less the one a popper has just read. The threads only
poll, so with a scheduler that is merely fair a pusher may lose the mutex to a
polling popper for ever: there is no liveness property to state; that a thread
never locks itself out is the run's deadlock check.

## 3. Runs

| Run | Instance | Properties and what they show |
|---|---|---|
| `barrier` | 4 threads, 1 barrier of limit 3, `RoundMod` 3 | `BarrierInv`: mutex, counter, rounds and sleepers are in step; `ImplementsRendezvous`: it is the abstract barrier; `ReleasedReturn`: released callers return |
| `h2o_restart` | 2 oxygens, 4 hydrogens, 2 carbons, 2 + 1 tokens, 2 runs of the program | `MoleculeComposition`: every round is one molecule; `Tally`: tokens and molecules are counted right; `FinishesClean`; `FaultsOnlyAfterFailure`: no closed semaphore is used unless a call failed; `UsesBarrier`: the discipline; `TokensNeverGained`: killing loses tokens, makes none; `ShortRunsMakeNothing` |
| `h2o_live` | 2 of each kind, 1 + 1 tokens | `AllAtomsReact` |
| `h2o_restart_stuck` | 1 of each kind, 2 runs | violation of `ThreadsEnd`: a run after a kill waits for ever |
| `heap` | the program's threads, 4 cells | `PrintsComplete`: printers read a whole, live string; `StoresInBounds`; `DestroyedBlocksNobody`; `UsesBarriers`: the discipline; `ArrayFreed`: the array is freed and the process ends |
| `heap_destroy` | the program's threads, 4 cells | violation of `DestroysUnused`: barriers are destroyed while in use |
| `print_order` | 5 letters | `PrintsInOrder`: it implements Relay; `TurnIsAwaited`: no missed wakeup; `NoUseAfterDestroy`: no thread has still to use what is not there yet or destroyed; `AllPrint`: the end is reached |
| `barrier_order` | 5 letters, 4 barriers | `PrintsInOrder`; `BarriersInTurn`: life time and use of the barriers; `AllPrint` |
| `stack_safety` | 2 pushers, 2 poppers, 2 cells | `MutexBalanced`; `FaultsOnlyOutOfMemory`: nothing outside the array; `ImplementsBoundedStack` |
| `programs` | the eleven programs, 4 cells, 2 runs | `TouchesTheLiving`: life times; `OrderedArrayIsWhole`: the unordered array lacks nothing but an order; `AdditionsKept`; `LockKept`: also after a kill; `SuccessMeansDone`: exit status 0; `EndsOnceStarted` |
| `launcher` | the program's loops with 2 executables a directory, `int` of 11 bits | `SuccessIsReal`: no failure is lost between the processes; `StopsAtFailure`; `StringsOwned`: no leak, no double free; `MessageIsRight` |
| `library` | linking_test; formats of up to 6 characters; numbers of 11 bits | `WordsSeen`, `ArgumentsMatch`: format and arguments go together; `JumpsLand`: the two jumps, all tests; `TextIsRight`: decimal text |

`BarrierInv`, `Tally`, `StoresInBounds`, `TurnIsAwaited`, `BarriersInTurn`, `LockKept` and
`StringsOwned` take the types of their module in with named parts. Each property
has a mutant: a `Mutated form` of one of the module's definitions, a plausible
bug in the code, that TLC finds to violate it.

Why these bounds are enough to be interesting. Four threads at a barrier of
three give several sleepers, a straggler of one round, the callers of the next
and one thread that finds no room; several barriers at once are the matter of
`heap`. `RoundMod` 3 is the smallest at which "one round behind" says
something and makes the counter wrap soon; 2, in the other runs, is the smallest
the proofs allow. Two molecules with two hydrogens each let atoms of the second come in
while the first is leaving, in every mixture. Two runs of the program are one
restart. Five letters give a first, a last and three threads in the middle, two of them
without a neighbour at the end. Two threads of each kind and two cells give an empty, a
half-full and a full stack, each with a competitor that acts between a check and
its use. Four cells give each filler two, the last of which is overwritten by
the terminator, as in the program (twenty cells). Formats of six characters
from a delimiter, `L`, `g` and `d` hold up to three words of one, two or more characters,
right and wrong ones, and delimiters at every place. Eleven bits are numbers of
up to four digits, with the extreme ones; an `int` is narrower than a
`long long`, as in C. Threads of one kind are
symmetric in the safety runs; liveness runs use no symmetry. Deadlock is checked
wherever the cfg does not say otherwise: `h2o_restart` really stops in short
runs, which is the finding of `h2o_restart_stuck`, and in `programs` a process
that is over makes no step, `stack_shared_var` waits for ever after a failed
`pthread_create`, and `race_to_data_sem` does when it finds `sem14` at zero.

Fairness. Every thread, and `main()`, gets to run again and again (weak fairness
of its next step), which is what a scheduler with equal priorities gives. Weak
fairness is enough for the mutexes and semaphores here because each of them is
taken finitely often by the others. Spurious wakeups are assumed to stop at
some time: a thread that is woken for ever could keep a barrier's mutex busy.
Nothing forces a spurious wakeup, a failing call, or a kill. In PrintOrder a thread
takes the mutex again only when it is woken, so weak fairness is enough there too.
SharedHeap needs less: that some thread runs while one can, since each body ends.
In ThreadPrograms a lock is taken once by each thread; the launcher and the
library are sequential and have safety properties only.

## 4. Proofs

`CvBarrierProofs` proves, for any finite set of threads, any set of barriers,
any limits and any `RoundMod >= 2` (`CvBarrierAssumption`):

* `BarrierInvariant`: `BarrierSafetySpec => []BarrierInv`. `BarrierInv` is
  inductive. Its parts need each other: the count is the number of threads
  parked on the current round (`CountInv`), hence a caller that completes a
  round meets `limit - 1` parked threads; since at most `limit` threads are
  inside (`Discipline`), there is nobody else (`LastCallerMeetsAll`), so no
  thread of an older round can fall two rounds behind
  (`AtMostOneRoundBehind`) and everyone asleep is woken (`NoLostWakeup`).
* `BarrierRefinement`: `BarrierSafetySpec => ImplementsRendezvous`. `StepRefines`
  maps each action to an abstract one: arriving and waiting is `Gather`,
  arriving last is `Complete`, unlocking is `Depart`, the rest leaves the
  abstract state alone. `GatheringStep` and `ReleasedStep` say what each action
  does to the two abstract sets.

`MyStackProofs` proves, for any number of pushers and poppers and any capacity
(`MyStackAssumption`):

* `StackLocks` and `StackSafety` (from `StackInvariant`): balanced locks, no
  access outside the array. The inductive `StackInv` adds `AnswerHolds`, an answer that was given
  under the lock still holds when it is acted on, which needs the lock to be
  held in between (`MutexBalanced`), and `UsesMemory`, threads exist only after
  the constructor. There is one lemma for each action.
* `StackRefinement`: `Spec => ImplementsBoundedStack`. `AccessRefines` and
  `ResizeRefines` are the two places where the stack changes: a push counts when
  the size grows, a pop when the item is read.

`H2OProofs` (EXTENDS `CvBarrierProofs`) proves, for any number of molecules, any
atoms of which at least one is a hydrogen and one a carbon (the program's two
and one; `H2OAssumption`), any failures of `sem_open` and `pthread_create`:

* `H2OInvariant`: `HInv` is inductive. It adds to `Tally` what connects the
  program to its barrier: a thread is inside the barrier only in that place of
  its body (`BodiesInv`), tokens held and tokens in the semaphores add up to those found
  (`TokensInv`), the phases of `main()` (`MainInv`), the
  molecules counted are the oxygens that are done and, with those still leaving,
  the rounds of the barrier (`MoleculeInv`), and a start that found too
  few tokens never completes a round (`ShortInv`). The counting lemmas are
  `EngagedCounted` (the tokens held are the threads in the barrier),
  `RoomToEnter` (who takes a token finds room) and `FullBarrier` (a full barrier is
  one molecule, no more of any kind).
* `AtomsTally`, `CleanFinish`, `FaultsFollowFailure`: the invariants of the run.
* `AtomsKeepDiscipline`: `SafetySpec => BarrierSafetySpec /\ ImplementsRendezvous`.
  The three bodies together never call a barrier that is full, so the theorems
  of `CvBarrierProofs` hold of the program.

The same module carries this over to H2ORestart, runs that are killed anywhere and
started again on the semaphores left behind. A new start establishes the same
`HInv` (`RerunStarts`), because all that it says of the semaphores is relative to what the
run found. `RestartTally` and `RestartFinishesClean` are the same
invariants over any number of runs, `KillsMakeNoTokens` and `ShortRuns` say what
a kill can and cannot do, `EveryRoundAMolecule` is the action property
`MoleculeComposition` and `RestartKeepsDiscipline` is `UsesBarrier`.

`SharedHeapProofs` (EXTENDS `CvBarrierProofs`) proves, for at least one printer
and any length of the array (`SharedHeapAssumption`; without a printer the array
could be freed before it is filled):

* `HeapInvariant`: `SHInv` is inductive. Each of the three barriers has exactly as
  many users as its limit and each user calls it once (`UsersCounted`), so it
  opens once, when all of them are inside (`LastOpens`), and the three open in
  turn (`OpenInTurn`). `RoundsInv` says this; `FillInv` follows from it: a
  filler writes only between the rounds, each cell to its own parity
  (`EveryOther`), and a printer starts when all cells of its string are written.
* `BoundedStores`, `WholeStringsPrinted`, `NobodyBlocksOnDestroyed`: the
  invariants of the run.
* `ThreadsKeepDiscipline`: the threads never call a barrier that is full, and all
  three implement `Rendezvous`.

`PrintOrderProofs` and `BarrierOrderProofs` prove, for any number of threads,
that both programs implement Relay (`PrintOrderRefinement`,
`BarrierOrderRefinement`: the letters come out in order, each once):

* With the condition variable (`OrderInv`): `actual_print` is the letter after
  those printed (`OutputStep`), the mutex has one owner, who sleeps is not the
  one whose turn it is. `TurnAwaited` (no letter without a thread that will
  print it) follows. Life times rest on two more parts: the threads below
  `joined` have ended and do not come back (`JoinedInv`), and the place of
  `main()` says which objects there are, that all threads are joined when the
  first of them goes, and that no thread is born before both are there
  (`ObjectsInv`); `NothingUsedAfterDestroy` follows, for every place of every thread.
* With barriers (`BOInv`): a thread has passed its first barrier only if all
  before it have printed, and each barrier is used for one round by its two
  neighbours (`BarriersUsedInTurn`).

`ToolProofs` is about the sequential programs, Launcher and Library. It proves of
the launcher, for any non-empty list of calls with any numbers of
executables and repetitions (`LauncherAssumption`) and any number of tests:

* `LauncherInvariant`: `LInv` is inductive. The places of the two processes
  (`ProcessesOK`); the programs that ran are exactly those before the place of
  `./main` in its three loops, as long as none failed, and all but the last of
  them ended well (`RanInv`); the same of the runs of `./main` in the loop of
  `test` (`MainsInv`).
* `NothingAfterFailure` and `SuccessMeansAllRan`: the two invariants of the run
  that are about the loops. The proof needs nothing of what CString computes: a
  string that cannot be built ends the process with a failure.
* `CommandIsOwned` and `MessageShowsTheNumber`: the two about the strings
  (`StringsOwned`, `MessageIsRight`). `StringsInv`, inductive beside `LInv`, says
  what is live at each place of `./main`: its command while that is in use, and
  otherwise nothing, unless a block was misused.

of CString, for any `LLONG_MAX` (`CStringAssumption`; an `int` may be narrower,
`LauncherAssumption`), by an induction of its own: the library's induction theorems take
an operator, so the set of numbers a statement holds of is shown to be all of `Nat`
(`Induction`, `InductionBelow`), because the set of the others would have a least
element (`Least`). Each recursive function is unrolled once in this way
(`DigitsUnrolled`, `WrittenUnrolled`, `NegativeUnrolled`, `ValueUnrolled`, `LoopUnrolled`):

* `EverySpelt`: the loop that writes digits makes as many turns as the loop that
  counts them, what it writes reads as the number, and it begins with a zero only
  for 0. With `MagnitudeIs` (the opposite of the least number fits too) and
  `DigitsCopied` this gives `ToStringU` and `ToStringI`, the outcomes of the two functions.
* `ManyLiterals`, by induction over the turns: `concatenate_many` of any number of
  literals leaves the block of its result and no other. `NothingAppended` and
  `BlockAppended` are the two uses of `concatenate_many_free_args`.

and of Library, for formats of any length and any characters (`LibraryAssumption`):

* Of the operators: `RankIsPlace` (`InOrder` puts a word at the number of words that
  begin no later), `RankedIsPrefix` (so a sequence with each word at its rank is
  a prefix of it), `WordsApart` (the words of a format are finitely many and
  begin in different places), `Strchr`, and `WordHere`: the part that a turn of
  the loop cuts off is a word exactly when it is not empty, and no word begins
  between it and the next remainder.
* `LibraryInvariant`: `LIInv` is inductive. Before a turn the loop is at the
  beginning of the format or behind a delimiter (`InLoop`) and as many words
  have been shown as begin before that place (`PrintInv`); when the arguments
  are those the format calls for, as many have been taken as conversions begin
  before it (`ArgsInv`); `JumpInv` says what the jump buffer holds at each place
  of linking_test. `TurnCounts`, `TurnShows` and `TurnTakes` are a turn of the loop.
* `WordsOnceInOrder`, `ArgumentsAreTaken`, `JumpsLandWhereExpected`, and
  `TextOfEveryNumber` (`TextIsRight`, from `ToStringU` and `ToStringI`): the
  four invariants of the run. `ArgumentsAreTaken` is about a caller who passes
  what the format calls for. That the three calls of linking_test do is a
  computation on three constant formats, which TLC does (`ArgumentsMatch`).

`ThreadProgramsProofs` proves all five invariants of the run `programs`, for an
array of any even length from four on and any number of runs
(`ThreadProgramsAssumption`; the program has twenty cells). A table is worked out
before anything is said of a program that runs it, place by place
(`TableHolds`, `UsualTables`), then what each thread can do at each place, and
what that does. The inductive `ProgramsInv` (`ProgramsInvariant`) has three parts:

* `UsualInv` (`UsualInvariant`) is about the eight programs whose `main()`
  creates all its threads, checks, joins or detaches them all and checks again.
  That much is one predicate of their tables (`Usually`), and so one proof: where
  `main()` is says which threads exist, which are joinable and which are over
  (`Started`, `Joined`, `Endings`). What the four that count do in their bodies is
  in `UsualData`: the sum is that of the places passed
  (`AtomicSum`, `SumIs`), and where it is torn, what a thread has loaded and not yet
  stored is nothing or what the other had added (`TornSum`). `LockIs` ties the lock to who
  is inside and to what `main()` found; a kill anywhere, or an exit, leaves what the next
  `main()` may find (`FreshUsual`).
* `ArrayInv` (`ArrayInvariant`) is about the unsynchronised array. It says what the
  history `after` implies: a thread that had ended when another began has written
  what it writes (`Filled`, `Loaded`), because only the last cell is written by
  both fillers, and a released block means a release that began (`BlockLife`).
  `AstrayKeeps` is the heart: a step into undefined behaviour by threads in
  order needs a null block.
* `OthersInv` is the rest of that program, `heap_stack`, where the second thread exists
  only if the block does, and `stack_shared_var`. There `Round` says of each of the two
  barriers that who waits is at its place, that nobody is past it while it is
  gathering, and that when it has opened everyone is past it or released, so that
  the variable is read while the thread that owns it is still between the barriers.

From these follow:

* `ArrayIsWhole`: `OrderedArrayIsWhole`, and `NoWildWrite`: without any order, an index
  that wrapped is only ever applied to a null pointer.
* `AdditionsAreKept`: `AdditionsKept`. The sum of a set of threads is a fold over a
  finite set; it is worked out for the subsets of three threads (`SumIsWorth`).
* `OnlyTheLivingAreTouched`, `SuccessIsDone`, `LockIsKept`: `TouchesTheLiving`,
  `SuccessMeansDone`, `LockKept`.

What is left to TLC:

* Liveness (`ReleasedReturn`, `AllAtomsReact`, `ThreadsEnd`, `ArrayFreed`, `AllPrint`,
  `EndsOnceStarted`) rests on fairness, which the prover cannot treat.
* That the three calls of linking_test pass the arguments their formats call for
  (`ArgumentsMatch` without the premise of `ArgumentsAreTaken`), a computation on
  constants.

## 5. Findings

* A kill leaves `h2o.c`'s semaphores short of tokens and every later run hangs
  (`h2o_restart_stuck`).
* `shared_heap.c` destroys barriers that threads are still leaving
  (`heap_destroy`).

Seen while modelling, and part of what the properties say:

* `h2o.c:92` speaks of two hydrogens in the critical section, the code admits six.
* `race_to_data_mutex.c` reports a local variable that hides the sum, always 0
  (`Report`). `SuccessMeansDone` takes this report as it is: it shows that the
  report is made, not that it is the sum, so no property stands for the hazard.
* `race_to_data_sem.c` leaves `sem14` at zero when it is killed, or exits after a
  failed `pthread_create`, while a thread holds it; the next run then hangs
  (`LockKept`, the premise of `EndsOnceStarted`).
* `stack_shared_var.c` hangs, or joins a handle that was never set, after a
  failed `pthread_create` (`TouchesTheLiving`, `EndsOnceStarted`).
* When `malloc` fails `test.c` frees a literal, and `to_string_i` copies from a
  null pointer (`MessageIsRight`, `TextIsRight`).
* In `system.c:61` the comparison with 127 never holds: `system()` returns a wait
  status, 127 * 256, when the shell cannot run the command.

## 6. Plan

Every invariant and every action property that a run checks is stated by a theorem;
liveness stays with TLC. What could still be added is in section 7.

## 7. Not modelled

* The Makefile, the macOS branches of the programs, the wording of messages.
* Code that nothing calls: `execute` and `make_clean_make`, `copy_string` and
  `copy_bytes`, `my_stack_dtor`, the signal handler of `h2o.c`, `singleton.h`
  and `shared_lib_open.c` (for libraries that are not in the repository).
* Floating point text, `digits_d` and `to_string_d`. (`digits_d` counts the
  digits of its argument, not of the integral part it has just made positive, so that
  every negative number has one digit; nothing calls it.)
* The libraries `linking_test.c` drives: a test is a call with a result.
* Fair locks: what a thread may expect of a mutex that others keep taking.
