------------------------------ MODULE PrintOrder ------------------------------
(***************************************************************************)
(* ch16/race_cond_var.c: threads that wait on one condition variable for   *)
(* their letter, print it and hand on to the next.  The program has three, *)
(* state[0] .. state[2], for the letters C, B and A; here there may be any *)
(* number N of them, thread t for the t-th letter from the end of Order.   *)
(***************************************************************************)
EXTENDS Naturals, Sequences

CONSTANTS
  N,          \* number of threads
  Order,      \* the letters in the order in which they are handed on
  NoThread    \* the owner of a mutex nobody holds

ASSUME PrintOrderAssumption ==
  /\ N \in Nat \ {0}
  /\ Order \in Seq(STRING)
  /\ Len(Order) = N
  /\ \A m, n \in 1 .. N : m # n => Order[m] # Order[n]
  /\ NoThread \notin Nat

Threads == 0 .. N - 1

\* The member print of state[t].
print(t) == Order[N - t]

VARIABLES
  actual_print,   \* the letter whose turn it is
  mtx,            \* owner of the mutex
  pc,             \* where each thread is
  output,         \* the letters printed so far
  main,           \* where main() is, see MainPlaces
  joined,         \* the thread that main() joins next
  objects         \* which of the mutex and the condition variable are
                  \* initialised and not destroyed

tvars == <<actual_print, mtx, pc, output>>
mvars == <<main, joined, objects>>
vars == <<tvars, mvars>>

MainPlaces == {"init_mtx", "init_cv", "create", "join",
               "destroy_mtx", "destroy_cv", "return", "exited", "failed"}

Running == main \notin {"exited", "failed"}

-----------------------------------------------------------------------------
(***************************************************************************)
(* The choices of the code that the actions are built from, with mutated   *)
(* forms that no specification uses.                                       *)
(***************************************************************************)

\* The member next_print of state[t]; the last letter stays.
next_print(t) == IF t = 0 THEN Order[N] ELSE Order[N - t + 1]

\* Mutated form of MustWait: an `if' instead of the loop.
MustWaitOnce(t) == actual_print # print(t) /\ pc[t] = "test"

MustWait(t) == actual_print # print(t)

\* Mutated form of Woken: a signal, which wakes one of the sleepers.
WokenBySignal ==
  {t \in Threads : pc[t] = "asleep" /\ \A s \in Threads : pc[s] = "asleep" => t <= s}

\* pthread_cond_broadcast wakes every sleeper.
Woken == {t \in Threads : pc[t] = "asleep"}

\* Mutated form of FirstToJoin: the loop of the joins begins at 1.
FirstToJoinIsOne == 1

FirstToJoin == 0

-----------------------------------------------------------------------------
Init ==
  /\ actual_print = Order[1]
  /\ mtx = NoThread
  /\ pc = [t \in Threads |-> "unborn"]
  /\ output = <<>>
  /\ main = "init_mtx"
  /\ joined = FirstToJoin
  /\ objects = {}

\* shared_state_init, one object after the other.
InitObject(o, from, to) ==
  /\ main = from
  /\ objects' = objects \cup {o}
  /\ main' = to
  /\ UNCHANGED <<tvars, joined>>

\* main() creates the threads in the order of the array, ...
CreateThread(t) ==
  /\ main = "create"
  /\ pc[t] = "unborn"
  /\ \A s \in Threads : s < t => pc[s] # "unborn"
  /\ pc' = [pc EXCEPT ![t] = "lock"]
  /\ main' = IF t = N - 1 THEN "join" ELSE main
  /\ UNCHANGED <<actual_print, mtx, output, joined, objects>>

\* ... ends the process when one cannot be created, ...
CreateFails ==
  /\ main = "create"
  /\ main' = "failed"
  /\ UNCHANGED <<tvars, joined, objects>>

\* ... joins them in the same order, ...
JoinThread ==
  /\ main = "join"
  /\ pc[joined] = "done"
  /\ joined' = joined + 1
  /\ main' = IF joined' = N THEN "destroy_mtx" ELSE main
  /\ UNCHANGED <<tvars, objects>>

\* ... and then, whatever the threads are doing, destroys the shared state,
\* first the mutex ...
DestroyObject(o, from, to) ==
  /\ main = from
  /\ objects' = objects \ {o}
  /\ main' = to
  /\ UNCHANGED <<tvars, joined>>

\* ... and returns, which ends the process.
Return ==
  /\ main = "return"
  /\ main' = "exited"
  /\ UNCHANGED <<tvars, joined, objects>>

\* pthread_mutex_lock, and the mutex taken again in pthread_cond_wait.
Lock(t, from, to) ==
  /\ pc[t] = from
  /\ mtx = NoThread
  /\ mtx' = t
  /\ pc' = [pc EXCEPT ![t] = to]
  /\ UNCHANGED <<actual_print, output, mvars>>

WaitTurn(t) ==
  /\ pc[t] \in {"test", "retest"}
  /\ MustWait(t)
  /\ pc' = [pc EXCEPT ![t] = "asleep"]
  /\ mtx' = NoThread
  /\ UNCHANGED <<actual_print, output, mvars>>

PrintLetter(t) ==
  /\ pc[t] \in {"test", "retest"}
  /\ ~ MustWait(t)
  /\ output' = Append(output, actual_print)
  /\ actual_print' = next_print(t)
  /\ pc' = [pc EXCEPT ![t] = "broadcast"]
  /\ UNCHANGED <<mtx, mvars>>

Broadcast(t) ==
  /\ pc[t] = "broadcast"
  /\ pc' = [s \in Threads |-> IF s = t THEN "unlock"
                              ELSE IF s \in Woken THEN "relock" ELSE pc[s]]
  /\ UNCHANGED <<actual_print, mtx, output, mvars>>

Unlock(t) ==
  /\ pc[t] = "unlock"
  /\ mtx' = NoThread
  /\ pc' = [pc EXCEPT ![t] = "done"]
  /\ UNCHANGED <<actual_print, output, mvars>>

SpuriousWakeup(t) ==
  /\ pc[t] = "asleep"
  /\ pc' = [pc EXCEPT ![t] = "relock"]
  /\ UNCHANGED <<actual_print, mtx, output, mvars>>

Main ==
  \/ InitObject("mtx", "init_mtx", "init_cv") \/ InitObject("cv", "init_cv", "create")
  \/ (\E t \in Threads : CreateThread(t)) \/ CreateFails
  \/ JoinThread
  \/ DestroyObject("mtx", "destroy_mtx", "destroy_cv")
  \/ DestroyObject("cv", "destroy_cv", "return")
  \/ Return

Step(t) ==
  \/ Lock(t, "lock", "test") \/ Lock(t, "relock", "retest")
  \/ WaitTurn(t) \/ PrintLetter(t) \/ Broadcast(t) \/ Unlock(t)

Terminated == ~ Running /\ UNCHANGED vars

Next ==
  \/ Running /\ (Main \/ \E t \in Threads : Step(t) \/ SpuriousWakeup(t))
  \/ Terminated

SafetySpec == Init /\ [][Next]_vars

(***************************************************************************)
(* main() and every thread keep running while the process lives, and       *)
(* spurious wakeups come to an end.                                        *)
(***************************************************************************)
Fairness ==
  /\ WF_vars(Running /\ Main)
  /\ \A t \in Threads : WF_vars(Running /\ Step(t))
  /\ <>[][~ \E t \in Threads : SpuriousWakeup(t)]_vars

Spec == SafetySpec /\ Fairness

-----------------------------------------------------------------------------
TypeOK ==
  /\ actual_print \in {Order[n] : n \in 1 .. N}
  /\ mtx \in Threads \cup {NoThread}
  /\ pc \in [Threads -> {"unborn", "lock", "test", "asleep", "relock", "retest",
                         "broadcast", "unlock", "done"}]
  /\ output \in Seq({Order[n] : n \in 1 .. N})
  /\ main \in MainPlaces
  /\ joined \in 0 .. N
  /\ objects \subseteq {"mtx", "cv"}

(***************************************************************************)
(* The letters appear one at a time and in order, whichever thread is      *)
(* created, scheduled or woken first.                                      *)
(***************************************************************************)
Abstract == INSTANCE Relay

PrintsInOrder == Abstract!SafetySpec

(***************************************************************************)
(* No thread sleeps through its turn: when the letter of a sleeper is the  *)
(* actual one, the thread that made it so is about to wake everybody.      *)
(***************************************************************************)
NobodySleepsOnItsTurn ==
  \A t \in Threads :
    pc[t] = "asleep" /\ actual_print = print(t) => \E s \in Threads : pc[s] = "broadcast"

(***************************************************************************)
(* With the types: actual_print is always the letter of some thread, and   *)
(* that thread will notice, awake or about to be woken.                    *)
(***************************************************************************)
TurnIsAwaited == TypeOK /\ NobodySleepsOnItsTurn

(***************************************************************************)
(* The threads do not look whether the mutex and the condition variable    *)
(* exist, and main() destroys them without a look at the threads: still,   *)
(* no thread is at a place from which it locks, holds or unlocks the mutex *)
(* (lines 52 to 62), or waits on or wakes the sleepers of the condition    *)
(* variable (52 to 61), before main() has initialised it or after main()   *)
(* has destroyed it.                                                       *)
(***************************************************************************)
UsesMutex(t) == pc[t] \notin {"unborn", "done"}

UsesCond(t) == UsesMutex(t) /\ pc[t] # "unlock"

NoUseAfterDestroy ==
  \A t \in Threads :
    /\ UsesMutex(t) => "mtx" \in objects
    /\ UsesCond(t) => "cv" \in objects

(***************************************************************************)
(* Once all threads exist every letter is printed and the program ends.    *)
(***************************************************************************)
AllPrint == main = "join" ~> main = "exited" /\ output = Order
=============================================================================
