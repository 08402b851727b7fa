------------------------------- MODULE MyStack -------------------------------
(***************************************************************************)
(* ch16/ExtremeC_examples_chapter16_6.c: a stack under a recursive mutex.  *)
(* A pusher asks whether the stack is full and then pushes; the push locks *)
(* the stack and asks again, which locks it a second time.  A popper does  *)
(* the same with an empty stack.  The program has one thread of each kind  *)
(* and pushes one value; here a pusher pushes its own name.                *)
(***************************************************************************)
EXTENDS Integers, Sequences

CONSTANTS
  Pushers, Poppers,   \* the threads
  max_size,           \* capacity of the stack, 10 in the program
  NoThread,           \* the owner of a mutex nobody holds
  Nothing             \* the value of a variable or cell that holds no item

ASSUME MyStackAssumption ==
  /\ Pushers \cap Poppers = {}
  /\ NoThread \notin Pushers \cup Poppers
  /\ Nothing \notin Pushers
  /\ max_size \in Nat \ {0}

Threads == Pushers \cup Poppers

VARIABLES
  size, items,     \* the fields of shared_stack; items are its cells
  memory,          \* what malloc gave for the cells: nothing yet, cells or null
  owner, depth,    \* owner of the mutex and how many times it has locked it
  pc,              \* where each thread is
  answer,          \* what my_stack_full or my_stack_empty last told each thread: 1 or 0
  result,          \* the variable result of each popper
  process          \* main() at ctor or create, then threads; exited, faulted

mutex == <<owner, depth>>
vars == <<size, items, memory, owner, depth, pc, answer, result, process>>

Cells == 0 .. max_size - 1

Running == process \notin {"exited", "faulted"}

-----------------------------------------------------------------------------
(***************************************************************************)
(* The choices of the code that the actions are built from, with mutated   *)
(* forms that no specification uses.                                       *)
(***************************************************************************)

my_stack_full == IF size >= max_size THEN 1 ELSE 0

my_stack_empty == IF size = 0 THEN 1 ELSE 0

NewSize(t) == IF t \in Pushers THEN size + 1 ELSE size - 1

\* The cell that a push fills or a pop reads.
TopCell(t) == IF t \in Pushers THEN size ELSE size - 1

\* Mutated form of InPush: the push relies on the answer its caller got.
InPushTrusting == "access"

\* Where a thread goes that has locked the stack to push or to pop.
InPush == "retest"

\* Mutated form of AfterUnlock: the return for a full stack does not unlock.
AfterUnlockForgotten(t) == IF pc[t] = "refuse" THEN depth ELSE depth - 1

\* Mutated form of AfterUnlock: the mutex does not count its locks.
AfterUnlockAll(t) == 0

AfterUnlock(t) == depth - 1

-----------------------------------------------------------------------------
\* my_stack_ctor will be called; no thread exists.
Init ==
  /\ size = 0
  /\ items = [c \in Cells |-> Nothing]
  /\ memory = "nothing"
  /\ owner = NoThread
  /\ depth = 0
  /\ pc = [t \in Threads |-> "unborn"]
  /\ answer = [t \in Threads |-> 0]
  /\ result = [t \in Poppers |-> Nothing]
  /\ process = "ctor"

\* my_stack_ctor; malloc may fail, which nothing checks.
Construct ==
  /\ process = "ctor"
  /\ memory' \in {"cells", "null"}
  /\ process' = "create"
  /\ UNCHANGED <<size, items, mutex, pc, answer, result>>

\* main() creates the pusher and then the popper and leaves ...
CreateThread(t) ==
  /\ process = "create"
  /\ pc[t] = "unborn"
  /\ t \in Poppers => \A s \in Pushers : pc[s] # "unborn"
  /\ pc' = [pc EXCEPT ![t] = "test"]
  /\ process' = IF \A s \in Threads \ {t} : pc[s] # "unborn" THEN "threads" ELSE process
  /\ UNCHANGED <<size, items, memory, mutex, answer, result>>

\* ... or ends the process when it cannot.
CreateFails ==
  /\ process = "create"
  /\ process' = "exited"
  /\ UNCHANGED <<size, items, memory, mutex, pc, answer, result>>

-----------------------------------------------------------------------------
\* pthread_mutex_lock of a recursive mutex
Lock(t, from, to) ==
  /\ pc[t] = from
  /\ owner \in {NoThread, t}
  /\ owner' = t
  /\ depth' = depth + 1
  /\ pc' = [pc EXCEPT ![t] = to]
  /\ UNCHANGED <<size, items, memory, answer, result, process>>

\* pthread_mutex_unlock
Unlock(t, from) ==
  /\ pc[t] = from
  /\ depth' = AfterUnlock(t)
  /\ owner' = IF depth' = 0 THEN NoThread ELSE owner

\* my_stack_full for a pusher, my_stack_empty for a popper, with the mutex held.
Look(t, from, to) ==
  /\ pc[t] = from
  /\ answer' = [answer EXCEPT ![t] = IF t \in Pushers THEN my_stack_full ELSE my_stack_empty]
  /\ pc' = [pc EXCEPT ![t] = to]
  /\ UNCHANGED <<size, items, memory, mutex, result, process>>

\* The first question, asked by the thread body: again, or on to push or pop.
Decide(t) ==
  /\ Unlock(t, "looked")
  /\ pc' = [pc EXCEPT ![t] = IF answer[t] = 1 THEN "test" ELSE "enter"]
  /\ result' = IF t \in Poppers /\ answer[t] = 0 THEN [result EXCEPT ![t] = Nothing] ELSE result
  /\ UNCHANGED <<size, items, memory, answer, process>>

\* The second, asked in my_stack_push or my_stack_pop.
DecideInside(t) ==
  /\ Unlock(t, "relooked")
  /\ pc' = [pc EXCEPT ![t] = IF answer[t] = 1 THEN "refuse" ELSE "access"]
  /\ UNCHANGED <<size, items, memory, answer, result, process>>

\* The access to the cell; where there is none the process ends.
Access(t) ==
  /\ pc[t] = "access"
  /\ IF memory = "cells" /\ TopCell(t) \in Cells
       THEN /\ IF t \in Pushers
                 THEN items' = [items EXCEPT ![size] = t] /\ UNCHANGED result
                 ELSE result' = [result EXCEPT ![t] = items[size - 1]] /\ UNCHANGED items
            /\ pc' = [pc EXCEPT ![t] = "resize"]
            /\ UNCHANGED process
       ELSE process' = "faulted" /\ UNCHANGED <<items, result, pc>>
  /\ UNCHANGED <<size, memory, mutex, answer>>

Resize(t) ==
  /\ pc[t] = "resize"
  /\ size' = NewSize(t)
  /\ pc' = [pc EXCEPT ![t] = "leave"]
  /\ UNCHANGED <<items, memory, mutex, answer, result, process>>

\* The return of my_stack_push or my_stack_pop, FALSE or TRUE.
Leave(t, from) ==
  /\ Unlock(t, from)
  /\ pc' = [pc EXCEPT ![t] = "test"]
  /\ UNCHANGED <<size, items, memory, answer, result, process>>

Main == Construct \/ (\E t \in Threads : CreateThread(t)) \/ CreateFails

Step(t) ==
  \/ Lock(t, "test", "look") \/ Look(t, "look", "looked") \/ Decide(t)
  \/ Lock(t, "enter", InPush)
  \/ Lock(t, "retest", "relook") \/ Look(t, "relook", "relooked") \/ DecideInside(t)
  \/ Access(t) \/ Resize(t) \/ Leave(t, "refuse") \/ Leave(t, "leave")

Terminated == ~ Running /\ UNCHANGED vars

Next ==
  \/ Running /\ (Main \/ \E t \in Threads : Step(t))
  \/ Terminated

Spec == Init /\ [][Next]_vars

-----------------------------------------------------------------------------
Places == {"unborn", "test", "look", "looked", "enter", "retest", "relook", "relooked",
           "refuse", "access", "resize", "leave"}

TypeOK ==
  /\ size \in 0 .. max_size
  /\ items \in [Cells -> Pushers \cup {Nothing}]
  /\ memory \in {"nothing", "cells", "null"}
  /\ owner \in Threads \cup {NoThread}
  /\ depth \in 0 .. 2
  /\ pc \in [Threads -> Places]
  /\ answer \in [Threads -> {0, 1}]
  /\ result \in [Poppers -> Pushers \cup {Nothing}]
  /\ process \in {"ctor", "create", "threads", "exited", "faulted"}

\* How many locks a thread holds at a place.
Held(place) ==
  CASE place \in {"unborn", "test", "enter"} -> 0
    [] place \in {"relook", "relooked"} -> 2
    [] OTHER -> 1

(***************************************************************************)
(* The locks and unlocks of the nested calls balance: the mutex counts     *)
(* exactly the locks of its owner and nobody else is between a lock and    *)
(* its unlock.                                                             *)
(***************************************************************************)
MutexBalanced ==
  /\ owner = NoThread => depth = 0
  /\ \A t \in Threads : Held(pc[t]) = IF owner = t THEN depth ELSE 0

(***************************************************************************)
(* A thread never accesses a cell outside the array although the answer    *)
(* that made it push or pop was given before it locked the stack: only a   *)
(* failed malloc ends the process.                                         *)
(***************************************************************************)
FaultsOnlyOutOfMemory == process = "faulted" => memory = "null"

(***************************************************************************)
(* Pushes and pops of any number of threads are those of a bounded stack:  *)
(* none is lost or seen twice, none exceeds the limit, the last item comes *)
(* first.  A push happens when size is incremented, a pop when the item is *)
(* read.                                                                   *)
(***************************************************************************)
Contents ==
  [n \in 1 .. IF \E t \in Poppers : pc[t] = "resize" THEN size - 1 ELSE size |-> items[n - 1]]

Abstract == INSTANCE BoundedStack WITH contents <- Contents

ImplementsBoundedStack == Abstract!SafetySpec
=============================================================================
