----------------------------- MODULE BarrierOrder -----------------------------
(***************************************************************************)
(* ch16/race_barrier.c: threads that print their letters in order because  *)
(* each waits at a barrier with its predecessor before it prints and at a  *)
(* barrier with its successor afterwards.  The program has three threads,  *)
(* for A, B and C, and two barriers; here there may be any number N, the   *)
(* t-th letter of Order for thread t, and barrier b between the threads b  *)
(* and b + 1.  pthread_barrier_t is the library's: Rendezvous is what it   *)
(* promises.                                                               *)
(***************************************************************************)
EXTENDS Rendezvous, Sequences

CONSTANTS
  N,               \* number of threads
  Order,           \* the letters in the order in which they are to appear
  CreationOrder    \* the threads in the order in which main() creates them

ASSUME BarrierOrderAssumption ==
  /\ N \in Nat \ {0}
  /\ Threads = 1 .. N
  /\ Barriers = 1 .. N - 1
  /\ barrier_thread_limit = [b \in Barriers |-> 2]
  /\ Len(Order) = N
  /\ Len(CreationOrder) = N /\ {CreationOrder[n] : n \in 1 .. N} = Threads

VARIABLES
  tpc,       \* where each thread is in its body
  output,    \* the letters printed so far
  created,   \* number of threads created
  mpc,       \* where main() is: init, create, join, destroy, exited or failed
  objects    \* the barriers that are initialised and not destroyed

vars == <<avars, tpc, output, created, mpc, objects>>

Running == mpc \notin {"exited", "failed"}

-----------------------------------------------------------------------------
(***************************************************************************)
(* The choices of the code that the actions are built from, with mutated   *)
(* forms that no specification uses.                                       *)
(***************************************************************************)

\* Mutated form of barriers: no thread waits before it prints.
barriersOneSided(t) == <<{}, {t} \cap Barriers>>

\* Mutated form of barriers: the two barriers of a thread are exchanged.
barriersSwapped(t) == <<{t} \cap Barriers, {t - 1} \cap Barriers>>

\* The member barriers of the thread's state_t: the barrier it shares with its
\* predecessor and the one it shares with its successor, or none (NULL).
barriers(t) == <<{t - 1} \cap Barriers, {t} \cap Barriers>>

\* The barrier that main() initialises next.
NextBarrier == Cardinality(objects) + 1

\* Mutated form of Joined: one join too few.
JoinedButLast == 1 .. N - 1

Joined == Threads

-----------------------------------------------------------------------------
BOInit ==
  /\ Init
  /\ tpc = [t \in Threads |-> "unborn"]
  /\ output = <<>>
  /\ created = 0
  /\ mpc = "init"
  /\ objects = {}

\* barrier_init of one barrier after the other; an error ends the process.
InitBarrier ==
  /\ mpc = "init"
  /\ Cardinality(objects) < N - 1
  /\ objects' = objects \cup {NextBarrier}
  /\ UNCHANGED <<avars, tpc, output, created, mpc>>

InitDone ==
  /\ mpc = "init"
  /\ objects = Barriers
  /\ mpc' = "create"
  /\ UNCHANGED <<avars, tpc, output, created, objects>>

CreateThread ==
  /\ mpc = "create"
  /\ created' = created + 1
  /\ tpc' = [tpc EXCEPT ![CreationOrder[created + 1]] = "before"]
  /\ mpc' = IF created + 1 = N THEN "join" ELSE mpc
  /\ UNCHANGED <<avars, output, objects>>

\* exit(1) and exit(2)
LibraryFails ==
  /\ \/ mpc = "init" /\ objects # Barriers
     \/ mpc = "create"
  /\ mpc' = "failed"
  /\ UNCHANGED <<avars, tpc, output, created, objects>>

JoinAll ==
  /\ mpc = "join"
  /\ \A t \in Joined : tpc[t] = "done"
  /\ mpc' = "destroy"
  /\ UNCHANGED <<avars, tpc, output, created, objects>>

DestroyBarrier ==
  /\ mpc = "destroy"
  /\ \E b \in objects : (\A c \in objects : b <= c) /\ objects' = objects \ {b}
  /\ UNCHANGED <<avars, tpc, output, created, mpc>>

Exit ==
  /\ mpc = "destroy"
  /\ objects = {}
  /\ mpc' = "exited"
  /\ UNCHANGED <<avars, tpc, output, created, objects>>

Main ==
  InitBarrier \/ InitDone \/ CreateThread \/ LibraryFails
  \/ JoinAll \/ DestroyBarrier \/ Exit

-----------------------------------------------------------------------------
Goes(t, from, to) == tpc[t] = from /\ tpc' = [tpc EXCEPT ![t] = to]

\* pthread_barrier_wait of one of the thread's barriers ...
Call(t, bs, from, to) ==
  /\ Goes(t, from, to)
  /\ \E b \in bs : Gather(t, b) \/ Complete(t, b)
  /\ UNCHANGED <<output, created, mpc, objects>>

\* ... its return ...
Return(t, bs, from, to) ==
  /\ Goes(t, from, to)
  /\ \E b \in bs : Depart(t, b)
  /\ UNCHANGED <<output, created, mpc, objects>>

\* ... or nothing, where the thread has none.
Skip(t, bs, from, to) ==
  /\ bs = {}
  /\ Goes(t, from, to)
  /\ UNCHANGED <<avars, output, created, mpc, objects>>

PrintLetter(t) ==
  /\ Goes(t, "print", "after")
  /\ output' = Append(output, Order[t])
  /\ UNCHANGED <<avars, created, mpc, objects>>

Thread(t) ==
  \/ Call(t, barriers(t)[1], "before", "in first")
  \/ Return(t, barriers(t)[1], "in first", "print")
  \/ Skip(t, barriers(t)[1], "before", "print")
  \/ PrintLetter(t)
  \/ Call(t, barriers(t)[2], "after", "in second")
  \/ Return(t, barriers(t)[2], "in second", "done")
  \/ Skip(t, barriers(t)[2], "after", "done")

Terminated == ~ Running /\ UNCHANGED vars

BONext ==
  \/ Running /\ (Main \/ \E t \in Threads : Thread(t))
  \/ Terminated

BOSafetySpec == BOInit /\ [][BONext]_vars

(***************************************************************************)
(* main() and every thread keep running while the process lives.           *)
(***************************************************************************)
BOSpec ==
  /\ BOSafetySpec
  /\ WF_vars(Running /\ Main)
  /\ \A t \in Threads : WF_vars(Running /\ Thread(t))

-----------------------------------------------------------------------------
TypeOK ==
  /\ gathering \in [Barriers -> SUBSET Threads]
  /\ released \in [Barriers -> SUBSET Threads]
  /\ tpc \in [Threads -> {"unborn", "before", "in first", "print",
                          "after", "in second", "done"}]
  /\ output \in Seq({Order[n] : n \in 1 .. N}) /\ Len(output) <= N
  /\ created \in 0 .. N
  /\ mpc \in {"init", "create", "join", "destroy", "exited", "failed"}
  /\ objects \subseteq Barriers

(***************************************************************************)
(* The letters appear one at a time and in order, although the threads are *)
(* created in another order and each pair knows only its own barrier.      *)
(***************************************************************************)
Ordered == INSTANCE Relay

PrintsInOrder == Ordered!SafetySpec

(***************************************************************************)
(* Each barrier is used by its two threads once: whoever completes a round *)
(* finds nobody left of another, and no barrier is used before it is       *)
(* initialised or after it is destroyed.                                   *)
(***************************************************************************)
BarriersUsedInTime ==
  \A b \in Barriers :
    /\ Engaged(b) \subseteq {b, b + 1}
    /\ Engaged(b) # {} => b \in objects
    /\ gathering[b] = {} \/ released[b] = {}

(***************************************************************************)
(* With the types: never more letters than threads, nor a thread inside a  *)
(* barrier that main() does not know.                                      *)
(***************************************************************************)
BarriersInTurn == TypeOK /\ BarriersUsedInTime

(***************************************************************************)
(* Once all threads exist every letter is printed and the program ends.    *)
(***************************************************************************)
AllPrint == mpc = "join" ~> mpc = "exited" /\ output = Order
=============================================================================
