------------------------------ MODULE CvBarrier ------------------------------
(***************************************************************************)
(* The barrier that ch16/h2o.c (33-47) and ch16/shared_heap.c (34-73)      *)
(* build from a mutex and a condition variable on Linux: one object per    *)
(* element of Barriers, and barrier_wait() as the steps of its caller      *)
(* between two points where another thread can run.                        *)
(*                                                                         *)
(* barrier_round is an unsigned int: it counts modulo RoundMod, which is   *)
(* 2^32 in the program and as small as 2 in the runs.                      *)
(***************************************************************************)
EXTENDS Naturals, FiniteSets

CONSTANTS
  Threads,                \* the threads that may call barrier_wait
  Barriers,               \* the barrier objects
  barrier_thread_limit,   \* the limit barrier_init gives each of them
  RoundMod,               \* number of values of barrier_round
  NoThread                \* the owner of a mutex nobody holds

ASSUME CvBarrierAssumption ==
  /\ IsFiniteSet(Threads)
  /\ NoThread \notin Threads
  /\ barrier_thread_limit \in [Barriers -> Nat \ {0}]
  /\ RoundMod \in Nat
  /\ RoundMod >= 2

VARIABLES
  barrier_mutex,          \* owner of each barrier's mutex
  barrier_thread_count,   \* arrivals of the round in progress
  barrier_round,          \* round number of each barrier
  bpc,                    \* where each thread is in barrier_wait
  at,                     \* the barrier each thread called last
  my_round                \* the local variable my_round of each thread

bvars == <<barrier_mutex, barrier_thread_count, barrier_round,
           bpc, at, my_round>>

\* Places in barrier_wait where a thread holds barrier_mutex ...
Critical == {"arrive", "recheck", "unlock"}

\* ... and places in its waiting loop.
Waiting == {"asleep", "relock", "recheck"}

Places == Critical \cup Waiting \cup {"out", "lock"}

Inside(b) == {t \in Threads : bpc[t] # "out" /\ at[t] = b}

\* Callers counted in the round in progress, and callers of a completed
\* round that have not returned.
Gathering(b) ==
  {t \in Threads : at[t] = b /\ bpc[t] \in Waiting /\ my_round[t] = barrier_round[b]}

Released(b) ==
  {t \in Threads : /\ at[t] = b
                   /\ \/ bpc[t] = "unlock"
                      \/ bpc[t] \in Waiting /\ my_round[t] # barrier_round[b]}

-----------------------------------------------------------------------------
(***************************************************************************)
(* The choices and updates of the code that the actions are built from.    *)
(* A definition commented as a mutated form is a bug this code could have  *)
(* had; no specification uses it.                                          *)
(***************************************************************************)

NextRound(r) == (r + 1) % RoundMod

MutexFree(b) == barrier_mutex[b] = NoThread

\* Mutated form of CompletesRound: the limit is compared with the old count.
CompletesRoundLate(b) == barrier_thread_count[b] >= barrier_thread_limit[b]

\* Mutated form of CompletesRound: one caller too few.
CompletesRoundEarly(b) == barrier_thread_count[b] + 2 >= barrier_thread_limit[b]

CompletesRound(b) == barrier_thread_count[b] + 1 >= barrier_thread_limit[b]

\* Mutated form of Woken: nobody is woken.
WokenNone(b) == {}

\* pthread_cond_broadcast wakes every thread blocked on the variable.
Woken(b) == {t \in Threads : bpc[t] = "asleep" /\ at[t] = b}

\* Mutated form of KeepsWaiting: an `if' instead of the loop.
KeepsWaitingNever(t) == FALSE

KeepsWaiting(t) == my_round[t] = barrier_round[at[t]]

\* Mutated form of CountAfterRound: the count is not reset.
CountAfterRoundKept(b) == barrier_thread_count[b] + 1

CountAfterRound(b) == 0

-----------------------------------------------------------------------------
BarrierInit ==
  /\ barrier_mutex        = [b \in Barriers |-> NoThread]
  /\ barrier_thread_count = [b \in Barriers |-> 0]
  /\ barrier_round        = [b \in Barriers |-> 0]
  /\ bpc                  = [t \in Threads |-> "out"]
  /\ at                   \in [Threads -> Barriers]
  /\ my_round             = [t \in Threads |-> 0]

\* The call of barrier_wait(b).
Enter(t, b) ==
  /\ bpc[t] = "out"
  /\ bpc' = [bpc EXCEPT ![t] = "lock"]
  /\ at'  = [at EXCEPT ![t] = b]
  /\ UNCHANGED <<barrier_mutex, barrier_thread_count, barrier_round, my_round>>

Lock(t) ==
  /\ bpc[t] = "lock"
  /\ MutexFree(at[t])
  /\ barrier_mutex' = [barrier_mutex EXCEPT ![at[t]] = t]
  /\ bpc' = [bpc EXCEPT ![t] = "arrive"]
  /\ UNCHANGED <<barrier_thread_count, barrier_round, at, my_round>>

\* The last caller of a round: reset the count, open the next round, broadcast.
ArriveLast(t) ==
  /\ bpc[t] = "arrive"
  /\ CompletesRound(at[t])
  /\ barrier_thread_count' =
       [barrier_thread_count EXCEPT ![at[t]] = CountAfterRound(at[t])]
  /\ barrier_round' = [barrier_round EXCEPT ![at[t]] = NextRound(@)]
  /\ bpc' = [s \in Threads |-> IF s = t THEN "unlock"
                               ELSE IF s \in Woken(at[t]) THEN "relock"
                               ELSE bpc[s]]
  /\ UNCHANGED <<barrier_mutex, at, my_round>>

\* Any other caller: remember the round and block, which frees the mutex.
ArriveWait(t) ==
  /\ bpc[t] = "arrive"
  /\ ~ CompletesRound(at[t])
  /\ barrier_thread_count' = [barrier_thread_count EXCEPT ![at[t]] = @ + 1]
  /\ my_round' = [my_round EXCEPT ![t] = barrier_round[at[t]]]
  /\ barrier_mutex' = [barrier_mutex EXCEPT ![at[t]] = NoThread]
  /\ bpc' = [bpc EXCEPT ![t] = "asleep"]
  /\ UNCHANGED <<barrier_round, at>>

\* pthread_cond_wait may return without a broadcast.
SpuriousWakeup(t) ==
  /\ bpc[t] = "asleep"
  /\ bpc' = [bpc EXCEPT ![t] = "relock"]
  /\ UNCHANGED <<barrier_mutex, barrier_thread_count, barrier_round, at, my_round>>

\* A woken thread takes the mutex again before pthread_cond_wait returns.
Relock(t) ==
  /\ bpc[t] = "relock"
  /\ MutexFree(at[t])
  /\ barrier_mutex' = [barrier_mutex EXCEPT ![at[t]] = t]
  /\ bpc' = [bpc EXCEPT ![t] = "recheck"]
  /\ UNCHANGED <<barrier_thread_count, barrier_round, at, my_round>>

\* The loop condition holds: block again.
WaitAgain(t) ==
  /\ bpc[t] = "recheck"
  /\ KeepsWaiting(t)
  /\ barrier_mutex' = [barrier_mutex EXCEPT ![at[t]] = NoThread]
  /\ bpc' = [bpc EXCEPT ![t] = "asleep"]
  /\ UNCHANGED <<barrier_thread_count, barrier_round, at, my_round>>

\* The round is over: leave the loop.
LeaveLoop(t) ==
  /\ bpc[t] = "recheck"
  /\ ~ KeepsWaiting(t)
  /\ bpc' = [bpc EXCEPT ![t] = "unlock"]
  /\ UNCHANGED <<barrier_mutex, barrier_thread_count, barrier_round, at, my_round>>

\* Unlock and return to the caller.
Unlock(t) ==
  /\ bpc[t] = "unlock"
  /\ barrier_mutex' = [barrier_mutex EXCEPT ![at[t]] = NoThread]
  /\ bpc' = [bpc EXCEPT ![t] = "out"]
  /\ UNCHANGED <<barrier_thread_count, barrier_round, at, my_round>>

\* What a thread does by itself once it has called barrier_wait.
BarrierStep(t) ==
  \/ Lock(t) \/ ArriveLast(t) \/ ArriveWait(t)
  \/ Relock(t) \/ WaitAgain(t) \/ LeaveLoop(t) \/ Unlock(t)

BarrierWait(t) == BarrierStep(t) \/ SpuriousWakeup(t)

(***************************************************************************)
(* The barrier with its most general caller: any thread may call any       *)
(* barrier, again and again, as long as no more threads than its limit are *)
(* inside at a time.  The programs keep to that (H2O and SharedHeap check  *)
(* it); without it a round could complete while a thread of an earlier one *)
(* is still on its way out, and after RoundMod such rounds that thread     *)
(* would take the current round for its own.                               *)
(***************************************************************************)
Call(t, b) == Cardinality(Inside(b)) < barrier_thread_limit[b] /\ Enter(t, b)

BarrierNext == \E t \in Threads : BarrierWait(t) \/ \E b \in Barriers : Call(t, b)

BarrierSafetySpec == BarrierInit /\ [][BarrierNext]_bvars

(***************************************************************************)
(* Every thread keeps running, and spurious wakeups come to an end: a      *)
(* thread woken for ever without a reason could keep the mutex busy.       *)
(***************************************************************************)
BarrierFairness ==
  /\ \A t \in Threads : WF_bvars(BarrierStep(t))
  /\ <>[][~ \E t \in Threads : SpuriousWakeup(t)]_bvars

BarrierSpec == BarrierSafetySpec /\ BarrierFairness

-----------------------------------------------------------------------------
BarrierTypeOK ==
  /\ barrier_mutex \in [Barriers -> Threads \cup {NoThread}]
  /\ barrier_thread_count \in [Barriers -> Nat]
  /\ barrier_round \in [Barriers -> 0 .. RoundMod - 1]
  /\ bpc \in [Threads -> Places]
  /\ at \in [Threads -> Barriers]
  /\ my_round \in [Threads -> 0 .. RoundMod - 1]

\* barrier_mutex is held by exactly the thread that is in the critical part.
MutexInv ==
  \A b \in Barriers, t \in Threads :
    barrier_mutex[b] = t <=> at[t] = b /\ bpc[t] \in Critical

(***************************************************************************)
(* barrier_thread_count is the number of threads parked on the round in    *)
(* progress, and is always below the limit: a count kept, lost or taken    *)
(* over from another round would make a round too short or too long.       *)
(***************************************************************************)
CountInv ==
  \A b \in Barriers :
    /\ barrier_thread_count[b] = Cardinality(Gathering(b))
    /\ barrier_thread_count[b] < barrier_thread_limit[b]

(***************************************************************************)
(* No thread sleeps on a round that is over: the broadcast reached every   *)
(* thread that the loop of barrier_wait would let go.                      *)
(***************************************************************************)
NoLostWakeup ==
  \A t \in Threads : bpc[t] = "asleep" => my_round[t] = barrier_round[at[t]]

(***************************************************************************)
(* A thread is never more than one round behind its barrier, so that the   *)
(* comparison my_round == barrier_round is right in spite of the wrap of   *)
(* the unsigned counter.                                                   *)
(***************************************************************************)
AtMostOneRoundBehind ==
  \A t \in Threads :
    bpc[t] \in Waiting =>
      barrier_round[at[t]] \in {my_round[t], NextRound(my_round[t])}

\* The caller's discipline, which Call enforces here.
Discipline == \A b \in Barriers : Cardinality(Inside(b)) <= barrier_thread_limit[b]

(***************************************************************************)
(* The mutex, the counter, the round numbers and the sleepers of           *)
(* barrier_wait are in step with where the threads are, at every point     *)
(* where another thread can run.  The parts need each other: together they *)
(* are inductive.                                                          *)
(***************************************************************************)
BarrierInv ==
  /\ BarrierTypeOK
  /\ MutexInv
  /\ CountInv
  /\ NoLostWakeup
  /\ AtMostOneRoundBehind
  /\ Discipline

(***************************************************************************)
(* barrier_wait implements the abstract barrier.                           *)
(***************************************************************************)
Abstract ==
  INSTANCE Rendezvous WITH
    gathering <- [b \in Barriers |-> Gathering(b)],
    released  <- [b \in Barriers |-> Released(b)]

\* Safety: nobody returns before the round is complete, rounds do not overlap.
ImplementsRendezvous == Abstract!SafetySpec

\* Liveness: whoever has been released returns.
ReleasedReturn ==
  \A t \in Threads, b \in Barriers : t \in Released(b) ~> bpc[t] = "out"
=============================================================================
