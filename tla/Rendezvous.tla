----------------------------- MODULE Rendezvous -----------------------------
(***************************************************************************)
(* What a reusable barrier promises to its callers: barrier_wait() of      *)
(* ch16/h2o.c and ch16/shared_heap.c, and pthread_barrier_wait() of the    *)
(* programs and branches that take the barrier from the library.           *)
(*                                                                         *)
(* A caller is gathered until barrier_thread_limit callers are; then, in   *)
(* one step, all of them are released and the next gathering starts empty. *)
(* A released caller departs on its own.                                   *)
(***************************************************************************)
EXTENDS Naturals, FiniteSets

CONSTANTS
  Threads,               \* the threads that may call the barriers
  Barriers,              \* the barrier objects
  barrier_thread_limit   \* callers a round of each barrier takes

VARIABLES
  gathering,   \* of each barrier, the callers of the round in progress
  released     \* of each barrier, the callers let go that have not returned

avars == <<gathering, released>>

Engaged(b) == gathering[b] \cup released[b]

Init ==
  /\ gathering = [b \in Barriers |-> {}]
  /\ released  = [b \in Barriers |-> {}]

\* A caller that does not complete the round waits for the others.
Gather(t, b) ==
  /\ \A c \in Barriers : t \notin Engaged(c)
  /\ Cardinality(gathering[b]) + 1 < barrier_thread_limit[b]
  /\ gathering' = [gathering EXCEPT ![b] = @ \cup {t}]
  /\ UNCHANGED released

\* The caller that completes the round releases everybody, itself included.
\* Nobody of the round before is left behind: rounds never overlap.
Complete(t, b) ==
  /\ \A c \in Barriers : t \notin Engaged(c)
  /\ Cardinality(gathering[b]) + 1 = barrier_thread_limit[b]
  /\ released[b] = {}
  /\ released'  = [released EXCEPT ![b] = gathering[b] \cup {t}]
  /\ gathering' = [gathering EXCEPT ![b] = {}]

Depart(t, b) ==
  /\ t \in released[b]
  /\ released' = [released EXCEPT ![b] = @ \ {t}]
  /\ UNCHANGED gathering

Next ==
  \E t \in Threads, b \in Barriers :
    Gather(t, b) \/ Complete(t, b) \/ Depart(t, b)

SafetySpec == Init /\ [][Next]_avars

\* A released caller is never left inside.
Spec == SafetySpec /\ \A t \in Threads, b \in Barriers : WF_avars(Depart(t, b))
=============================================================================
