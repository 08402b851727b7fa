------------------------------ MODULE SharedHeap ------------------------------
(***************************************************************************)
(* ch16/shared_heap.c on Linux: one thread allocates an array, two fill    *)
(* every other cell of it, two print it and one frees it.  Three barriers  *)
(* order them: alloc_barrier before the first cell is written,             *)
(* fill_barrier before the first one is printed, done_barrier before the   *)
(* array is freed and the barriers are destroyed.                          *)
(*                                                                         *)
(* A store through a null or a freed pointer, or past the end of the       *)
(* array, is a fault that ends the process.  A letter is represented by    *)
(* the filler that wrote it.                                               *)
(***************************************************************************)
EXTENDS CvBarrier

CONSTANTS
  alloc_thread, even_filler_thread, odd_filler_thread, dealloc_thread,
  Printers,                \* printer_thread_1 and printer_thread_2; any number here
  alloc_barrier, fill_barrier, done_barrier,
  Len                      \* what alloc_thread makes shared_array_len

Fillers == {even_filler_thread, odd_filler_thread}

\* The order in which main() creates the threads; the printers are alike.
CreationOrder == <<{alloc_thread}, {even_filler_thread}, {odd_filler_thread},
                   Printers, {dealloc_thread}>>

ASSUME SharedHeapAssumption ==
  /\ Threads = UNION {CreationOrder[n] : n \in 1 .. 5}
  /\ Printers # {}
  /\ Cardinality(Threads) = Cardinality(Printers) + 4
  /\ Barriers = {alloc_barrier, fill_barrier, done_barrier}
  /\ Cardinality(Barriers) = 3
  /\ barrier_thread_limit[alloc_barrier] = 3
  /\ barrier_thread_limit[fill_barrier] = Cardinality(Printers) + 2
  /\ barrier_thread_limit[done_barrier] = Cardinality(Printers) + 1
  /\ Len \in Nat \ {0}

VARIABLES
  shared_array,       \* contents of the array
  heap,               \* what the pointer shared_array points to
  shared_array_len,
  index,              \* the local variable i of the fillers
  tpc,                \* where each thread is in its body
  destroyed,          \* the barriers that have been destroyed
  process             \* running, or how it ended

heapvars == <<shared_array, heap, shared_array_len>>
vars == <<heapvars, index, tpc, destroyed, process, bvars>>

Cells == 0 .. Len - 1

-----------------------------------------------------------------------------
(***************************************************************************)
(* The choices of the code that the actions are built from, with mutated   *)
(* forms that no specification uses.                                       *)
(***************************************************************************)

\* Mutated form of FirstBarrier: dealloc_thread waits at the wrong barrier.
FirstBarrierEarlyFree(t) ==
  IF t \in Printers \cup {dealloc_thread} THEN fill_barrier ELSE alloc_barrier

\* Mutated form of FirstBarrier: the printers do not wait for the fillers.
FirstBarrierEarlyPrint(t) ==
  IF t = dealloc_thread THEN done_barrier ELSE alloc_barrier

\* The barrier each thread calls first, and the second one of those that
\* call two.
FirstBarrier(t) ==
  CASE t \in {alloc_thread} \cup Fillers -> alloc_barrier
    [] t \in Printers -> fill_barrier
    [] t = dealloc_thread -> done_barrier

SecondBarrier(t) == IF t \in Fillers THEN fill_barrier ELSE done_barrier

start_index(t) == IF t = even_filler_thread THEN 0 ELSE 1

NextIndex(i) == i + 2

\* Mutated form of LastCell: the terminator goes past the end.
LastCellOff(n) == n

LastCell(n) == n - 1

-----------------------------------------------------------------------------
Init ==
  /\ shared_array = [i \in Cells |-> "raw"]
  /\ heap = "null"
  /\ shared_array_len = 0
  /\ index = [t \in Fillers |-> 0]
  /\ tpc = [t \in Threads |-> "unborn"]
  /\ destroyed = {}
  /\ process = "running"
  /\ BarrierInit
  /\ at = [t \in Threads |-> FirstBarrier(t)]   \* before a call any value does

\* main() creates one thread after the other ...
NextToCreate ==
  {t \in Threads : /\ tpc[t] = "unborn"
                   /\ \A m, n \in 1 .. 5 : m < n /\ t \in CreationOrder[n] =>
                        \A u \in CreationOrder[m] : tpc[u] # "unborn"}

CreateThread(t) ==
  /\ t \in NextToCreate
  /\ tpc' = [tpc EXCEPT ![t] = "start"]
  /\ UNCHANGED <<heapvars, index, destroyed, process, bvars>>

\* ... gives up when a call fails (CHECK_RESULT) ...
CreateFails ==
  /\ NextToCreate # {}
  /\ process' = "failed"
  /\ UNCHANGED <<heapvars, index, tpc, destroyed, bvars>>

\* ... and leaves the process to the threads, which are detached.
LastThreadEnds ==
  /\ \A t \in Threads : tpc[t] = "done"
  /\ process' = "exited"
  /\ UNCHANGED <<heapvars, index, tpc, destroyed, bvars>>

Main == (\E t \in Threads : CreateThread(t)) \/ CreateFails \/ LastThreadEnds

-----------------------------------------------------------------------------
\* A thread goes on to a place of its body.
Goes(t, from, to) == tpc[t] = from /\ tpc' = [tpc EXCEPT ![t] = to]

\* barrier_wait has returned.
Returned(t) == bpc[t] = "out"

Allocate(t) ==
  /\ t = alloc_thread
  /\ Goes(t, "start", "first")
  /\ shared_array_len' = Len
  /\ heap' \in {"allocated", "null"}
  /\ Enter(t, FirstBarrier(t))
  /\ UNCHANGED <<shared_array, index, destroyed, process>>

CallFirst(t) ==
  /\ t # alloc_thread
  /\ Goes(t, "start", "first")
  /\ Enter(t, FirstBarrier(t))
  /\ UNCHANGED <<heapvars, index, destroyed, process>>

StartFill(t) ==
  /\ t \in Fillers
  /\ Returned(t)
  /\ Goes(t, "first", "fill")
  /\ index' = [index EXCEPT ![t] = start_index(t)]
  /\ UNCHANGED <<heapvars, destroyed, process, bvars>>

Store(i, v) ==
  IF heap = "allocated" /\ i \in Cells
  THEN shared_array' = [shared_array EXCEPT ![i] = v] /\ UNCHANGED process
  ELSE process' = "faulted" /\ UNCHANGED shared_array

FillCell(t) ==
  /\ t \in Fillers
  /\ tpc[t] = "fill"
  /\ index[t] < shared_array_len
  /\ Store(index[t], t)
  /\ index' = [index EXCEPT ![t] = NextIndex(@)]
  /\ UNCHANGED <<heap, shared_array_len, tpc, destroyed, bvars>>

\* Both fillers write the terminator, and call fill_barrier.
Terminate(t) ==
  /\ t \in Fillers
  /\ index[t] >= shared_array_len
  /\ Goes(t, "fill", "second")
  /\ Store(LastCell(shared_array_len), "NUL")
  /\ Enter(t, SecondBarrier(t))
  /\ UNCHANGED <<heap, shared_array_len, index, destroyed>>

\* printf reads the array from its call to its return.
StartPrint(t) ==
  /\ t \in Printers
  /\ Returned(t)
  /\ Goes(t, "first", "printing")
  /\ UNCHANGED <<heapvars, index, destroyed, process, bvars>>

EndPrint(t) ==
  /\ t \in Printers
  /\ Goes(t, "printing", "second")
  /\ Enter(t, SecondBarrier(t))
  /\ UNCHANGED <<heapvars, index, destroyed, process>>

Free(t) ==
  /\ t = dealloc_thread
  /\ Returned(t)
  /\ Goes(t, "first", "destroy")
  /\ heap' = IF heap = "allocated" THEN "freed" ELSE heap
  /\ UNCHANGED <<shared_array, shared_array_len, index, destroyed,
                 process, bvars>>

\* barrier_destroy of alloc_barrier, fill_barrier and done_barrier, in turn.
Destroy(t, b) ==
  /\ t = dealloc_thread
  /\ tpc[t] = "destroy"
  /\ b \notin destroyed
  /\ b = fill_barrier => alloc_barrier \in destroyed
  /\ b = done_barrier => fill_barrier \in destroyed
  /\ destroyed' = destroyed \cup {b}
  /\ tpc' = [tpc EXCEPT ![t] = IF b = done_barrier THEN "done" ELSE @]
  /\ UNCHANGED <<heapvars, index, process, bvars>>

Return(t) ==
  /\ Returned(t)
  /\ IF t = alloc_thread THEN Goes(t, "first", "done") ELSE Goes(t, "second", "done")
  /\ UNCHANGED <<heapvars, index, destroyed, process, bvars>>

\* A step inside barrier_wait.  A barrier that has been destroyed still lets
\* go of the threads it has released: the calls of the library return, at
\* worst with an error that barrier_wait does not look at.
InBarrier(t) ==
  BarrierStep(t) /\ UNCHANGED <<heapvars, index, tpc, destroyed, process>>

WokenInBarrier(t) ==
  SpuriousWakeup(t) /\ UNCHANGED <<heapvars, index, tpc, destroyed, process>>

Thread(t) ==
  \/ Allocate(t) \/ CallFirst(t)
  \/ StartFill(t) \/ FillCell(t) \/ Terminate(t)
  \/ StartPrint(t) \/ EndPrint(t)
  \/ Free(t) \/ \E b \in Barriers : Destroy(t, b)
  \/ InBarrier(t) \/ Return(t)

\* The process has ended.
Terminated == process # "running" /\ UNCHANGED vars

Next ==
  \/ process = "running" /\ (Main \/ \E t \in Threads : Thread(t) \/ WokenInBarrier(t))
  \/ Terminated

SafetySpec == Init /\ [][Next]_vars

(***************************************************************************)
(* While the process lives and one of its threads, main() included, can    *)
(* run, one does, and spurious wakeups come to an end.  Which thread runs  *)
(* is left open: no thread of the program loops for ever by itself.        *)
(***************************************************************************)
Fairness ==
  /\ WF_vars(process = "running" /\ (Main \/ \E t \in Threads : Thread(t)))
  /\ <>[][~ \E t \in Threads : SpuriousWakeup(t)]_vars

Spec == SafetySpec /\ Fairness

-----------------------------------------------------------------------------
TypeOK ==
  /\ BarrierTypeOK
  /\ shared_array \in [Cells -> {"raw", "NUL"} \cup Fillers]
  /\ heap \in {"null", "allocated", "freed"}
  /\ shared_array_len \in {0, Len}
  /\ index \in [Fillers -> 0 .. Len + 1]
  /\ tpc \in [Threads -> {"unborn", "start", "first", "fill", "printing",
                          "second", "destroy", "done"}]
  /\ destroyed \subseteq Barriers
  /\ process \in {"running", "failed", "faulted", "exited"}

(***************************************************************************)
(* What a printer reads, from the start of printf to its end, is a string: *)
(* the array is allocated, each filler's letters are in its own cells, and *)
(* the terminator is in the last cell, whichever of the fillers was last.  *)
(***************************************************************************)
Complete ==
  /\ heap = "allocated"
  /\ shared_array[Len - 1] = "NUL"
  /\ \A i \in 0 .. Len - 2 :
       shared_array[i] = IF i % 2 = 0 THEN even_filler_thread ELSE odd_filler_thread

PrintsComplete == \A t \in Printers : tpc[t] = "printing" => Complete

(***************************************************************************)
(* No thread stores through a null or freed pointer or past the array,     *)
(* unless malloc failed, which alloc_thread does not check.                *)
(***************************************************************************)
FaultsOnlyOutOfMemory == process = "faulted" => heap = "null" /\ shared_array_len = Len

(***************************************************************************)
(* The same with the types: the indices of both fillers end at most one    *)
(* step beyond the array, and what they store beyond it, if anything,      *)
(* would be a fault.                                                       *)
(***************************************************************************)
StoresInBounds == TypeOK /\ FaultsOnlyOutOfMemory

(***************************************************************************)
(* Each barrier is used with the discipline it needs: never more threads   *)
(* inside than its limit.                                                  *)
(***************************************************************************)
UsesBarriers == BarrierSafetySpec

(***************************************************************************)
(* Nobody can block on a barrier that has been destroyed: no thread is     *)
(* still to call it, on its way to be counted, or asleep in it.            *)
(***************************************************************************)
StillToCall(b) ==
  {t \in Threads : \/ tpc[t] \in {"unborn", "start"} /\ FirstBarrier(t) = b
                   \/ /\ t \in Fillers \cup Printers
                      /\ tpc[t] \in {"unborn", "start", "first", "fill", "printing"}
                      /\ SecondBarrier(t) = b}

DestroyedBlocksNobody ==
  \A b \in destroyed :
    /\ StillToCall(b) = {}
    /\ \A t \in Inside(b) : bpc[t] \notin {"lock", "arrive", "asleep"}

(***************************************************************************)
(* Once all threads exist the array is freed, the barriers are destroyed   *)
(* and the process ends, unless it died of a failed malloc.                *)
(***************************************************************************)
ArrayFreed ==
  NextToCreate = {} ~> \/ process = "exited" /\ heap = "freed" /\ destroyed = Barriers
                 \/ process = "faulted"

(***************************************************************************)
(* What shared_heap.c:4-5 says the barriers are for: the threads are       *)
(* synchronised, so that a barrier is destroyed when nobody uses it.       *)
(***************************************************************************)
DestroysUnused == \A b \in destroyed : Inside(b) = {}
=============================================================================
