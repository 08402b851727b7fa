--------------------------- MODULE SharedHeapProofs ---------------------------
(***************************************************************************)
(* Proofs about SharedHeap for any length of the array, any number of      *)
(* printers and any width of the round counter.  Everything rests on one   *)
(* fact: each barrier has as many users as its limit and each of them      *)
(* calls it once, so that a barrier completes one round, and only when all *)
(* of its users have come.                                                 *)
(***************************************************************************)
EXTENDS SharedHeap, CvBarrierProofs

\* Threads that call two barriers.
Twice == Fillers \cup Printers

Users(b) == {t \in Threads : FirstBarrier(t) = b \/ (t \in Twice /\ SecondBarrier(t) = b)}

Called(t, b) ==
  \/ FirstBarrier(t) = b /\ tpc[t] \notin {"unborn", "start"}
  \/ t \in Twice /\ SecondBarrier(t) = b /\ tpc[t] \in {"second", "done"}

\* The barrier has completed its round.
Open(b) == barrier_round[b] = 1

(***************************************************************************)
(* Each thread keeps to its body.                                          *)
(***************************************************************************)
BodiesInv ==
  \A t \in Threads :
    /\ tpc[t] = "first" => at[t] = FirstBarrier(t)
    /\ tpc[t] = "second" => t \in Twice /\ at[t] = SecondBarrier(t)
    /\ bpc[t] # "out" => tpc[t] \in {"first", "second"}
    /\ tpc[t] = "fill" => t \in Fillers
    /\ tpc[t] = "printing" => t \in Printers
    /\ tpc[t] = "destroy" => t = dealloc_thread

(***************************************************************************)
(* A barrier is either closed, with everybody who called it inside, or     *)
(* open for good, with nobody to come and nobody asleep.                   *)
(***************************************************************************)
RoundsInv ==
  /\ \A t \in Threads : my_round[t] = 0
  /\ \A b \in Barriers :
       /\ barrier_round[b] \in {0, 1}
       /\ Open(b) =>
            \A t \in Users(b) :
              /\ Called(t, b)
              /\ at[t] = b => bpc[t] \notin {"lock", "arrive", "asleep"}
       /\ ~ Open(b) =>
            \A t \in Users(b) :
              /\ Called(t, b) => at[t] = b /\ bpc[t] # "out"
              /\ at[t] = b => bpc[t] # "unlock"

(***************************************************************************)
(* The array is allocated before alloc_thread's call and freed after       *)
(* dealloc_thread's; barriers are destroyed after that.                    *)
(***************************************************************************)
HeapInv ==
  /\ IF tpc[alloc_thread] \in {"unborn", "start"}
     THEN shared_array_len = 0 /\ heap = "null"
     ELSE shared_array_len = Len
  /\ heap = "freed" => tpc[dealloc_thread] \in {"destroy", "done"}
  /\ destroyed # {} => tpc[dealloc_thread] \in {"destroy", "done"}
  /\ process = "faulted" => heap = "null" /\ shared_array_len = Len /\ ~ Open(fill_barrier)

(***************************************************************************)
(* A filler has written its letters in every cell below its index, and the *)
(* last one to terminate the array has done so.                            *)
(***************************************************************************)
Mine(t, i) == i % 2 = start_index(t)

FillInv ==
  process # "faulted" =>
    /\ \A t \in Fillers :
         /\ tpc[t] = "fill" =>
              /\ Mine(t, index[t])
              /\ \A i \in 0 .. Len - 2 :
                   Mine(t, i) /\ i < index[t] => shared_array[i] = t
         /\ tpc[t] \in {"second", "done"} =>
              /\ heap # "null"
              /\ \A i \in 0 .. Len - 2 : Mine(t, i) => shared_array[i] = t
    /\ (\A t \in Fillers : tpc[t] \in {"second", "done"}) => shared_array[Len - 1] = "NUL"

SHInv == TypeOK /\ BarrierInv /\ BodiesInv /\ RoundsInv /\ HeapInv /\ FillInv

-----------------------------------------------------------------------------
(***************************************************************************)
(* The threads are all different, and so are the barriers: counting says   *)
(* so.                                                                     *)
(***************************************************************************)
LEMMA AddOneAtMost ==
  ASSUME NEW S, IsFiniteSet(S), NEW x
  PROVE  /\ IsFiniteSet(S \cup {x})
         /\ Cardinality(S \cup {x}) \in 0 .. Cardinality(S) + 1
<1>1. Cardinality(S) \in Nat
  BY FS_CardinalityType
<1>2. /\ IsFiniteSet(S \cup {x})
      /\ Cardinality(S \cup {x}) =
           IF x \in S THEN Cardinality(S) ELSE Cardinality(S) + 1
  BY FS_AddElement
<1>. QED  BY <1>1, <1>2

LEMMA AddThreeAtMost ==
  ASSUME NEW S, IsFiniteSet(S), NEW x, NEW y, NEW z
  PROVE  Cardinality(S \cup {x, y, z}) <= Cardinality(S) + 3
<1>. DEFINE A == S \cup {x}
            B == A \cup {y}
            C == B \cup {z}
<1>1. IsFiniteSet(A) /\ Cardinality(A) \in 0 .. Cardinality(S) + 1
  BY AddOneAtMost
<1>2. IsFiniteSet(B) /\ Cardinality(B) \in 0 .. Cardinality(A) + 1
  BY <1>1, AddOneAtMost
<1>3. Cardinality(C) \in 0 .. Cardinality(B) + 1
  BY <1>2, AddOneAtMost
<1>4. S \cup {x, y, z} = C
  OBVIOUS
<1>5. Cardinality(S) \in Nat
  BY FS_CardinalityType
<1>. HIDE DEF A, B, C
<1>6. Cardinality(C) <= Cardinality(S) + 3
  BY <1>1, <1>2, <1>3, <1>5
<1>. QED  BY <1>4, <1>6

LEMMA TheThreads ==
  /\ Threads = Printers \cup {alloc_thread, even_filler_thread, odd_filler_thread,
                              dealloc_thread}
  /\ IsFiniteSet(Threads) /\ IsFiniteSet(Printers) /\ Cardinality(Printers) \in Nat
<1>1. Threads = UNION {CreationOrder[n] : n \in 1 .. 5}
  BY SharedHeapAssumption
<1>2. 1 .. 5 = {1, 2, 3, 4, 5}
  OBVIOUS
<1>3. /\ CreationOrder[1] = {alloc_thread} /\ CreationOrder[2] = {even_filler_thread}
      /\ CreationOrder[3] = {odd_filler_thread} /\ CreationOrder[4] = Printers
      /\ CreationOrder[5] = {dealloc_thread}
  BY DEF CreationOrder
<1>4. Threads = CreationOrder[1] \cup CreationOrder[2] \cup CreationOrder[3]
                  \cup CreationOrder[4] \cup CreationOrder[5]
  BY <1>1, <1>2
<1>5. Threads = Printers \cup {alloc_thread, even_filler_thread, odd_filler_thread,
                               dealloc_thread}
  BY <1>3, <1>4
<1>6. IsFiniteSet(Threads) /\ Printers \subseteq Threads
  BY <1>5, CvBarrierAssumption
<1>. QED  BY <1>5, <1>6, FS_Subset, FS_CardinalityType

LEMMA AllDifferent ==
  /\ alloc_thread # even_filler_thread /\ alloc_thread # odd_filler_thread
  /\ alloc_thread # dealloc_thread /\ even_filler_thread # odd_filler_thread
  /\ even_filler_thread # dealloc_thread /\ odd_filler_thread # dealloc_thread
  /\ alloc_thread \notin Printers /\ dealloc_thread \notin Printers
  /\ even_filler_thread \notin Printers /\ odd_filler_thread \notin Printers
<1>1. ASSUME NEW x, NEW y, NEW z, Threads \subseteq Printers \cup {x, y, z}
      PROVE  FALSE
  <2>1. Cardinality(Printers \cup {x, y, z}) <= Cardinality(Printers) + 3
    BY TheThreads, AddThreeAtMost
  <2>2. IsFiniteSet(Printers \cup {x, y, z})
    <3>1. IsFiniteSet(Printers \cup {x})
      BY TheThreads, AddOneAtMost
    <3>2. IsFiniteSet((Printers \cup {x}) \cup {y})
      BY <3>1, AddOneAtMost
    <3>3. IsFiniteSet(((Printers \cup {x}) \cup {y}) \cup {z})
      BY <3>2, AddOneAtMost
    <3>4. Printers \cup {x, y, z} = ((Printers \cup {x}) \cup {y}) \cup {z}
      OBVIOUS
    <3>. QED  BY <3>3, <3>4
  <2>3. Cardinality(Threads) <= Cardinality(Printers \cup {x, y, z})
    BY <1>1, <2>2, FS_Subset
  <2>4. Cardinality(Threads) = Cardinality(Printers) + 4
    BY SharedHeapAssumption
  <2>5. Cardinality(Printers) \in Nat /\ Cardinality(Printers \cup {x, y, z}) \in Nat
    BY <2>2, TheThreads, FS_CardinalityType
  <2>. QED  BY <2>1, <2>3, <2>4, <2>5
<1>2. Threads = Printers \cup {alloc_thread, even_filler_thread, odd_filler_thread,
                               dealloc_thread}
  BY TheThreads
<1>. DEFINE Only(x, y, z) == Threads \subseteq Printers \cup {x, y, z}
<1>3. /\ ~ Only(even_filler_thread, odd_filler_thread, dealloc_thread)
      /\ ~ Only(alloc_thread, odd_filler_thread, dealloc_thread)
      /\ ~ Only(alloc_thread, even_filler_thread, dealloc_thread)
      /\ ~ Only(alloc_thread, even_filler_thread, odd_filler_thread)
  BY <1>1
<1>. QED  BY <1>2, <1>3

LEMMA TheBarriers ==
  /\ Barriers = {alloc_barrier, fill_barrier, done_barrier}
  /\ alloc_barrier # fill_barrier /\ alloc_barrier # done_barrier
  /\ fill_barrier # done_barrier
<1>1. ASSUME NEW x, NEW y, Barriers = {x, y} PROVE FALSE
  <2>1. IsFiniteSet({}) /\ Cardinality({}) = 0
    BY FS_EmptySet
  <2>2. IsFiniteSet({x}) /\ Cardinality({x}) = 1
    BY FS_Singleton
  <2>3. Cardinality({x} \cup {y}) \in 0 .. 1 + 1
    BY <2>2, AddOneAtMost
  <2>4. {x} \cup {y} = {x, y}
    OBVIOUS
  <2>5. Cardinality(Barriers) = 3
    BY SharedHeapAssumption
  <2>. QED  BY <1>1, <2>3, <2>4, <2>5
<1>2. Barriers = {alloc_barrier, fill_barrier, done_barrier}
  BY SharedHeapAssumption
<1>. QED  BY <1>1, <1>2

(***************************************************************************)
(* Who calls which barrier, first and second.                              *)
(***************************************************************************)
LEMMA Roles ==
  /\ alloc_thread \in Threads \ Twice /\ dealloc_thread \in Threads \ Twice
  /\ alloc_thread # dealloc_thread
  /\ Fillers \subseteq Threads /\ Printers \subseteq Threads
  /\ Fillers \cap Printers = {} /\ Printers # {} /\ even_filler_thread # odd_filler_thread
  /\ \A t \in Threads : t \in Twice \/ t = alloc_thread \/ t = dealloc_thread
  /\ FirstBarrier(alloc_thread) = alloc_barrier
  /\ FirstBarrier(dealloc_thread) = done_barrier
  /\ \A t \in Fillers : FirstBarrier(t) = alloc_barrier /\ SecondBarrier(t) = fill_barrier
  /\ \A t \in Printers : FirstBarrier(t) = fill_barrier /\ SecondBarrier(t) = done_barrier
<1>1. /\ Threads = Printers \cup {alloc_thread, dealloc_thread} \cup Fillers
      /\ alloc_thread \notin Twice /\ dealloc_thread \notin Twice
      /\ Fillers \cap Printers = {}
  BY TheThreads, AllDifferent DEF Fillers, Twice
<1>2. FirstBarrier(alloc_thread) = alloc_barrier
  BY <1>1, AllDifferent DEF FirstBarrier, Twice
<1>3. FirstBarrier(dealloc_thread) = done_barrier
  BY <1>1, AllDifferent DEF FirstBarrier, Twice
<1>4. \A t \in Fillers : FirstBarrier(t) = alloc_barrier /\ SecondBarrier(t) = fill_barrier
  BY <1>1 DEF FirstBarrier, SecondBarrier, Twice
<1>5. \A t \in Printers : FirstBarrier(t) = fill_barrier /\ SecondBarrier(t) = done_barrier
  BY <1>1, AllDifferent DEF FirstBarrier, SecondBarrier, Twice
<1>. QED  BY <1>1, <1>2, <1>3, <1>4, <1>5, AllDifferent, SharedHeapAssumption DEF Twice

(***************************************************************************)
(* Each barrier has as many users as its limit.                            *)
(***************************************************************************)
LEMMA UsersCounted ==
  /\ Users(alloc_barrier) = {alloc_thread} \cup Fillers
  /\ Users(fill_barrier) = Fillers \cup Printers
  /\ Users(done_barrier) = Printers \cup {dealloc_thread}
  /\ \A b \in Barriers : /\ IsFiniteSet(Users(b))
                         /\ Cardinality(Users(b)) = barrier_thread_limit[b]
                         /\ barrier_thread_limit[b] \in Nat
<1>1. /\ Users(alloc_barrier) = {alloc_thread} \cup Fillers
      /\ Users(fill_barrier) = Fillers \cup Printers
      /\ Users(done_barrier) = Printers \cup {dealloc_thread}
  BY Roles, TheBarriers DEF Users, Twice
<1>2. IsFiniteSet(Fillers) /\ Cardinality(Fillers) = 2
  <2>1. IsFiniteSet({even_filler_thread}) /\ Cardinality({even_filler_thread}) = 1
    BY FS_Singleton
  <2>2. Fillers = {even_filler_thread} \cup {odd_filler_thread}
    BY DEF Fillers
  <2>3. Cardinality(Fillers) = 1 + 1 /\ IsFiniteSet(Fillers)
    BY <2>1, <2>2, AllDifferent, FS_AddElement
  <2>. QED  BY <2>3
<1>3. Cardinality(Users(alloc_barrier)) = 3 /\ IsFiniteSet(Users(alloc_barrier))
  <2>1. Users(alloc_barrier) = Fillers \cup {alloc_thread} /\ alloc_thread \notin Fillers
    BY <1>1, Roles DEF Twice
  <2>2. Cardinality(Users(alloc_barrier)) = 2 + 1 /\ IsFiniteSet(Users(alloc_barrier))
    BY <1>2, <2>1, FS_AddElement
  <2>. QED  BY <2>2
<1>4. /\ Cardinality(Users(fill_barrier)) = Cardinality(Printers) + 2
      /\ IsFiniteSet(Users(fill_barrier))
  <2>1. IsFiniteSet(Fillers \cup Printers) /\
        Cardinality(Fillers \cup Printers) =
          Cardinality(Fillers) + Cardinality(Printers) - Cardinality(Fillers \cap Printers)
    BY <1>2, TheThreads, FS_Union
  <2>2. Cardinality(Fillers \cap Printers) = 0
    BY Roles, FS_EmptySet
  <2>. QED  BY <1>1, <1>2, <2>1, <2>2, TheThreads
<1>5. /\ Cardinality(Users(done_barrier)) = Cardinality(Printers) + 1
      /\ IsFiniteSet(Users(done_barrier))
  BY <1>1, TheThreads, AllDifferent, FS_AddElement
<1>6. /\ barrier_thread_limit[alloc_barrier] = 3
      /\ barrier_thread_limit[fill_barrier] = Cardinality(Printers) + 2
      /\ barrier_thread_limit[done_barrier] = Cardinality(Printers) + 1
  BY SharedHeapAssumption
<1>7. \A b \in Barriers : barrier_thread_limit[b] \in Nat
  BY CvBarrierAssumption
<1>. QED  BY <1>1, <1>3, <1>4, <1>5, <1>6, <1>7, TheBarriers

-----------------------------------------------------------------------------
(***************************************************************************)
(* Whoever has returned from a barrier leaves it open, and the barriers    *)
(* open one after the other.                                               *)
(***************************************************************************)
LEMMA ReturnedFromOpen ==
  ASSUME SHInv, NEW b \in Barriers, NEW t \in Users(b), Called(t, b),
         bpc[t] = "out" \/ at[t] # b
  PROVE  Open(b)
BY DEF SHInv, RoundsInv

LEMMA OpenInTurn ==
  ASSUME SHInv
  PROVE  /\ Open(done_barrier) =>
              /\ Open(fill_barrier)
              /\ \A t \in Printers : tpc[t] \in {"second", "done"}
         /\ Open(fill_barrier) =>
              /\ Open(alloc_barrier)
              /\ \A t \in Fillers : tpc[t] \in {"second", "done"}
              /\ \A t \in Printers : tpc[t] \notin {"unborn", "start"}
         /\ Open(alloc_barrier) =>
              /\ tpc[alloc_thread] \notin {"unborn", "start"}
              /\ \A t \in Fillers : tpc[t] \notin {"unborn", "start"}
<1>0. /\ BodiesInv /\ alloc_barrier \in Barriers /\ fill_barrier \in Barriers
      /\ done_barrier \in Barriers
  BY TheBarriers DEF SHInv
<1>1. \A b \in Barriers : Open(b) => \A t \in Users(b) : Called(t, b)
  BY DEF SHInv, RoundsInv
<1>2. Open(done_barrier) => \A t \in Printers : tpc[t] \in {"second", "done"}
  BY <1>0, <1>1, UsersCounted, Roles, TheBarriers DEF Called
<1>3. Open(fill_barrier) => \A t \in Fillers : tpc[t] \in {"second", "done"}
  BY <1>0, <1>1, UsersCounted, Roles, TheBarriers DEF Called
<1>4. Open(fill_barrier) => \A t \in Printers : tpc[t] \notin {"unborn", "start"}
  BY <1>0, <1>1, UsersCounted, Roles, TheBarriers DEF Called
<1>5. Open(done_barrier) => Open(fill_barrier)
  <2>. SUFFICES ASSUME Open(done_barrier) PROVE Open(fill_barrier)
    OBVIOUS
  <2>1. PICK t \in Printers : tpc[t] \in {"second", "done"}
    BY <1>2, Roles
  <2>2. t \in Users(fill_barrier) /\ Called(t, fill_barrier) /\ t \in Threads
    BY <2>1, UsersCounted, Roles DEF Called
  <2>3. bpc[t] = "out" \/ at[t] # fill_barrier
    BY <1>0, <2>1, <2>2, Roles, TheBarriers DEF BodiesInv
  <2>. QED  BY <1>0, <2>2, <2>3, ReturnedFromOpen
<1>6. Open(fill_barrier) => Open(alloc_barrier)
  <2>. SUFFICES ASSUME Open(fill_barrier) PROVE Open(alloc_barrier)
    OBVIOUS
  <2>1. PICK t \in Fillers : tpc[t] \in {"second", "done"}
    BY <1>3 DEF Fillers
  <2>2. t \in Users(alloc_barrier) /\ Called(t, alloc_barrier) /\ t \in Threads
    BY <2>1, UsersCounted, Roles DEF Called
  <2>3. bpc[t] = "out" \/ at[t] # alloc_barrier
    BY <1>0, <2>1, <2>2, Roles, TheBarriers DEF BodiesInv
  <2>. QED  BY <1>0, <2>2, <2>3, ReturnedFromOpen
<1>7. Open(alloc_barrier) => /\ tpc[alloc_thread] \notin {"unborn", "start"}
                             /\ \A t \in Fillers : tpc[t] \notin {"unborn", "start"}
  BY <1>0, <1>1, UsersCounted, Roles, TheBarriers DEF Called, Twice
<1>. QED  BY <1>2, <1>3, <1>4, <1>5, <1>6, <1>7

(***************************************************************************)
(* Who is inside a barrier has called it.                                  *)
(***************************************************************************)
LEMMA InsideCalled ==
  ASSUME SHInv, NEW b \in Barriers
  PROVE  /\ \A t \in Inside(b) : t \in Users(b) /\ Called(t, b)
         /\ Cardinality(Inside(b)) = barrier_thread_limit[b] => Inside(b) = Users(b)
<1>1. \A t \in Inside(b) : t \in Users(b) /\ Called(t, b)
  BY DEF SHInv, BodiesInv, Inside, Users, Called
<1>2. Inside(b) \subseteq Users(b)
  BY <1>1
<1>3. IsFiniteSet(Users(b)) /\ Cardinality(Users(b)) = barrier_thread_limit[b]
  BY UsersCounted
<1>. QED  BY <1>1, <1>2, <1>3, FS_Subset

(***************************************************************************)
(* A first call and a second call find room in the barrier.                *)
(***************************************************************************)
LEMMA RoomToEnter ==
  ASSUME SHInv, NEW b \in Barriers, NEW t \in Users(b), ~ Called(t, b), Enter(t, b)
  PROVE  Call(t, b)
<1>1. /\ Inside(b) \subseteq Users(b) /\ t \notin Inside(b)
      /\ IsFiniteSet(Users(b)) /\ Cardinality(Users(b)) = barrier_thread_limit[b]
      /\ barrier_thread_limit[b] \in Nat
  BY InsideCalled, UsersCounted
<1>2. Cardinality(Inside(b)) <= Cardinality(Users(b)) /\ Cardinality(Inside(b)) \in Nat
  BY <1>1, FS_Subset, InsideFinite
<1>3. Cardinality(Inside(b)) # barrier_thread_limit[b]
  BY <1>1, InsideCalled
<1>. QED  BY <1>1, <1>2, <1>3 DEF Call

\* The steps of the bodies that call barrier_wait.
CallsFirst(t) == Allocate(t) \/ CallFirst(t)

CallsSecond(t) == Terminate(t) \/ EndPrint(t)

LEMMA CallSteps ==
  ASSUME SHInv, NEW t \in Threads
  PROVE  /\ CallsFirst(t) =>
              /\ FirstBarrier(t) \in Barriers /\ t \in Users(FirstBarrier(t))
              /\ ~ Called(t, FirstBarrier(t)) /\ Enter(t, FirstBarrier(t))
         /\ CallsSecond(t) =>
              /\ SecondBarrier(t) \in Barriers /\ t \in Users(SecondBarrier(t))
              /\ ~ Called(t, SecondBarrier(t)) /\ Enter(t, SecondBarrier(t))
              /\ t \in Twice
<1>1. /\ FirstBarrier(t) \in Barriers /\ t \in Users(FirstBarrier(t))
      /\ t \in Twice => /\ SecondBarrier(t) \in Barriers /\ t \in Users(SecondBarrier(t))
                        /\ SecondBarrier(t) # FirstBarrier(t)
  BY Roles, TheBarriers DEF Users, Twice
<1>2. CallsFirst(t) => tpc[t] = "start" /\ Enter(t, FirstBarrier(t))
  BY DEF CallsFirst, Allocate, CallFirst, Goes
<1>3. CallsSecond(t) => /\ tpc[t] \in {"fill", "printing"} /\ t \in Twice
                        /\ Enter(t, SecondBarrier(t))
  BY DEF CallsSecond, Terminate, EndPrint, Goes, Twice
<1>. QED  BY <1>1, <1>2, <1>3 DEF Called

(***************************************************************************)
(* The program uses barrier_wait as CvBarrier allows.                      *)
(***************************************************************************)
LEMMA BarrierSteps ==
  ASSUME SHInv, [Next]_vars
  PROVE  [BarrierNext]_bvars
<1>1. ASSUME NEW t \in Threads, CallsFirst(t) PROVE BarrierNext
  BY <1>1, CallSteps, RoomToEnter DEF BarrierNext
<1>2. ASSUME NEW t \in Threads, CallsSecond(t) PROVE BarrierNext
  BY <1>2, CallSteps, RoomToEnter DEF BarrierNext
<1>3. ASSUME NEW t \in Threads, InBarrier(t) \/ WokenInBarrier(t) PROVE BarrierNext
  BY <1>3 DEF InBarrier, WokenInBarrier, BarrierNext, BarrierWait
<1>4. ASSUME NEW t \in Threads, StartFill(t) \/ FillCell(t) \/ StartPrint(t) \/ Free(t)
      PROVE  UNCHANGED bvars
  BY <1>4 DEF StartFill, FillCell, StartPrint, Free
<1>5. ASSUME NEW t \in Threads, Return(t) \/ \E b \in Barriers : Destroy(t, b)
      PROVE  UNCHANGED bvars
  BY <1>5 DEF Return, Destroy
<1>6. CASE Main
  BY <1>6 DEF Main, CreateThread, CreateFails, LastThreadEnds
<1>7. CASE UNCHANGED vars
  BY <1>7 DEF vars
<1>. QED
  BY <1>1, <1>2, <1>3, <1>4, <1>5, <1>6, <1>7
     DEF Next, Thread, Terminated, CallsFirst, CallsSecond

LEMMA InitSHInv == Init => SHInv
<1>. SUFFICES ASSUME Init PROVE SHInv
  OBVIOUS
<1>1. BarrierInit
  BY DEF Init
<1>2. BarrierInv
  BY <1>1, InitInv
<1>3. /\ \A t \in Threads : tpc[t] = "unborn" /\ bpc[t] = "out" /\ my_round[t] = 0
      /\ \A b \in Barriers : barrier_round[b] = 0
  BY <1>1 DEF Init, BarrierInit
<1>4. TypeOK
  <2>1. Len \in Nat \ {0}
    BY SharedHeapAssumption
  <2>. QED  BY <1>2, <2>1 DEF Init, TypeOK, BarrierInv
<1>5. BodiesInv
  BY <1>3 DEF BodiesInv
<1>6. RoundsInv
  BY <1>3 DEF RoundsInv, Open, Called, Users
<1>7. HeapInv
  BY <1>3, Roles DEF Init, HeapInv
<1>8. FillInv
  BY <1>3, Roles DEF FillInv, Fillers
<1>. QED  BY <1>2, <1>4, <1>5, <1>6, <1>7, <1>8 DEF SHInv

-----------------------------------------------------------------------------
(***************************************************************************)
(* Types, and the threads keep to their bodies.                            *)
(***************************************************************************)
LEMMA TypesStep ==
  ASSUME SHInv, [Next]_vars
  PROVE  TypeOK'
<1>0. TypeOK /\ BarrierTypeOK' /\ Len \in Nat \ {0}
  BY BarrierSteps, BarrierInvStep, SharedHeapAssumption DEF SHInv, BarrierInv
<1>. USE <1>0 DEF TypeOK, Goes, heapvars
<1>1. CASE Main
  BY <1>1 DEF Main, CreateThread, CreateFails, LastThreadEnds
<1>2. ASSUME NEW t \in Threads, Allocate(t) \/ CallFirst(t) PROVE TypeOK'
  BY <1>2 DEF Allocate, CallFirst
<1>3. ASSUME NEW t \in Threads, StartFill(t) PROVE TypeOK'
  BY <1>3 DEF StartFill, start_index
<1>4. ASSUME NEW t \in Threads, FillCell(t) PROVE TypeOK'
  <2>1. t \in Fillers /\ index[t] \in 0 .. Len + 1 /\ index[t] < Len
    BY <1>4 DEF FillCell
  <2>2. NextIndex(index[t]) \in 0 .. Len + 1
    BY <2>1 DEF NextIndex
  <2>3. shared_array' \in [Cells -> {"raw", "NUL"} \cup Fillers]
    BY <1>4, <2>1 DEF FillCell, Store
  <2>4. process' \in {"running", "failed", "faulted", "exited"}
    BY <1>4 DEF FillCell, Store
  <2>. QED  BY <1>4, <2>1, <2>2, <2>3, <2>4 DEF FillCell
<1>5. ASSUME NEW t \in Threads, Terminate(t) PROVE TypeOK'
  <2>1. shared_array' \in [Cells -> {"raw", "NUL"} \cup Fillers]
    BY <1>5 DEF Terminate, Store
  <2>2. process' \in {"running", "failed", "faulted", "exited"}
    BY <1>5 DEF Terminate, Store
  <2>. QED  BY <1>5, <2>1, <2>2 DEF Terminate
<1>6. ASSUME NEW t \in Threads, StartPrint(t) \/ EndPrint(t) PROVE TypeOK'
  BY <1>6 DEF StartPrint, EndPrint
<1>7. ASSUME NEW t \in Threads, Free(t) \/ Return(t) PROVE TypeOK'
  BY <1>7 DEF Free, Return
<1>8. ASSUME NEW t \in Threads, NEW b \in Barriers, Destroy(t, b) PROVE TypeOK'
  BY <1>8 DEF Destroy
<1>9. ASSUME NEW t \in Threads, InBarrier(t) \/ WokenInBarrier(t) PROVE TypeOK'
  BY <1>9 DEF InBarrier, WokenInBarrier
<1>10. CASE UNCHANGED vars
  BY <1>10 DEF vars
<1>. QED
  BY <1>1, <1>2, <1>3, <1>4, <1>5, <1>6, <1>7, <1>8, <1>9, <1>10
     DEF Next, Thread, Terminated

LEMMA BodiesStep ==
  ASSUME SHInv, [Next]_vars
  PROVE  BodiesInv'
<1>0. /\ TypeOK /\ BarrierTypeOK /\ BodiesInv
      /\ Fillers \subseteq Threads /\ Printers \subseteq Threads
      /\ dealloc_thread \in Threads \ Twice /\ alloc_thread \in Threads \ Twice
  BY Roles DEF SHInv, TypeOK
<1>. USE <1>0 DEF TypeOK, BodiesInv, Goes, Returned, bvars, Twice
<1>1. CASE Main
  BY <1>1 DEF Main, CreateThread, CreateFails, LastThreadEnds, NextToCreate
<1>2. ASSUME NEW t \in Threads, Allocate(t) \/ CallFirst(t) PROVE BodiesInv'
  <2>1. tpc[t] = "start" /\ tpc' = [tpc EXCEPT ![t] = "first"] /\ Enter(t, FirstBarrier(t))
    BY <1>2 DEF Allocate, CallFirst
  <2>. QED  BY <2>1, Roles, TheBarriers DEF Enter, BarrierTypeOK
<1>3. ASSUME NEW t \in Threads, StartFill(t) \/ StartPrint(t) PROVE BodiesInv'
  BY <1>3 DEF StartFill, StartPrint
<1>4. ASSUME NEW t \in Threads, FillCell(t) PROVE BodiesInv'
  BY <1>4 DEF FillCell
<1>5. ASSUME NEW t \in Threads, Terminate(t) \/ EndPrint(t) PROVE BodiesInv'
  <2>1. /\ t \in Twice /\ tpc' = [tpc EXCEPT ![t] = "second"]
        /\ Enter(t, SecondBarrier(t))
    BY <1>5 DEF Terminate, EndPrint
  <2>. QED  BY <2>1, Roles, TheBarriers DEF Enter, BarrierTypeOK
<1>6. ASSUME NEW t \in Threads, Free(t) \/ Return(t) PROVE BodiesInv'
  BY <1>6 DEF Free, Return
<1>7. ASSUME NEW t \in Threads, NEW b \in Barriers, Destroy(t, b) PROVE BodiesInv'
  BY <1>7 DEF Destroy
<1>8. ASSUME NEW t \in Threads, InBarrier(t) \/ WokenInBarrier(t) PROVE BodiesInv'
  <2>1. BarrierWait(t) /\ tpc' = tpc
    BY <1>8 DEF InBarrier, WokenInBarrier, BarrierWait
  <2>2. at' = at /\ \A s \in Threads : bpc'[s] # "out" => bpc[s] # "out"
    BY <2>1, InsideSteps
  <2>. QED  BY <2>1, <2>2
<1>9. CASE UNCHANGED vars
  BY <1>9 DEF vars
<1>. QED
  BY <1>1, <1>2, <1>3, <1>4, <1>5, <1>6, <1>7, <1>8, <1>9 DEF Next, Thread, Terminated

(***************************************************************************)
(* A step that leaves the barriers and their callers alone, and a call,    *)
(* which finds the barrier closed.                                         *)
(***************************************************************************)
LEMMA QuietRounds ==
  ASSUME SHInv, UNCHANGED bvars,
         \A t \in Threads, b \in Barriers : Called(t, b)' <=> Called(t, b)
  PROVE  RoundsInv'
<1>1. \A b \in Barriers : Users(b)' = Users(b) /\ Users(b) \subseteq Threads
  BY DEF Users
<1>. QED  BY <1>1 DEF SHInv, RoundsInv, Open, bvars

LEMMA CallRounds ==
  ASSUME SHInv, NEW b \in Barriers, NEW t \in Users(b), ~ Called(t, b), Enter(t, b),
         \A s \in Threads, c \in Barriers :
           Called(s, c)' <=> Called(s, c) \/ (s = t /\ c = b)
  PROVE  RoundsInv'
<1>0. RoundsInv /\ BarrierTypeOK /\ t \in Threads
  BY DEF SHInv, TypeOK, Users
<1>1. \A c \in Barriers : Users(c)' = Users(c) /\ Users(c) \subseteq Threads
  BY DEF Users
<1>2. /\ bpc[t] = "out" /\ bpc' = [bpc EXCEPT ![t] = "lock"] /\ at' = [at EXCEPT ![t] = b]
      /\ barrier_round' = barrier_round /\ my_round' = my_round
  BY DEF Enter
<1>3. ~ Open(b)
  BY <1>0 DEF RoundsInv
<1>4. ASSUME NEW c \in Barriers, Open(c), NEW s \in Users(c)
      PROVE  Called(s, c)' /\ (at'[s] = c => bpc'[s] \notin {"lock", "arrive", "asleep"})
  BY <1>0, <1>1, <1>2, <1>3, <1>4 DEF RoundsInv, BarrierTypeOK
<1>5. ASSUME NEW c \in Barriers, ~ Open(c), NEW s \in Users(c)
      PROVE  /\ Called(s, c)' => at'[s] = c /\ bpc'[s] # "out"
             /\ at'[s] = c => bpc'[s] # "unlock"
  <2>1. CASE s = t /\ c = b
    BY <1>0, <1>2, <2>1 DEF BarrierTypeOK
  <2>2. CASE s = t /\ c # b
    BY <1>0, <1>1, <1>2, <1>5, <2>2 DEF RoundsInv, BarrierTypeOK
  <2>3. CASE s # t
    BY <1>0, <1>1, <1>2, <1>5, <2>3 DEF RoundsInv, BarrierTypeOK
  <2>. QED  BY <2>1, <2>2, <2>3
<1>6. \A c \in Barriers : Open(c)' <=> Open(c)
  BY <1>2 DEF Open
<1>. QED  BY <1>0, <1>1, <1>2, <1>4, <1>5, <1>6 DEF RoundsInv

(***************************************************************************)
(* The barrier completes its round when all of its users are inside.       *)
(***************************************************************************)
LEMMA LastOpens ==
  ASSUME SHInv, NEW t \in Threads, ArriveLast(t)
  PROVE  /\ at[t] \in Barriers /\ ~ Open(at[t]) /\ barrier_round'[at[t]] = 1
         /\ Users(at[t]) = Inside(at[t])
         /\ \A s \in Threads :
              at[s] = at[t] => bpc'[s] \notin {"lock", "arrive", "asleep"}
<1>. DEFINE b == at[t]
<1>0. RoundsInv /\ BarrierInv /\ BarrierTypeOK /\ b \in Barriers
  BY DEF SHInv, TypeOK, BarrierTypeOK
<1>1. bpc[t] = "arrive" /\ CompletesRound(b)
  BY DEF ArriveLast
<1>2. /\ Inside(b) = Gathering(b) \cup {t} /\ t \notin Gathering(b)
      /\ Cardinality(Gathering(b)) + 1 = barrier_thread_limit[b]
  BY <1>0, <1>1, LastCallerMeetsAll
<1>3. Cardinality(Inside(b)) = Cardinality(Gathering(b)) + 1
  BY <1>0, <1>2, InsideFinite, FS_AddElement
<1>4. Users(b) = Inside(b)
  BY <1>0, <1>2, <1>3, InsideCalled
<1>5. ~ Open(b)
  BY <1>0, <1>1, <1>2, <1>4 DEF RoundsInv
<1>6. barrier_round'[b] = 1
  <2>1. barrier_round[b] = 0
    BY <1>0, <1>5 DEF RoundsInv, Open
  <2>2. barrier_round'[b] = NextRound(barrier_round[b])
    BY <1>0 DEF ArriveLast, BarrierTypeOK
  <2>3. 1 % RoundMod = 1
    BY CvBarrierAssumption
  <2>. QED  BY <2>1, <2>2, <2>3 DEF NextRound
<1>7. ASSUME NEW s \in Threads, at[s] = b
      PROVE  bpc'[s] \notin {"lock", "arrive", "asleep"}
  <2>1. CASE s = t
    BY <2>1 DEF ArriveLast
  <2>2. CASE s # t
    <3>1. bpc[s] = "out" \/ bpc[s] \in Waiting
      BY <1>2, <1>7, <2>2 DEF Inside, Gathering
    <3>. QED  BY <1>7, <2>2, <3>1 DEF ArriveLast, Woken, Waiting
  <2>. QED  BY <2>1, <2>2
<1>. QED  BY <1>0, <1>4, <1>5, <1>6, <1>7

LEMMA WaitRounds ==
  ASSUME SHInv, NEW t \in Threads, BarrierWait(t), tpc' = tpc
  PROVE  RoundsInv'
<1>. DEFINE b == at[t]
<1>0. RoundsInv /\ BarrierTypeOK /\ b \in Barriers /\ at' = at /\ bpc[t] # "out"
  BY InsideSteps DEF SHInv, TypeOK, BarrierTypeOK
<1>1. /\ t \in Users(b) /\ \A c \in Barriers : t \in Users(c) /\ at[t] = c => c = b
      /\ \A s \in Inside(b) : s \in Users(b) /\ Called(s, b)
  <2>1. t \in Inside(b)
    BY <1>0 DEF Inside
  <2>. QED  BY <1>0, <2>1, InsideCalled
<1>2. \A c \in Barriers : Users(c)' = Users(c) /\ Users(c) \subseteq Threads
  BY DEF Users
<1>3. \A c \in Barriers, s \in Threads : Called(s, c)' <=> Called(s, c)
  BY DEF Called
<1>4. CASE ArriveLast(t)
  <2>1. /\ ~ Open(b) /\ barrier_round'[b] = 1 /\ Users(b) = Inside(b)
        /\ \A s \in Threads : at[s] = b => bpc'[s] \notin {"lock", "arrive", "asleep"}
    BY <1>4, LastOpens
  <2>2. /\ \A c \in Barriers \ {b} : barrier_round'[c] = barrier_round[c]
        /\ \A s \in Threads : at[s] # b => bpc'[s] = bpc[s]
        /\ my_round' = my_round
    BY <1>0, <1>4 DEF ArriveLast, BarrierTypeOK, Woken
  <2>3. /\ Open(b)' /\ barrier_round'[b] \in {0, 1}
        /\ \A s \in Users(b) : Called(s, b)'
    BY <1>0, <1>1, <1>2, <1>3, <2>1 DEF Open
  <2>4. ASSUME NEW c \in Barriers \ {b}
        PROVE  /\ barrier_round'[c] \in {0, 1}
               /\ Open(c)' =>
                    \A s \in Users(c) :
                      /\ Called(s, c)'
                      /\ at[s] = c => bpc'[s] \notin {"lock", "arrive", "asleep"}
               /\ ~ Open(c)' =>
                    \A s \in Users(c) :
                      /\ Called(s, c)' => at[s] = c /\ bpc'[s] # "out"
                      /\ at[s] = c => bpc'[s] # "unlock"
    <3>1. Open(c)' <=> Open(c)
      BY <2>2 DEF Open
    <3>. QED  BY <1>0, <1>2, <1>3, <2>2, <3>1 DEF RoundsInv
  <2>. QED  BY <1>0, <1>2, <2>1, <2>2, <2>3, <2>4 DEF RoundsInv
<1>5. ASSUME barrier_round' = barrier_round, my_round'[t] = 0,
             \A s \in Threads \ {t} : bpc'[s] = bpc[s] /\ my_round'[s] = my_round[s],
             Open(b) => bpc'[t] \notin {"lock", "arrive", "asleep"},
             ~ Open(b) => bpc'[t] \notin {"out", "unlock"}
      PROVE  RoundsInv'
  <2>1. \A c \in Barriers : Open(c)' <=> Open(c)
    BY <1>5 DEF Open
  <2>. QED  BY <1>0, <1>1, <1>2, <1>3, <1>5, <2>1 DEF RoundsInv
<1>6. /\ my_round[t] = 0 /\ barrier_round[b] \in {0, 1}
      /\ Open(b) => bpc[t] \notin {"lock", "arrive", "asleep"}
      /\ ~ Open(b) => bpc[t] # "unlock" /\ barrier_round[b] = 0
  BY <1>0, <1>1 DEF RoundsInv, Open
<1>7. CASE Lock(t) \/ Relock(t) \/ Unlock(t) \/ SpuriousWakeup(t)
  BY <1>0, <1>5, <1>6, <1>7 DEF Lock, Relock, Unlock, SpuriousWakeup, BarrierTypeOK
<1>8. CASE ArriveWait(t)
  BY <1>0, <1>5, <1>6, <1>8 DEF ArriveWait, BarrierTypeOK
<1>9. CASE WaitAgain(t) \/ LeaveLoop(t)
  BY <1>0, <1>5, <1>6, <1>9 DEF WaitAgain, LeaveLoop, KeepsWaiting, Open, BarrierTypeOK
<1>. QED  BY <1>4, <1>7, <1>8, <1>9 DEF BarrierWait, BarrierStep

LEMMA RoundsStep ==
  ASSUME SHInv, [Next]_vars
  PROVE  RoundsInv'
<1>0. TypeOK /\ BodiesInv
  BY DEF SHInv
<1>. USE <1>0 DEF TypeOK, Goes
<1>1. ASSUME NEW t \in Threads, CallsFirst(t) PROVE RoundsInv'
  <2>1. tpc[t] = "start" /\ tpc' = [tpc EXCEPT ![t] = "first"]
    BY <1>1 DEF CallsFirst, Allocate, CallFirst
  <2>2. \A s \in Threads, c \in Barriers :
          Called(s, c)' <=> Called(s, c) \/ (s = t /\ c = FirstBarrier(t))
    BY <2>1 DEF Called
  <2>. QED  BY <1>1, <2>2, CallSteps, CallRounds
<1>2. ASSUME NEW t \in Threads, CallsSecond(t) PROVE RoundsInv'
  <2>1. tpc[t] \in {"fill", "printing"} /\ tpc' = [tpc EXCEPT ![t] = "second"] /\ t \in Twice
    BY <1>2 DEF CallsSecond, Terminate, EndPrint, Twice
  <2>2. \A s \in Threads, c \in Barriers :
          Called(s, c)' <=> Called(s, c) \/ (s = t /\ c = SecondBarrier(t))
    BY <2>1 DEF Called
  <2>. QED  BY <1>2, <2>2, CallSteps, CallRounds
<1>3. ASSUME NEW t \in Threads, InBarrier(t) \/ WokenInBarrier(t) PROVE RoundsInv'
  BY <1>3, WaitRounds DEF InBarrier, WokenInBarrier, BarrierWait
<1>4. ASSUME NEW t \in Threads, StartFill(t) \/ FillCell(t) \/ StartPrint(t) PROVE RoundsInv'
  <2>1. \A s \in Threads, c \in Barriers : Called(s, c)' <=> Called(s, c)
    BY <1>4 DEF Called, StartFill, FillCell, StartPrint
  <2>. QED  BY <1>4, <2>1, QuietRounds DEF StartFill, FillCell, StartPrint
<1>5. ASSUME NEW t \in Threads, Free(t) \/ \E b \in Barriers : Destroy(t, b)
      PROVE  RoundsInv'
  <2>1. \A s \in Threads, c \in Barriers : Called(s, c)' <=> Called(s, c)
    BY <1>5, Roles DEF Called, Free, Destroy
  <2>. QED  BY <1>5, <2>1, QuietRounds DEF Free, Destroy
<1>6. ASSUME NEW t \in Threads, Return(t) PROVE RoundsInv'
  <2>1. \A s \in Threads, c \in Barriers : Called(s, c)' <=> Called(s, c)
    <3>1. CASE t = alloc_thread
      BY <1>6, <3>1, Roles DEF Called, Return
    <3>2. CASE t # alloc_thread
      BY <1>6, <3>2 DEF Called, Return
    <3>. QED  BY <3>1, <3>2
  <2>. QED  BY <1>6, <2>1, QuietRounds DEF Return
<1>7. CASE Main
  <2>1. \A s \in Threads, c \in Barriers : Called(s, c)' <=> Called(s, c)
    BY <1>7 DEF Called, Main, CreateThread, CreateFails, LastThreadEnds, NextToCreate
  <2>. QED  BY <1>7, <2>1, QuietRounds DEF Main, CreateThread, CreateFails, LastThreadEnds
<1>8. CASE UNCHANGED vars
  BY <1>8, QuietRounds DEF vars, Called
<1>. QED
  BY <1>1, <1>2, <1>3, <1>4, <1>5, <1>6, <1>7, <1>8
     DEF Next, Thread, Terminated, CallsFirst, CallsSecond

-----------------------------------------------------------------------------
(***************************************************************************)
(* While a filler writes, the array has its length and is not freed, and   *)
(* the printers wait; while a printer prints, the fillers are through.     *)
(***************************************************************************)
LEMMA WhileFilling ==
  ASSUME SHInv, NEW t \in Fillers, tpc[t] = "fill"
  PROVE  /\ shared_array_len = Len
         /\ heap \in {"null", "allocated"}
         /\ ~ Open(fill_barrier)
         /\ bpc[t] = "out"
<1>0. /\ TypeOK /\ BodiesInv /\ HeapInv /\ t \in Threads /\ dealloc_thread \in Threads
      /\ alloc_barrier \in Barriers /\ done_barrier \in Barriers
  BY Roles, TheBarriers DEF SHInv
<1>1. bpc[t] = "out" /\ Called(t, alloc_barrier) /\ t \in Users(alloc_barrier)
  BY <1>0, Roles, UsersCounted DEF BodiesInv, Called
<1>2. Open(alloc_barrier)
  BY <1>0, <1>1, ReturnedFromOpen
<1>3. shared_array_len = Len
  BY <1>0, <1>2, OpenInTurn DEF HeapInv
<1>4. ~ Open(fill_barrier) /\ ~ Open(done_barrier)
  BY OpenInTurn
<1>5. heap # "freed"
  <2>. SUFFICES ASSUME tpc[dealloc_thread] \in {"destroy", "done"} PROVE FALSE
    BY <1>0 DEF HeapInv
  <2>1. /\ Called(dealloc_thread, done_barrier) /\ bpc[dealloc_thread] = "out"
        /\ dealloc_thread \in Users(done_barrier)
    BY <1>0, Roles, UsersCounted DEF BodiesInv, Called
  <2>. QED  BY <1>0, <1>4, <2>1, ReturnedFromOpen
<1>. QED  BY <1>0, <1>1, <1>3, <1>4, <1>5 DEF TypeOK

LEMMA HeapStep ==
  ASSUME SHInv, [Next]_vars
  PROVE  HeapInv'
<1>0. /\ TypeOK /\ HeapInv /\ Len \in Nat \ {0} /\ Fillers \subseteq Threads
      /\ alloc_thread \in Threads \ Twice /\ dealloc_thread \in Threads \ Twice
      /\ alloc_thread # dealloc_thread
  BY Roles, SharedHeapAssumption DEF SHInv
<1>. USE <1>0 DEF TypeOK, HeapInv, Goes, heapvars, Twice
<1>1. ASSUME process = "running", Main PROVE HeapInv'
  BY <1>1 DEF Main, CreateThread, CreateFails, LastThreadEnds, NextToCreate
<1>2. ASSUME process = "running", NEW t \in Threads, Allocate(t) \/ CallFirst(t)
      PROVE  HeapInv'
  BY <1>2 DEF Allocate, CallFirst
<1>3. ASSUME process = "running", NEW t \in Threads,
             StartFill(t) \/ StartPrint(t) \/ EndPrint(t)
      PROVE  HeapInv'
  BY <1>3 DEF StartFill, StartPrint, EndPrint
<1>4. ASSUME process = "running", NEW t \in Threads, FillCell(t) PROVE HeapInv'
  <2>1. t \in Fillers /\ tpc[t] = "fill" /\ index[t] < shared_array_len
    BY <1>4 DEF FillCell
  <2>2. shared_array_len = Len /\ heap \in {"null", "allocated"} /\ ~ Open(fill_barrier)
    BY <2>1, WhileFilling
  <2>3. index[t] \in Cells
    BY <2>1, <2>2 DEF Cells
  <2>4. ~ Open(fill_barrier)'
    BY <1>4, <2>2 DEF FillCell, bvars, Open
  <2>5. process' = "faulted" => heap = "null"
    BY <1>4, <2>2, <2>3 DEF FillCell, Store
  <2>. QED  BY <1>4, <2>2, <2>4, <2>5 DEF FillCell
<1>5. ASSUME process = "running", NEW t \in Threads, Terminate(t) PROVE HeapInv'
  <2>1. t \in Fillers /\ tpc[t] = "fill" /\ tpc' = [tpc EXCEPT ![t] = "second"]
    BY <1>5 DEF Terminate
  <2>2. shared_array_len = Len /\ heap \in {"null", "allocated"} /\ ~ Open(fill_barrier)
    BY <2>1, WhileFilling
  <2>3. LastCell(shared_array_len) \in Cells
    BY <2>2 DEF Cells, LastCell
  <2>4. ~ Open(fill_barrier)'
    BY <1>5, <2>2 DEF Terminate, Enter, Open
  <2>5. process' = "faulted" => heap = "null"
    BY <1>5, <2>2, <2>3 DEF Terminate, Store
  <2>. QED  BY <1>5, <2>1, <2>2, <2>4, <2>5 DEF Terminate
<1>6. ASSUME process = "running", NEW t \in Threads, Free(t) \/ Return(t) PROVE HeapInv'
  BY <1>6 DEF Free, Return
<1>7. ASSUME process = "running", NEW t \in Threads, NEW b \in Barriers, Destroy(t, b)
      PROVE  HeapInv'
  BY <1>7 DEF Destroy
<1>8. ASSUME process = "running", NEW t \in Threads, InBarrier(t) \/ WokenInBarrier(t)
      PROVE  HeapInv'
  BY <1>8 DEF InBarrier, WokenInBarrier
<1>9. CASE UNCHANGED vars
  BY <1>9 DEF vars, bvars, Open
<1>. QED
  BY <1>1, <1>2, <1>3, <1>4, <1>5, <1>6, <1>7, <1>8, <1>9
     DEF Next, Thread, Terminated

(***************************************************************************)
(* The cells of one filler are every other cell, and none of the other's.  *)
(***************************************************************************)
LEMMA EveryOther ==
  ASSUME NEW t \in Fillers
  PROVE  /\ start_index(t) \in {0, 1} /\ Mine(t, start_index(t))
         /\ \A i \in Nat : ~ (Mine(t, i) /\ i < start_index(t))
         /\ \A i \in Nat : Mine(t, i) => Mine(t, NextIndex(i)) /\ ~ Mine(t, i + 1)
         /\ \A u \in Fillers, i \in Nat : Mine(t, i) /\ Mine(u, i) => u = t
<1>1. start_index(t) \in {0, 1}
  BY DEF start_index
<1>2. \A i \in Nat : (i + 2) % 2 = i % 2 /\ (i + 1) % 2 # i % 2
  OBVIOUS
<1>3. 0 % 2 = 0 /\ 1 % 2 = 1
  OBVIOUS
<1>4. Mine(t, start_index(t))
  BY <1>1, <1>3 DEF Mine
<1>5. \A i \in Nat : ~ (Mine(t, i) /\ i < start_index(t))
  <2>. SUFFICES ASSUME NEW i \in Nat, i < start_index(t) PROVE i % 2 # start_index(t)
    BY DEF Mine
  <2>1. i = 0 /\ start_index(t) = 1
    BY <1>1
  <2>. QED  BY <1>3, <2>1
<1>6. \A u \in Fillers : start_index(t) = start_index(u) => u = t
  BY DEF start_index, Fillers
<1>. QED  BY <1>1, <1>2, <1>4, <1>5, <1>6 DEF Mine, NextIndex

LEMMA FillStep ==
  ASSUME SHInv, [Next]_vars
  PROVE  FillInv'
<1>. DEFINE Letters(t) ==
       /\ tpc[t] = "fill" =>
            /\ Mine(t, index[t])
            /\ \A i \in 0 .. Len - 2 :
                 Mine(t, i) /\ i < index[t] => shared_array[i] = t
       /\ tpc[t] \in {"second", "done"} =>
            /\ heap # "null"
            /\ \A i \in 0 .. Len - 2 : Mine(t, i) => shared_array[i] = t
<1>0. /\ TypeOK /\ HeapInv /\ FillInv /\ Len \in Nat \ {0} /\ Fillers \subseteq Threads
      /\ alloc_thread \in Threads \ Twice /\ dealloc_thread \in Threads \ Twice
      /\ Fillers \cap Printers = {}
  BY Roles, SharedHeapAssumption DEF SHInv
<1>. USE <1>0 DEF TypeOK, Goes
<1>a. ASSUME process # "faulted"
      PROVE  /\ \A t \in Fillers : Letters(t)
             /\ (\A t \in Fillers : tpc[t] \in {"second", "done"}) =>
                  shared_array[Len - 1] = "NUL"
  BY <1>a DEF FillInv
<1>b. ASSUME process # "faulted", shared_array' = shared_array, index' = index,
             heap # "null" => heap' # "null",
             \A t \in Fillers : /\ tpc'[t] = "fill" <=> tpc[t] = "fill"
                                /\ tpc'[t] \in {"second", "done"} <=>
                                     tpc[t] \in {"second", "done"}
      PROVE  FillInv'
  <2>1. \A t \in Fillers : Mine(t, index[t])' <=> Mine(t, index[t])
    BY <1>b DEF Mine
  <2>. QED  BY <1>a, <1>b, <2>1 DEF FillInv, Mine
<1>1. ASSUME process = "running", Main PROVE FillInv'
  <2>1. \A t \in Fillers : /\ tpc'[t] = "fill" <=> tpc[t] = "fill"
                           /\ tpc'[t] \in {"second", "done"} <=>
                                tpc[t] \in {"second", "done"}
    BY <1>1 DEF Main, CreateThread, CreateFails, LastThreadEnds, NextToCreate
  <2>2. UNCHANGED <<heapvars, index>>
    BY <1>1 DEF Main, CreateThread, CreateFails, LastThreadEnds
  <2>. QED  BY <1>1, <1>b, <2>1, <2>2 DEF heapvars
<1>2. ASSUME process = "running", NEW t \in Threads, Allocate(t) \/ CallFirst(t)
      PROVE  FillInv'
  <2>1. /\ tpc[t] = "start" /\ tpc' = [tpc EXCEPT ![t] = "first"] /\ index' = index
        /\ shared_array' = shared_array
    BY <1>2 DEF Allocate, CallFirst, heapvars
  <2>2. heap = "null" \/ heap' = heap
    BY <1>2, <2>1 DEF Allocate, CallFirst, heapvars, HeapInv
  <2>. QED  BY <1>2, <1>b, <2>1, <2>2
<1>3. ASSUME process = "running", NEW t \in Threads, StartPrint(t) \/ EndPrint(t)
      PROVE  FillInv'
  BY <1>3, <1>b DEF StartPrint, EndPrint, heapvars
<1>4. ASSUME process = "running", NEW t \in Threads, Free(t) PROVE FillInv'
  BY <1>4, <1>b DEF Free, Twice
<1>5. ASSUME process = "running", NEW t \in Threads, Return(t) PROVE FillInv'
  <2>1. \A u \in Fillers : /\ tpc'[u] = "fill" <=> tpc[u] = "fill"
                           /\ tpc'[u] \in {"second", "done"} <=>
                                tpc[u] \in {"second", "done"}
    <3>1. CASE t = alloc_thread
      BY <1>5, <3>1 DEF Return, Twice
    <3>2. CASE t # alloc_thread
      BY <1>5, <3>2 DEF Return
    <3>. QED  BY <3>1, <3>2
  <2>. QED  BY <1>5, <1>b, <2>1 DEF Return, heapvars
<1>6. ASSUME process = "running", NEW t \in Threads, NEW b \in Barriers, Destroy(t, b)
      PROVE  FillInv'
  BY <1>6, <1>b DEF Destroy, Twice, heapvars
<1>7. ASSUME process = "running", NEW t \in Threads, InBarrier(t) \/ WokenInBarrier(t)
      PROVE  FillInv'
  BY <1>7, <1>b DEF InBarrier, WokenInBarrier, heapvars
<1>8. ASSUME process = "running", NEW t \in Threads, StartFill(t) PROVE FillInv'
  <2>1. /\ t \in Fillers /\ tpc[t] = "first" /\ tpc' = [tpc EXCEPT ![t] = "fill"]
        /\ index' = [index EXCEPT ![t] = start_index(t)]
        /\ shared_array' = shared_array /\ heap' = heap
    BY <1>8 DEF StartFill, heapvars
  <2>2. index'[t] = start_index(t) /\ tpc'[t] = "fill"
    BY <2>1
  <2>3. Letters(t)'
    BY <2>2, EveryOther, <2>1 DEF Mine
  <2>4. ASSUME NEW u \in Fillers \ {t} PROVE Letters(u)'
    <3>1. index'[u] = index[u] /\ tpc'[u] = tpc[u]
      BY <2>1
    <3>. QED  BY <1>8, <1>a, <2>1, <3>1 DEF Mine
  <2>. QED  BY <2>1, <2>2, <2>3, <2>4 DEF FillInv, Mine
<1>9. ASSUME process = "running", NEW t \in Threads, FillCell(t), process' # "faulted"
      PROVE  FillInv'
  <2>1. /\ t \in Fillers /\ tpc[t] = "fill" /\ tpc' = tpc /\ heap' = heap
        /\ index' = [index EXCEPT ![t] = NextIndex(@)]
    BY <1>9 DEF FillCell
  <2>2. /\ index[t] \in Cells
        /\ shared_array' = [shared_array EXCEPT ![index[t]] = t]
    BY <1>9 DEF FillCell, Store
  <2>3. Letters(t) /\ Mine(t, index[t]) /\ index[t] \in Nat
    BY <1>9, <1>a, <2>1, <2>2 DEF Cells
  <2>4. index'[t] = index[t] + 2 /\ Mine(t, index'[t])
    BY <2>1, <2>3, EveryOther DEF NextIndex
  <2>5. ASSUME NEW i \in 0 .. Len - 2, Mine(t, i), i < index[t] + 2
        PROVE  shared_array'[i] = t
    <3>1. i # index[t] + 1
      BY <2>1, <2>3, <2>5, EveryOther
    <3>2. CASE i < index[t]
      BY <2>1, <2>2, <2>3, <2>5, <3>2 DEF Cells
    <3>3. CASE i = index[t]
      BY <2>2, <3>3
    <3>. QED  BY <2>3, <2>5, <3>1, <3>2, <3>3
  <2>6. Letters(t)'
    BY <2>1, <2>4, <2>5 DEF Mine
  <2>7. ASSUME NEW u \in Fillers \ {t} PROVE Letters(u)'
    <3>1. index'[u] = index[u] /\ tpc'[u] = tpc[u]
      BY <2>1
    <3>2. \A i \in 0 .. Len - 2 : Mine(u, i) => shared_array'[i] = shared_array[i]
      <4>1. ASSUME NEW i \in 0 .. Len - 2, Mine(u, i) PROVE i # index[t]
        BY <2>1, <2>3, <4>1, EveryOther
      <4>. QED  BY <2>2, <4>1 DEF Cells
    <3>. QED  BY <1>9, <1>a, <2>1, <3>1, <3>2 DEF Mine
  <2>. QED  BY <2>1, <2>6, <2>7 DEF FillInv, Mine
<1>10. ASSUME process = "running", NEW t \in Threads, Terminate(t), process' # "faulted"
       PROVE  FillInv'
  <2>1. /\ t \in Fillers /\ tpc[t] = "fill" /\ tpc' = [tpc EXCEPT ![t] = "second"]
        /\ heap' = heap /\ index' = index /\ index[t] >= shared_array_len
    BY <1>10 DEF Terminate
  <2>2. shared_array_len = Len
    BY <2>1, WhileFilling
  <2>3. /\ heap = "allocated"
        /\ shared_array' = [shared_array EXCEPT ![Len - 1] = "NUL"]
    BY <1>10, <2>2 DEF Terminate, Store, LastCell
  <2>4. /\ \A i \in 0 .. Len - 2 : shared_array'[i] = shared_array[i]
        /\ shared_array'[Len - 1] = "NUL"
    BY <2>3 DEF Cells
  <2>5. \A i \in 0 .. Len - 2 : Mine(t, i) => shared_array[i] = t
    <3>1. \A i \in 0 .. Len - 2 : i < index[t]
      BY <2>1, <2>2
    <3>. QED  BY <1>10, <1>a, <2>1, <3>1
  <2>6. Letters(t)'
    BY <2>1, <2>3, <2>4, <2>5 DEF Mine
  <2>7. ASSUME NEW u \in Fillers \ {t} PROVE Letters(u)'
    <3>1. index'[u] = index[u] /\ tpc'[u] = tpc[u]
      BY <2>1
    <3>. QED  BY <1>10, <1>a, <2>1, <2>4, <3>1 DEF Mine
  <2>. QED  BY <2>1, <2>4, <2>6, <2>7 DEF FillInv, Mine
<1>11. CASE UNCHANGED vars
  BY <1>11 DEF vars, heapvars, FillInv, Mine
<1>12. CASE process' = "faulted"
  BY <1>12 DEF FillInv
<1>. QED
  BY <1>1, <1>2, <1>3, <1>4, <1>5, <1>6, <1>7, <1>8, <1>9, <1>10, <1>11, <1>12
     DEF Next, Thread, Terminated

-----------------------------------------------------------------------------
(***************************************************************************)
(* The invariant holds of the program for any length and any number of     *)
(* printers.                                                               *)
(***************************************************************************)
THEOREM HeapInvariant == SafetySpec => []SHInv
<1>1. SHInv /\ [Next]_vars => SHInv'
  <2>. SUFFICES ASSUME SHInv, [Next]_vars PROVE SHInv'
    OBVIOUS
  <2>1. BarrierInv'
    BY BarrierSteps, BarrierInvStep DEF SHInv
  <2>. QED
    BY <2>1, TypesStep, BodiesStep, RoundsStep, HeapStep, FillStep DEF SHInv
<1>. QED  BY InitSHInv, <1>1, PTL DEF SafetySpec

(***************************************************************************)
(* No store goes through a freed pointer or beyond the array, and none     *)
(* through a null one unless malloc failed (shared_heap.c:108-111).        *)
(***************************************************************************)
THEOREM BoundedStores == SafetySpec => []StoresInBounds
<1>1. SHInv => StoresInBounds
  BY DEF SHInv, HeapInv, StoresInBounds, FaultsOnlyOutOfMemory
<1>. QED  BY <1>1, HeapInvariant, PTL

(***************************************************************************)
(* What a printer prints is the whole string, and it is not freed before   *)
(* the end of the print (shared_heap.c:120-133).                           *)
(***************************************************************************)
LEMMA InvPrintsComplete ==
  ASSUME SHInv
  PROVE  PrintsComplete
<1>. SUFFICES ASSUME NEW t \in Printers, tpc[t] = "printing" PROVE Complete
  BY DEF PrintsComplete
<1>0. /\ TypeOK /\ BodiesInv /\ HeapInv /\ FillInv /\ t \in Threads /\ Len \in Nat \ {0}
      /\ fill_barrier \in Barriers /\ done_barrier \in Barriers
      /\ dealloc_thread \in Threads
  BY Roles, TheBarriers, SharedHeapAssumption DEF SHInv
<1>1. bpc[t] = "out" /\ Called(t, fill_barrier) /\ t \in Users(fill_barrier)
  BY <1>0, Roles, UsersCounted DEF BodiesInv, Called
<1>2. Open(fill_barrier) /\ ~ Open(done_barrier)
  <2>1. Open(fill_barrier)
    BY <1>0, <1>1, ReturnedFromOpen
  <2>. QED  BY <2>1, OpenInTurn
<1>3. \A u \in Fillers : tpc[u] \in {"second", "done"}
  BY <1>2, OpenInTurn
<1>4. process # "faulted"
  BY <1>0, <1>2 DEF HeapInv
<1>5. tpc[dealloc_thread] \notin {"destroy", "done"}
  <2>. SUFFICES ASSUME tpc[dealloc_thread] \in {"destroy", "done"} PROVE FALSE
    OBVIOUS
  <2>1. /\ Called(dealloc_thread, done_barrier) /\ bpc[dealloc_thread] = "out"
        /\ dealloc_thread \in Users(done_barrier)
    BY <1>0, Roles, UsersCounted DEF BodiesInv, Called
  <2>. QED  BY <1>0, <1>2, <2>1, ReturnedFromOpen
<1>6. heap = "allocated" /\ shared_array[Len - 1] = "NUL"
  BY <1>0, <1>3, <1>4, <1>5 DEF FillInv, HeapInv, TypeOK, Fillers
<1>7. ASSUME NEW i \in 0 .. Len - 2
      PROVE  shared_array[i] =
               IF i % 2 = 0 THEN even_filler_thread ELSE odd_filler_thread
  <2>1. \A u \in Fillers : Mine(u, i) => shared_array[i] = u
    BY <1>0, <1>3, <1>4 DEF FillInv
  <2>2. i % 2 \in {0, 1}
    BY <1>0
  <2>3. /\ i % 2 = 0 => Mine(even_filler_thread, i)
        /\ i % 2 = 1 => Mine(odd_filler_thread, i)
    BY Roles DEF Mine, start_index
  <2>. QED  BY <2>1, <2>2, <2>3 DEF Fillers
<1>. QED  BY <1>6, <1>7 DEF Complete

THEOREM WholeStringsPrinted == SafetySpec => []PrintsComplete
<1>1. SHInv => PrintsComplete
  BY InvPrintsComplete
<1>. QED  BY <1>1, HeapInvariant, PTL

(***************************************************************************)
(* When dealloc_thread destroys the barriers (shared_heap.c:145-147) some  *)
(* threads may still be inside, but all of them have been let go.          *)
(***************************************************************************)
LEMMA InvDestroyed ==
  ASSUME SHInv
  PROVE  DestroyedBlocksNobody
<1>. SUFFICES ASSUME NEW b \in destroyed
              PROVE  /\ StillToCall(b) = {}
                     /\ \A t \in Inside(b) : bpc[t] \notin {"lock", "arrive", "asleep"}
  BY DEF DestroyedBlocksNobody
<1>0. /\ TypeOK /\ BodiesInv /\ RoundsInv /\ HeapInv /\ b \in Barriers
      /\ done_barrier \in Barriers /\ dealloc_thread \in Threads
  BY Roles, TheBarriers DEF SHInv, TypeOK
<1>1. Open(done_barrier)
  <2>1. tpc[dealloc_thread] \in {"destroy", "done"}
    BY <1>0 DEF HeapInv
  <2>2. /\ Called(dealloc_thread, done_barrier) /\ bpc[dealloc_thread] = "out"
        /\ dealloc_thread \in Users(done_barrier)
    BY <1>0, <2>1, Roles, UsersCounted DEF BodiesInv, Called
  <2>. QED  BY <1>0, <2>2, ReturnedFromOpen
<1>2. Open(b)
  BY <1>0, <1>1, OpenInTurn, TheBarriers
<1>3. \A t \in Users(b) : /\ Called(t, b)
                          /\ at[t] = b => bpc[t] \notin {"lock", "arrive", "asleep"}
  BY <1>0, <1>2 DEF RoundsInv
<1>4. \A t \in Inside(b) : bpc[t] \notin {"lock", "arrive", "asleep"}
  BY <1>0, <1>3, InsideCalled DEF Inside
<1>5. \A t \in StillToCall(b) : t \in Users(b) /\ ~ Called(t, b)
  <2>1. \A t \in Twice : FirstBarrier(t) # SecondBarrier(t)
    BY Roles, TheBarriers DEF Twice
  <2>. QED  BY <2>1 DEF StillToCall, Users, Called, Twice
<1>. QED  BY <1>3, <1>4, <1>5

THEOREM NobodyBlocksOnDestroyed == SafetySpec => []DestroyedBlocksNobody
<1>1. SHInv => DestroyedBlocksNobody
  BY InvDestroyed
<1>. QED  BY <1>1, HeapInvariant, PTL

(***************************************************************************)
(* The six threads call the three barriers only as the barriers allow, and *)
(* so they implement the abstract barriers.                                *)
(***************************************************************************)
THEOREM ThreadsKeepDiscipline == SafetySpec => UsesBarriers /\ ImplementsRendezvous
<1>1. Init => BarrierInit
  BY DEF Init
<1>2. SHInv /\ [Next]_vars => [BarrierNext]_bvars
  BY BarrierSteps
<1>3. SafetySpec => BarrierSafetySpec
  BY <1>1, <1>2, HeapInvariant, PTL DEF SafetySpec, BarrierSafetySpec
<1>. QED  BY <1>3, BarrierRefinement DEF UsesBarriers
=============================================================================
