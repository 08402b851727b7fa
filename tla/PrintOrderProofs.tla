--------------------------- MODULE PrintOrderProofs ---------------------------
(***************************************************************************)
(* Proofs about PrintOrder for any number of threads and any letters: the  *)
(* letters are printed in order, no thread sleeps through its turn, and    *)
(* nothing is used after main() has destroyed it.                          *)
(***************************************************************************)
EXTENDS PrintOrder, SequenceTheorems, TLAPS

Letters == {Order[n] : n \in 1 .. N}

\* Places of a thread that holds the mutex, and of one that has printed.
Holding == {"test", "retest", "broadcast", "unlock"}
Printed == {"broadcast", "unlock", "done"}

(***************************************************************************)
(* The mutex is held by exactly the thread that is at such a place.        *)
(***************************************************************************)
MutexInv == \A t \in Threads : mtx = t <=> pc[t] \in Holding

(***************************************************************************)
(* What has been printed is the beginning of Order, actual_print is the    *)
(* letter after it (or the last one), and the threads that have printed    *)
(* are those whose letters are there.                                      *)
(***************************************************************************)
OutputInv ==
  /\ Len(output) <= N
  /\ actual_print = Order[IF Len(output) < N THEN Len(output) + 1 ELSE N]
  /\ \A t \in Threads : pc[t] \in Printed <=> N - t <= Len(output)

(***************************************************************************)
(* Where main() is bounds where the threads are: nobody lives before both  *)
(* objects exist, those that are joined have ended, and the objects go     *)
(* only when the loop of the joins has gone through all threads.           *)
(***************************************************************************)
JoinedInv == \A t \in Threads : t < joined => pc[t] = "done"

ObjectsInv ==
  /\ main \in {"init_mtx", "init_cv"} => \A t \in Threads : pc[t] = "unborn"
  /\ main = "init_mtx" => objects = {}
  /\ main = "init_cv" => objects = {"mtx"}
  /\ main \in {"create", "join", "destroy_mtx", "failed"} => objects = {"mtx", "cv"}
  /\ main \in {"init_mtx", "init_cv", "create", "join"} => joined < N
  /\ main \in {"destroy_mtx", "destroy_cv", "return", "exited"} => joined = N

OrderInv ==
  /\ TypeOK /\ MutexInv /\ OutputInv /\ NobodySleepsOnItsTurn
  /\ JoinedInv /\ ObjectsInv

(***************************************************************************)
(* The steps of main() but CreateThread leave the threads alone.           *)
(***************************************************************************)
MainAlone ==
  \/ InitObject("mtx", "init_mtx", "init_cv") \/ InitObject("cv", "init_cv", "create")
  \/ CreateFails
  \/ JoinThread
  \/ DestroyObject("mtx", "destroy_mtx", "destroy_cv")
  \/ DestroyObject("cv", "destroy_cv", "return")
  \/ Return

LEMMA MainAloneKeepsThreads == MainAlone => UNCHANGED tvars
BY DEF MainAlone, InitObject, CreateFails, JoinThread, DestroyObject, Return

(***************************************************************************)
(* Letters of the threads, and the one that a thread hands on to.          *)
(***************************************************************************)
LEMMA LettersOfThreads ==
  ASSUME NEW t \in Threads
  PROVE  /\ N - t \in 1 .. N
         /\ print(t) \in Letters
         /\ next_print(t) \in Letters
BY PrintOrderAssumption DEF Threads, print, next_print, Letters

LEMMA InitOrder == Init => OrderInv
<1>. SUFFICES ASSUME Init PROVE OrderInv
  OBVIOUS
<1>1. TypeOK
  BY PrintOrderAssumption, EmptySeq DEF Init, TypeOK, MainPlaces, FirstToJoin
<1>2. MutexInv
  BY PrintOrderAssumption DEF Init, MutexInv, Holding, Threads
<1>3. OutputInv
  BY PrintOrderAssumption DEF Init, OutputInv, Printed, Threads
<1>4. NobodySleepsOnItsTurn /\ JoinedInv /\ ObjectsInv
  BY PrintOrderAssumption
     DEF Init, NobodySleepsOnItsTurn, JoinedInv, ObjectsInv, FirstToJoin, Threads
<1>. QED  BY <1>1, <1>2, <1>3, <1>4 DEF OrderInv

(***************************************************************************)
(* A thread prints only when its letter is the next one.                   *)
(***************************************************************************)
LEMMA PrintsNext ==
  ASSUME OrderInv, NEW t \in Threads, PrintLetter(t)
  PROVE  /\ Len(output) \in Nat
         /\ Len(output) < N
         /\ N - t = Len(output) + 1
         /\ actual_print = Order[Len(output) + 1]
<1>1. Len(output) \in Nat /\ Len(output) <= N
  BY LenProperties DEF OrderInv, TypeOK, OutputInv
<1>2. ~ (N - t <= Len(output))
  BY DEF OrderInv, OutputInv, PrintLetter, Printed
<1>3. N - t \in 1 .. N
  BY LettersOfThreads
<1>4. Len(output) < N /\ actual_print = Order[Len(output) + 1]
  BY <1>1, <1>2, <1>3, PrintOrderAssumption DEF OrderInv, OutputInv
<1>5. Order[N - t] = Order[Len(output) + 1]
  BY <1>4 DEF PrintLetter, MustWait, print
<1>6. Len(output) + 1 \in 1 .. N
  BY <1>1, <1>4, PrintOrderAssumption
<1>. QED  BY <1>1, <1>3, <1>4, <1>5, <1>6, PrintOrderAssumption

(***************************************************************************)
(* Types.                                                                  *)
(***************************************************************************)
LEMMA TypeStep ==
  ASSUME OrderInv, [Next]_vars
  PROVE  TypeOK'
<1>. USE DEF OrderInv, TypeOK, mvars
<1>1. ASSUME NEW t \in Threads, CreateThread(t) PROVE TypeOK'
  BY <1>1 DEF CreateThread, MainPlaces
<1>2. CASE MainAlone
  <2>1. UNCHANGED <<actual_print, mtx, pc, output>>
    BY <1>2, MainAloneKeepsThreads DEF tvars
  <2>2. joined' \in 0 .. N
    <3>1. CASE JoinThread
      BY <3>1, PrintOrderAssumption DEF JoinThread, ObjectsInv
    <3>2. CASE ~ JoinThread
      BY <1>2, <3>2 DEF MainAlone, InitObject, CreateFails, DestroyObject, Return
    <3>. QED  BY <3>1, <3>2
  <2>3. main' \in MainPlaces /\ objects' \subseteq {"mtx", "cv"}
    BY <1>2
       DEF MainAlone, InitObject, CreateFails, JoinThread, DestroyObject, Return, MainPlaces
  <2>. QED  BY <2>1, <2>2, <2>3
<1>3. ASSUME NEW t \in Threads, Lock(t, "lock", "test") \/ Lock(t, "relock", "retest")
      PROVE  TypeOK'
  BY <1>3 DEF Lock
<1>4. ASSUME NEW t \in Threads, WaitTurn(t) PROVE TypeOK'
  BY <1>4 DEF WaitTurn
<1>5. ASSUME NEW t \in Threads, PrintLetter(t) PROVE TypeOK'
  <2>1. next_print(t) \in {Order[n] : n \in 1 .. N}
    BY LettersOfThreads DEF Letters
  <2>2. output' \in Seq({Order[n] : n \in 1 .. N})
    BY <1>5, AppendProperties DEF PrintLetter
  <2>. QED  BY <1>5, <2>1, <2>2 DEF PrintLetter
<1>6. ASSUME NEW t \in Threads, Broadcast(t) \/ Unlock(t) \/ SpuriousWakeup(t)
      PROVE  TypeOK'
  BY <1>6 DEF Broadcast, Unlock, SpuriousWakeup
<1>7. CASE UNCHANGED vars
  BY <1>7 DEF vars, tvars
<1>. QED
  BY <1>1, <1>2, <1>3, <1>4, <1>5, <1>6, <1>7 DEF Next, Main, MainAlone, Step, Terminated

LEMMA MutexStep ==
  ASSUME OrderInv, [Next]_vars
  PROVE  MutexInv'
<1>. USE PrintOrderAssumption DEF OrderInv, TypeOK, MutexInv, Holding, Threads
<1>1. ASSUME NEW t \in Threads, CreateThread(t) PROVE MutexInv'
  BY <1>1 DEF CreateThread
<1>2. CASE MainAlone
  BY <1>2, MainAloneKeepsThreads DEF tvars
<1>3. ASSUME NEW t \in Threads, Lock(t, "lock", "test") \/ Lock(t, "relock", "retest")
      PROVE  MutexInv'
  BY <1>3 DEF Lock
<1>4. ASSUME NEW t \in Threads, WaitTurn(t) PROVE MutexInv'
  BY <1>4 DEF WaitTurn
<1>5. ASSUME NEW t \in Threads, PrintLetter(t) PROVE MutexInv'
  BY <1>5 DEF PrintLetter
<1>6. ASSUME NEW t \in Threads, Broadcast(t) PROVE MutexInv'
  BY <1>6 DEF Broadcast, Woken
<1>7. ASSUME NEW t \in Threads, Unlock(t) \/ SpuriousWakeup(t) PROVE MutexInv'
  BY <1>7 DEF Unlock, SpuriousWakeup
<1>8. CASE UNCHANGED vars
  BY <1>8 DEF vars, tvars, mvars
<1>. QED
  BY <1>1, <1>2, <1>3, <1>4, <1>5, <1>6, <1>7, <1>8 DEF Next, Main, MainAlone, Step, Terminated

(***************************************************************************)
(* Only PrintLetter makes a thread one that has printed; the other steps   *)
(* leave the output and its threads alone.                                 *)
(***************************************************************************)
LEMMA OutputStep ==
  ASSUME OrderInv, [Next]_vars
  PROVE  OutputInv'
<1>. DEFINE Same == /\ UNCHANGED <<output, actual_print>>
                    /\ \A t \in Threads : pc'[t] \in Printed <=> pc[t] \in Printed
<1>0. Same => OutputInv'
  BY DEF OrderInv, OutputInv
<1>. USE DEF OrderInv, TypeOK, Printed
<1>1. ASSUME NEW t \in Threads, CreateThread(t) PROVE Same
  BY <1>1 DEF CreateThread
<1>2. CASE MainAlone
  BY <1>0, <1>2, MainAloneKeepsThreads DEF tvars
<1>3. ASSUME NEW t \in Threads, Lock(t, "lock", "test") \/ Lock(t, "relock", "retest")
      PROVE  Same
  BY <1>3 DEF Lock
<1>4. ASSUME NEW t \in Threads, WaitTurn(t) PROVE Same
  BY <1>4 DEF WaitTurn
<1>5. ASSUME NEW t \in Threads, PrintLetter(t) PROVE OutputInv'
  <2>. DEFINE n == Len(output)
  <2>1. n \in Nat /\ n < N /\ N - t = n + 1
    BY <1>5, PrintsNext
  <2>2. Len(output') = n + 1
    BY <1>5, AppendProperties DEF PrintLetter
  <2>3. actual_print' = Order[IF n + 1 < N THEN n + 2 ELSE N]
    BY <1>5, <2>1, PrintOrderAssumption DEF PrintLetter, next_print, Threads
  <2>4. ASSUME NEW s \in Threads
        PROVE  pc'[s] \in Printed <=> N - s <= n + 1
    <3>1. CASE s = t
      BY <1>5, <2>1, <3>1 DEF PrintLetter
    <3>2. CASE s # t
      <4>1. pc'[s] = pc[s] /\ N - s # n + 1
        BY <1>5, <2>1, <3>2, PrintOrderAssumption DEF PrintLetter, Threads
      <4>2. pc[s] \in Printed <=> N - s <= n
        BY DEF OutputInv
      <4>3. N - s \in Nat
        BY PrintOrderAssumption DEF Threads
      <4>. QED  BY <2>1, <4>1, <4>2, <4>3
    <3>. QED  BY <3>1, <3>2
  <2>. QED  BY <2>1, <2>2, <2>3, <2>4, PrintOrderAssumption DEF OutputInv
<1>6. ASSUME NEW t \in Threads, Broadcast(t) PROVE Same
  BY <1>6 DEF Broadcast, Woken
<1>7. ASSUME NEW t \in Threads, Unlock(t) \/ SpuriousWakeup(t) PROVE Same
  BY <1>7 DEF Unlock, SpuriousWakeup
<1>8. CASE UNCHANGED vars
  BY <1>0, <1>8 DEF vars, tvars, mvars
<1>. QED
  BY <1>0, <1>1, <1>2, <1>3, <1>4, <1>5, <1>6, <1>7, <1>8 DEF Next, Main, MainAlone, Step, Terminated

(***************************************************************************)
(* The thread that made a letter the actual one has the broadcast still    *)
(* before it as long as anybody sleeps on that letter.                     *)
(***************************************************************************)
LEMMA SleepersStep ==
  ASSUME OrderInv, [Next]_vars
  PROVE  NobodySleepsOnItsTurn'
<1>. DEFINE Sleeps == NobodySleepsOnItsTurn
<1>. USE DEF OrderInv, TypeOK, NobodySleepsOnItsTurn
<1>1. ASSUME NEW t \in Threads, CreateThread(t) PROVE Sleeps'
  BY <1>1 DEF CreateThread
<1>2. CASE MainAlone
  BY <1>2, MainAloneKeepsThreads DEF tvars
<1>3. ASSUME NEW t \in Threads, Lock(t, "lock", "test") \/ Lock(t, "relock", "retest")
      PROVE  Sleeps'
  BY <1>3 DEF Lock
<1>4. ASSUME NEW t \in Threads, WaitTurn(t) PROVE Sleeps'
  BY <1>4 DEF WaitTurn, MustWait
<1>5. ASSUME NEW t \in Threads, PrintLetter(t) PROVE Sleeps'
  BY <1>5 DEF PrintLetter
<1>6. ASSUME NEW t \in Threads, Broadcast(t) PROVE Sleeps'
  BY <1>6 DEF Broadcast, Woken
<1>7. ASSUME NEW t \in Threads, Unlock(t) \/ SpuriousWakeup(t) PROVE Sleeps'
  BY <1>7 DEF Unlock, SpuriousWakeup
<1>8. CASE UNCHANGED vars
  BY <1>8 DEF vars, tvars, mvars
<1>. QED
  BY <1>1, <1>2, <1>3, <1>4, <1>5, <1>6, <1>7, <1>8 DEF Next, Main, MainAlone, Step, Terminated

(***************************************************************************)
(* A thread moves only when it is born and has not ended, so none that is  *)
(* joined comes back, and none moves while main() has to begin.            *)
(***************************************************************************)
LEMMA ThreadsMove ==
  ASSUME OrderInv, NEW t \in Threads, Step(t) \/ SpuriousWakeup(t)
  PROVE  /\ UNCHANGED mvars
         /\ pc[t] \notin {"unborn", "done"}
         /\ \A s \in Threads : pc[s] \in {"unborn", "done"} => pc'[s] = pc[s]
<1>. USE DEF OrderInv, TypeOK
<1>1. CASE Lock(t, "lock", "test") \/ Lock(t, "relock", "retest")
  BY <1>1 DEF Lock
<1>2. CASE WaitTurn(t) \/ PrintLetter(t)
  BY <1>2 DEF WaitTurn, PrintLetter
<1>3. CASE Broadcast(t)
  BY <1>3 DEF Broadcast, Woken
<1>4. CASE Unlock(t) \/ SpuriousWakeup(t)
  BY <1>4 DEF Unlock, SpuriousWakeup
<1>. QED  BY <1>1, <1>2, <1>3, <1>4 DEF Step

LEMMA JoinedStep ==
  ASSUME OrderInv, [Next]_vars
  PROVE  JoinedInv'
<1>. USE DEF OrderInv, JoinedInv
<1>1. ASSUME NEW t \in Threads, CreateThread(t) PROVE JoinedInv'
  BY <1>1 DEF CreateThread, TypeOK
<1>2. CASE JoinThread
  <2>. SUFFICES ASSUME NEW t \in Threads, t < joined' PROVE pc'[t] = "done"
    OBVIOUS
  <2>1. t < joined \/ t = joined
    BY <1>2, PrintOrderAssumption DEF JoinThread, TypeOK, Threads
  <2>. QED  BY <1>2, <2>1 DEF JoinThread, tvars
<1>3. CASE MainAlone /\ ~ JoinThread
  BY <1>3 DEF MainAlone, InitObject, CreateFails, DestroyObject, Return, tvars
<1>4. ASSUME NEW t \in Threads, Step(t) \/ SpuriousWakeup(t) PROVE JoinedInv'
  BY <1>4, ThreadsMove DEF mvars
<1>5. CASE UNCHANGED vars
  BY <1>5 DEF vars, tvars, mvars
<1>. QED
  BY <1>1, <1>2, <1>3, <1>4, <1>5 DEF Next, Main, MainAlone, Terminated

LEMMA ObjectsStep ==
  ASSUME OrderInv, [Next]_vars
  PROVE  ObjectsInv'
<1>. USE DEF OrderInv, ObjectsInv
<1>1. ASSUME NEW t \in Threads, CreateThread(t) PROVE ObjectsInv'
  BY <1>1 DEF CreateThread
<1>2. CASE InitObject("mtx", "init_mtx", "init_cv") \/ InitObject("cv", "init_cv", "create")
  <2>1. CASE InitObject("mtx", "init_mtx", "init_cv")
    <3>1. objects = {}
      BY <2>1 DEF InitObject
    <3>. QED  BY <2>1, <3>1 DEF InitObject, tvars
  <2>2. CASE InitObject("cv", "init_cv", "create")
    BY <2>2 DEF InitObject, tvars
  <2>. QED  BY <1>2, <2>1, <2>2
<1>3. CASE CreateFails
  BY <1>3 DEF CreateFails, tvars
<1>4. CASE JoinThread
  <2>1. joined' \in Nat /\ joined' <= N
    BY <1>4, PrintOrderAssumption DEF JoinThread, TypeOK
  <2>. QED  BY <1>4, <2>1, PrintOrderAssumption DEF JoinThread, tvars
<1>5. CASE DestroyObject("mtx", "destroy_mtx", "destroy_cv")
           \/ DestroyObject("cv", "destroy_cv", "return")
  BY <1>5 DEF DestroyObject, tvars
<1>6. CASE Return
  BY <1>6 DEF Return, tvars
<1>7. ASSUME NEW t \in Threads, Step(t) \/ SpuriousWakeup(t) PROVE ObjectsInv'
  BY <1>7, ThreadsMove DEF mvars
<1>8. CASE UNCHANGED vars
  BY <1>8 DEF vars, tvars, mvars
<1>. QED
  BY <1>1, <1>2, <1>3, <1>4, <1>5, <1>6, <1>7, <1>8 DEF Next, Main, Terminated

(***************************************************************************)
(* In every reachable state the mutex has one owner, the output is the     *)
(* beginning of the letters and the sleepers wait for a letter that is     *)
(* not there yet.                                                          *)
(***************************************************************************)
THEOREM OrderInvariant == SafetySpec => []OrderInv
<1>1. OrderInv /\ [Next]_vars => OrderInv'
  BY TypeStep, MutexStep, OutputStep, SleepersStep, JoinedStep, ObjectsStep
  DEF OrderInv
<1>. QED  BY InitOrder, <1>1, PTL DEF SafetySpec

(***************************************************************************)
(* actual_print is always the letter of some thread, and that thread is    *)
(* awake or about to be woken: one condition variable serves any number of *)
(* conditions because the wakeup is a broadcast.                           *)
(***************************************************************************)
THEOREM TurnAwaited == SafetySpec => []TurnIsAwaited
<1>1. OrderInv => TurnIsAwaited
  BY DEF OrderInv, TurnIsAwaited
<1>. QED  BY OrderInvariant, <1>1, PTL

(***************************************************************************)
(* No thread, whatever its place, has still to use a mutex or a condition  *)
(* variable that main() has not initialised yet or has destroyed: the      *)
(* joins have seen every thread end before the first object goes.          *)
(***************************************************************************)
THEOREM NothingUsedAfterDestroy == SafetySpec => []NoUseAfterDestroy
<1>1. OrderInv => NoUseAfterDestroy
  <2>. SUFFICES ASSUME OrderInv, NEW t \in Threads, UsesMutex(t)
                PROVE  objects = {"mtx", "cv"}
    BY DEF NoUseAfterDestroy, UsesCond
  <2>1. ~ (t < joined)
    BY DEF OrderInv, JoinedInv, UsesMutex
  <2>2. joined # N
    BY <2>1, PrintOrderAssumption DEF Threads
  <2>3. main \notin {"init_mtx", "init_cv"}
    BY DEF OrderInv, ObjectsInv, UsesMutex
  <2>. QED  BY <2>2, <2>3 DEF OrderInv, ObjectsInv, TypeOK, MainPlaces
<1>. QED  BY OrderInvariant, <1>1, PTL

(***************************************************************************)
(* The program implements Relay: the letters appear one at a time and in   *)
(* the given order, whichever thread is created, scheduled or woken first. *)
(***************************************************************************)
THEOREM PrintOrderRefinement == SafetySpec => PrintsInOrder
<1>1. Init => Abstract!Init
  BY DEF Init, Abstract!Init
<1>2. OrderInv /\ [Next]_vars => [Abstract!PrintLetter]_output
  <2>. SUFFICES ASSUME OrderInv, Next, output' # output
                PROVE  Abstract!PrintLetter
    BY DEF vars, tvars
  <2>1. PICK t \in Threads : PrintLetter(t)
    BY MainAloneKeepsThreads
       DEF Next, Main, MainAlone, CreateThread, Step, Lock, WaitTurn, Broadcast, Unlock,
           SpuriousWakeup, Terminated, vars, tvars
  <2>. QED
    BY <2>1, PrintsNext, PrintOrderAssumption DEF PrintLetter, Abstract!PrintLetter
<1>. QED
  BY OrderInvariant, <1>1, <1>2, PTL DEF SafetySpec, PrintsInOrder, Abstract!SafetySpec
=============================================================================
