---------------------------- MODULE MyStackProofs ----------------------------
(***************************************************************************)
(* Proofs about MyStack for any number of threads and any capacity.        *)
(***************************************************************************)
EXTENDS MyStack, TLAPS

(***************************************************************************)
(* A thread that has been told, with the mutex held, that it may push or   *)
(* pop still may when it acts on the answer; and an item that is on its    *)
(* way is in the cell above the others.                                    *)
(***************************************************************************)
AnswerHolds ==
  \A t \in Threads :
    /\ pc[t] = "relooked" /\ answer[t] = 0 => TopCell(t) \in Cells
    /\ pc[t] \in {"access", "resize"} => TopCell(t) \in Cells
    /\ pc[t] = "resize" /\ t \in Pushers => items[size] = t

(***************************************************************************)
(* Threads exist only once the stack is constructed.                       *)
(***************************************************************************)
UsesMemory ==
  /\ (\E t \in Threads : pc[t] # "unborn") => memory # "nothing"
  /\ process = "create" => memory # "nothing"

StackInv ==
  TypeOK /\ MutexBalanced /\ FaultsOnlyOutOfMemory /\ AnswerHolds /\ UsesMemory

\* Whoever is between a lock and its unlock owns the mutex.
LEMMA OwnerHolds ==
  ASSUME TypeOK, MutexBalanced, NEW t \in Threads, Held(pc[t]) # 0
  PROVE  owner = t /\ depth = Held(pc[t])
BY MyStackAssumption DEF MutexBalanced

LEMMA HeldPlaces ==
  /\ Held("unborn") = 0 /\ Held("test") = 0 /\ Held("enter") = 0
  /\ Held("relook") = 2 /\ Held("relooked") = 2
  /\ Held("look") = 1 /\ Held("looked") = 1 /\ Held("retest") = 1 /\ Held("refuse") = 1
  /\ Held("access") = 1 /\ Held("resize") = 1 /\ Held("leave") = 1
BY DEF Held

LEMMA InitStack == Init => StackInv
<1> SUFFICES ASSUME Init PROVE StackInv
  OBVIOUS
<1>1. TypeOK
  BY MyStackAssumption DEF Init, TypeOK, Threads, Cells, Places
<1>2. MutexBalanced
  BY HeldPlaces, MyStackAssumption DEF Init, MutexBalanced
<1>3. FaultsOnlyOutOfMemory /\ AnswerHolds /\ UsesMemory
  BY DEF Init, FaultsOnlyOutOfMemory, AnswerHolds, UsesMemory
<1> QED
  BY <1>1, <1>2, <1>3 DEF StackInv

\* The actions in which the stack and the answers stay as they are.
LEMMA AnswerKept ==
  ASSUME AnswerHolds, TypeOK, UNCHANGED <<size, items, answer>>,
         \A t \in Threads : pc'[t] \in {"relooked", "access", "resize"} => pc'[t] = pc[t]
  PROVE  AnswerHolds'
BY DEF AnswerHolds, TopCell, Cells

LEMMA LockKeeps ==
  ASSUME StackInv, NEW t \in Threads, NEW from, NEW to \in Places, Lock(t, from, to),
         <<from, to>> \in {<<"test", "look">>, <<"enter", "retest">>, <<"retest", "relook">>}
  PROVE  StackInv'
<1>1. Held(pc[t]) = IF owner = t THEN depth ELSE 0
  BY DEF StackInv, MutexBalanced
<1>2. Held(to) = Held(from) + 1 /\ from \in Places /\ Held(from) \in 0 .. 1
  BY HeldPlaces DEF Places
<1>3. depth = Held(from)
  BY <1>1, <1>2 DEF StackInv, MutexBalanced, Lock
<1>4. TypeOK'
  BY <1>2, <1>3 DEF StackInv, TypeOK, Lock
<1>5. MutexBalanced'
  <2>1. owner' # NoThread
    BY MyStackAssumption DEF Lock, Threads
  <2>2. ASSUME NEW s \in Threads
        PROVE  Held(pc'[s]) = IF owner' = s THEN depth' ELSE 0
    <3>1. CASE s = t
      BY <3>1, <1>2, <1>3 DEF StackInv, TypeOK, Lock
    <3>2. CASE s # t
      <4>1. pc'[s] = pc[s] /\ owner # s
        BY <3>2, MyStackAssumption DEF StackInv, TypeOK, Lock, Threads
      <4> QED
        BY <4>1, <3>2 DEF StackInv, MutexBalanced, Lock
    <3> QED
      BY <3>1, <3>2
  <2> QED
    BY <2>1, <2>2 DEF MutexBalanced
<1>6. AnswerHolds'
  BY AnswerKept DEF StackInv, TypeOK, Lock
<1>7. FaultsOnlyOutOfMemory' /\ UsesMemory'
  BY DEF StackInv, FaultsOnlyOutOfMemory, UsesMemory, TypeOK, Lock
<1> QED
  BY <1>4, <1>5, <1>6, <1>7 DEF StackInv

\* What an unlock does to the mutex, wherever the thread goes from there.
LEMMA UnlockKeeps ==
  ASSUME StackInv, NEW t \in Threads, NEW from \in Places, NEW to \in Places, Unlock(t, from),
         pc' = [pc EXCEPT ![t] = to], Held(from) = Held(to) + 1, Held(to) \in 0 .. 1
  PROVE  MutexBalanced' /\ depth' \in 0 .. 2 /\ owner' \in Threads \cup {NoThread}
<1>1. owner = t /\ depth = Held(from)
  BY OwnerHolds DEF StackInv, Unlock
<1>2. depth' = Held(to) /\ owner' = IF Held(to) = 0 THEN NoThread ELSE t
  BY <1>1 DEF Unlock, AfterUnlock
<1>3. ASSUME NEW s \in Threads
      PROVE  Held(pc'[s]) = IF owner' = s THEN depth' ELSE 0
  <2>1. CASE s = t
    BY <2>1, <1>2 DEF StackInv, TypeOK
  <2>2. CASE s # t
    <3>1. pc'[s] = pc[s] /\ owner # s /\ owner' # s
      BY <2>2, <1>1, <1>2, MyStackAssumption DEF StackInv, TypeOK, Threads
    <3> QED
      BY <3>1 DEF StackInv, MutexBalanced
  <2> QED
    BY <2>1, <2>2
<1>4. owner' = NoThread => depth' = 0
  BY <1>2, MyStackAssumption DEF Threads
<1> QED
  BY <1>2, <1>3, <1>4 DEF MutexBalanced

\* The actions that leave the mutex alone and their thread between the same locks.
LEMMA MutexKept ==
  ASSUME StackInv, UNCHANGED mutex, NEW t \in Threads, NEW to \in Places,
         pc' = [pc EXCEPT ![t] = to], Held(to) = Held(pc[t])
  PROVE  MutexBalanced'
<1>1. ASSUME NEW s \in Threads
      PROVE  Held(pc'[s]) = Held(pc[s])
  BY DEF StackInv, TypeOK
<1> QED
  BY <1>1 DEF StackInv, MutexBalanced, mutex

LEMMA LookKeeps ==
  ASSUME StackInv, NEW t \in Threads, NEW from, NEW to, Look(t, from, to),
         <<from, to>> \in {<<"look", "looked">>, <<"relook", "relooked">>}
  PROVE  StackInv'
<1>1. from \in Places /\ to \in Places /\ Held(from) = Held(to) /\ Held(from) # 0
  BY HeldPlaces DEF Places
<1>2. owner = t
  BY <1>1, OwnerHolds DEF StackInv, Look
<1>3. (IF t \in Pushers THEN my_stack_full ELSE my_stack_empty) \in {0, 1}
  BY DEF my_stack_full, my_stack_empty
<1>4. TypeOK'
  BY <1>1, <1>3 DEF StackInv, TypeOK, Look, mutex
<1>5. MutexBalanced'
  BY <1>1, MutexKept DEF Look
<1>6. AnswerHolds'
  <2>1. ASSUME answer'[t] = 0
        PROVE  TopCell(t)' \in Cells
    BY <2>1, MyStackAssumption
       DEF StackInv, TypeOK, Look, TopCell, Cells, Threads, my_stack_full, my_stack_empty
  <2>2. pc'[t] \notin {"access", "resize"}
    BY DEF StackInv, TypeOK, Look
  <2>3. ASSUME NEW s \in Threads, s # t
        PROVE  answer'[s] = answer[s] /\ pc'[s] = pc[s]
    BY <2>3 DEF StackInv, TypeOK, Look
  <2> QED
    BY <2>1, <2>2, <2>3 DEF StackInv, AnswerHolds, Look, TopCell, Cells
<1>7. FaultsOnlyOutOfMemory' /\ UsesMemory'
  BY DEF StackInv, FaultsOnlyOutOfMemory, UsesMemory, TypeOK, Look
<1> QED
  BY <1>4, <1>5, <1>6, <1>7 DEF StackInv

LEMMA DecideKeeps ==
  ASSUME StackInv, NEW t \in Threads, Decide(t)
  PROVE  StackInv'
<1> DEFINE to == IF answer[t] = 1 THEN "test" ELSE "enter"
<1>1. to \in Places /\ Held("looked") = Held(to) + 1 /\ Held(to) \in 0 .. 1 /\ "looked" \in Places
  BY HeldPlaces DEF Places
<1>2. MutexBalanced' /\ depth' \in 0 .. 2 /\ owner' \in Threads \cup {NoThread}
  <2>1. Unlock(t, "looked") /\ pc' = [pc EXCEPT ![t] = to]
    BY DEF Decide
  <2> HIDE DEF to
  <2> QED
    BY <1>1, <2>1, UnlockKeeps
<1>3. TypeOK'
  BY <1>1, <1>2 DEF StackInv, TypeOK, Decide
<1>4. AnswerHolds'
  BY AnswerKept DEF StackInv, TypeOK, Decide
<1>5. FaultsOnlyOutOfMemory' /\ UsesMemory'
  BY DEF StackInv, FaultsOnlyOutOfMemory, UsesMemory, TypeOK, Decide, Unlock
<1> QED
  BY <1>2, <1>3, <1>4, <1>5 DEF StackInv

LEMMA DecideInsideKeeps ==
  ASSUME StackInv, NEW t \in Threads, DecideInside(t)
  PROVE  StackInv'
<1> DEFINE to == IF answer[t] = 1 THEN "refuse" ELSE "access"
<1>1. /\ to \in Places /\ Held("relooked") = Held(to) + 1 /\ Held(to) \in 0 .. 1
      /\ "relooked" \in Places
  BY HeldPlaces DEF Places
<1>2. MutexBalanced' /\ depth' \in 0 .. 2 /\ owner' \in Threads \cup {NoThread}
  <2>1. Unlock(t, "relooked") /\ pc' = [pc EXCEPT ![t] = to]
    BY DEF DecideInside
  <2> HIDE DEF to
  <2> QED
    BY <1>1, <2>1, UnlockKeeps
<1>3. TypeOK'
  BY <1>1, <1>2 DEF StackInv, TypeOK, DecideInside
<1>4. pc[t] = "relooked"
  BY DEF DecideInside, Unlock
<1>5. ASSUME pc'[t] = "access"
      PROVE  TopCell(t)' \in Cells
  BY <1>4, <1>5 DEF StackInv, TypeOK, AnswerHolds, DecideInside, TopCell, Cells
<1>6. pc'[t] \in {"refuse", "access"} /\ \A s \in Threads : s # t => pc'[s] = pc[s]
  BY DEF StackInv, TypeOK, DecideInside
<1>7. AnswerHolds'
  BY <1>5, <1>6 DEF StackInv, AnswerHolds, DecideInside, TopCell, Cells
<1>8. FaultsOnlyOutOfMemory' /\ UsesMemory'
  BY DEF StackInv, FaultsOnlyOutOfMemory, UsesMemory, TypeOK, DecideInside, Unlock
<1> QED
  BY <1>2, <1>3, <1>7, <1>8 DEF StackInv

LEMMA LeaveKeeps ==
  ASSUME StackInv, NEW t \in Threads, NEW from \in {"refuse", "leave"}, Leave(t, from)
  PROVE  StackInv'
<1>1. "test" \in Places /\ from \in Places /\ Held(from) = Held("test") + 1 /\ Held("test") \in 0 .. 1
  BY HeldPlaces DEF Places
<1>2. MutexBalanced' /\ depth' \in 0 .. 2 /\ owner' \in Threads \cup {NoThread}
  <2>1. Unlock(t, from) /\ pc' = [pc EXCEPT ![t] = "test"]
    BY DEF Leave
  <2> QED
    BY <1>1, <2>1, UnlockKeeps
<1>3. TypeOK'
  BY <1>1, <1>2 DEF StackInv, TypeOK, Leave
<1>4. AnswerHolds'
  BY AnswerKept DEF StackInv, TypeOK, Leave
<1>5. FaultsOnlyOutOfMemory' /\ UsesMemory'
  BY DEF StackInv, FaultsOnlyOutOfMemory, UsesMemory, TypeOK, Leave, Unlock
<1> QED
  BY <1>2, <1>3, <1>4, <1>5 DEF StackInv

LEMMA AccessKeeps ==
  ASSUME StackInv, NEW t \in Threads, Access(t)
  PROVE  StackInv'
<1>1. pc[t] = "access" /\ TopCell(t) \in Cells
  BY DEF StackInv, AnswerHolds, Access
<1>2. CASE memory = "cells"
  <2>1. /\ pc' = [pc EXCEPT ![t] = "resize"]
        /\ IF t \in Pushers
             THEN items' = [items EXCEPT ![size] = t] /\ UNCHANGED result
             ELSE result' = [result EXCEPT ![t] = items[size - 1]] /\ UNCHANGED items
        /\ UNCHANGED <<size, memory, mutex, answer, process>>
    BY <1>1, <1>2 DEF Access
  <2>2. TypeOK'
    BY <1>1, <2>1 DEF StackInv, TypeOK, Places, mutex, TopCell, Cells, Threads
  <2>3. MutexBalanced'
    <3>1. "resize" \in Places /\ Held("resize") = Held(pc[t])
      BY <1>1, HeldPlaces DEF Places
    <3> QED
      BY <2>1, <3>1, MutexKept
  <2>4. AnswerHolds'
    <3>1. t \in Pushers => items'[size] = t
      BY <1>1, <2>1 DEF StackInv, TypeOK, TopCell
    <3>2. ASSUME NEW s \in Threads, s # t
          PROVE  pc'[s] = pc[s] /\ pc[s] # "resize"
      <4>1. Held(pc[t]) # 0 /\ Held("resize") # 0
        BY <1>1, HeldPlaces
      <4>2. owner = t
        BY <4>1, OwnerHolds DEF StackInv
      <4>3. pc[s] # "resize"
        BY <3>2, <4>1, <4>2, OwnerHolds DEF StackInv
      <4> QED
        BY <2>1, <3>2, <4>3 DEF StackInv, TypeOK
    <3>3. pc'[t] = "resize"
      BY <2>1 DEF StackInv, TypeOK
    <3> QED
      BY <1>1, <2>1, <3>1, <3>2, <3>3 DEF StackInv, AnswerHolds, TopCell, Cells
  <2>5. FaultsOnlyOutOfMemory' /\ UsesMemory'
    BY <1>2, <2>1 DEF StackInv, FaultsOnlyOutOfMemory, UsesMemory
  <2> QED
    BY <2>2, <2>3, <2>4, <2>5 DEF StackInv
<1>3. CASE memory # "cells"
  <2>1. process' = "faulted" /\ UNCHANGED <<size, items, memory, mutex, pc, answer, result>>
    BY <1>3 DEF Access
  <2>2. memory = "null"
    BY <1>1, <1>3 DEF StackInv, UsesMemory, TypeOK
  <2>3. TypeOK' /\ FaultsOnlyOutOfMemory' /\ UsesMemory'
    BY <2>1, <2>2 DEF StackInv, TypeOK, FaultsOnlyOutOfMemory, UsesMemory, mutex
  <2>4. MutexBalanced'
    BY <2>1 DEF StackInv, MutexBalanced, mutex
  <2>5. AnswerHolds'
    BY <2>1 DEF StackInv, AnswerHolds, TopCell, Cells
  <2> QED
    BY <2>3, <2>4, <2>5 DEF StackInv
<1> QED
  BY <1>2, <1>3

LEMMA ResizeKeeps ==
  ASSUME StackInv, NEW t \in Threads, Resize(t)
  PROVE  StackInv'
<1>1. pc[t] = "resize" /\ TopCell(t) \in Cells
  BY DEF StackInv, AnswerHolds, Resize
<1>2. "leave" \in Places /\ Held("leave") = Held(pc[t]) /\ Held(pc[t]) # 0
  BY <1>1, HeldPlaces DEF Places
<1>3. size' \in 0 .. max_size
  BY <1>1, MyStackAssumption DEF StackInv, TypeOK, Resize, NewSize, TopCell, Cells, Threads
<1>4. TypeOK'
  BY <1>2, <1>3 DEF StackInv, TypeOK, Resize, mutex
<1>5. MutexBalanced'
  BY <1>2, MutexKept DEF Resize
<1>6. AnswerHolds'
  <2>1. owner = t
    BY <1>2, OwnerHolds DEF StackInv
  <2>2. ASSUME NEW s \in Threads
        PROVE  pc'[s] \notin {"relooked", "access", "resize"}
    <3>1. CASE s = t
      BY <3>1 DEF StackInv, TypeOK, Resize
    <3>2. CASE s # t
      <4>1. Held(pc[s]) = 0
        BY <2>1, <3>2 DEF StackInv, MutexBalanced
      <4> QED
        BY <3>2, <4>1, HeldPlaces DEF StackInv, TypeOK, Resize
    <3> QED
      BY <3>1, <3>2
  <2> QED
    BY <2>2 DEF AnswerHolds
<1>7. FaultsOnlyOutOfMemory' /\ UsesMemory'
  BY <1>1 DEF StackInv, FaultsOnlyOutOfMemory, UsesMemory, TypeOK, Resize
<1> QED
  BY <1>4, <1>5, <1>6, <1>7 DEF StackInv

LEMMA MainKeeps ==
  ASSUME StackInv, Main
  PROVE  StackInv'
<1>1. CASE Construct
  <2>1. TypeOK' /\ FaultsOnlyOutOfMemory' /\ UsesMemory'
    BY <1>1 DEF StackInv, TypeOK, FaultsOnlyOutOfMemory, UsesMemory, Construct, mutex
  <2>2. MutexBalanced'
    BY <1>1 DEF StackInv, MutexBalanced, Construct, mutex
  <2>3. AnswerHolds'
    BY <1>1 DEF StackInv, AnswerHolds, Construct, TopCell, Cells
  <2> QED
    BY <2>1, <2>2, <2>3 DEF StackInv
<1>2. ASSUME NEW t \in Threads, CreateThread(t)
      PROVE  StackInv'
  <2>1. "test" \in Places /\ Held("test") = Held(pc[t])
    BY <1>2, HeldPlaces DEF CreateThread, Places
  <2>2. TypeOK' /\ FaultsOnlyOutOfMemory' /\ UsesMemory'
    BY <1>2, <2>1 DEF StackInv, TypeOK, FaultsOnlyOutOfMemory, UsesMemory, CreateThread, mutex
  <2>3. MutexBalanced'
    BY <1>2, <2>1, MutexKept DEF CreateThread
  <2>4. AnswerHolds'
    BY <1>2, AnswerKept DEF StackInv, TypeOK, CreateThread
  <2> QED
    BY <2>2, <2>3, <2>4 DEF StackInv
<1>3. CASE CreateFails
  <2>1. TypeOK' /\ FaultsOnlyOutOfMemory' /\ UsesMemory'
    BY <1>3 DEF StackInv, TypeOK, FaultsOnlyOutOfMemory, UsesMemory, CreateFails, mutex
  <2>2. MutexBalanced'
    BY <1>3 DEF StackInv, MutexBalanced, CreateFails, mutex
  <2>3. AnswerHolds'
    BY <1>3 DEF StackInv, AnswerHolds, CreateFails, TopCell, Cells
  <2> QED
    BY <2>1, <2>2, <2>3 DEF StackInv
<1> QED
  BY <1>1, <1>2, <1>3 DEF Main

LEMMA StepKeeps ==
  ASSUME StackInv, NEW t \in Threads, Step(t)
  PROVE  StackInv'
<1>1. \A place \in {"look", "retest", "relook"} : place \in Places
  BY DEF Places
<1>2. CASE Lock(t, "test", "look") \/ Lock(t, "enter", "retest") \/ Lock(t, "retest", "relook")
  BY <1>1, <1>2, LockKeeps
<1>3. CASE Look(t, "look", "looked") \/ Look(t, "relook", "relooked")
  BY <1>3, LookKeeps
<1>4. CASE Decide(t) \/ DecideInside(t)
  BY <1>4, DecideKeeps, DecideInsideKeeps
<1>5. CASE Access(t) \/ Resize(t)
  BY <1>5, AccessKeeps, ResizeKeeps
<1>6. CASE Leave(t, "refuse") \/ Leave(t, "leave")
  BY <1>6, LeaveKeeps
<1> QED
  BY <1>2, <1>3, <1>4, <1>5, <1>6 DEF Step, InPush

LEMMA StutterKeeps ==
  ASSUME StackInv, UNCHANGED vars
  PROVE  StackInv'
<1>1. TypeOK' /\ FaultsOnlyOutOfMemory' /\ UsesMemory'
  BY DEF StackInv, TypeOK, FaultsOnlyOutOfMemory, UsesMemory, vars, mutex
<1>2. MutexBalanced'
  BY DEF StackInv, MutexBalanced, vars, mutex
<1>3. AnswerHolds'
  BY DEF StackInv, AnswerHolds, vars, TopCell, Cells
<1> QED
  BY <1>1, <1>2, <1>3 DEF StackInv

(***************************************************************************)
(* In every reachable state the locks of the recursive mutex balance, a    *)
(* thread that was told it may push or pop still may, and only a failed    *)
(* malloc ends the process.                                                *)
(***************************************************************************)
THEOREM StackInvariant == Spec => []StackInv
<1>1. StackInv /\ [Next]_vars => StackInv'
  BY MainKeeps, StepKeeps, StutterKeeps DEF Next, Terminated
<1> QED
  BY InitStack, <1>1, PTL DEF Spec

(***************************************************************************)
(* The nested locks of my_stack_push and my_stack_pop balance on every     *)
(* path: whoever is between a lock and its unlock owns the mutex, as often *)
(* as it locked it.                                                        *)
(***************************************************************************)
THEOREM StackLocks == Spec => []MutexBalanced
<1>1. StackInv => MutexBalanced
  BY DEF StackInv
<1> QED
  BY StackInvariant, <1>1, PTL

(***************************************************************************)
(* The same for the properties by their names.                             *)
(***************************************************************************)
THEOREM StackSafety == Spec => [](TypeOK /\ MutexBalanced /\ FaultsOnlyOutOfMemory)
<1>1. StackInv => TypeOK /\ MutexBalanced /\ FaultsOnlyOutOfMemory
  BY DEF StackInv
<1> QED
  BY StackInvariant, <1>1, PTL

-----------------------------------------------------------------------------
(***************************************************************************)
(* The refinement.                                                         *)
(***************************************************************************)
Shrinking == \E t \in Poppers : pc[t] = "resize"

\* The items, as long as no pop is between its two halves, and otherwise.
LEMMA ContentsWhole ==
  ASSUME ~ Shrinking
  PROVE  Contents = [n \in 1 .. size |-> items[n - 1]]
BY DEF Contents, Shrinking

LEMMA ContentsShrinking ==
  ASSUME Shrinking
  PROVE  Contents = [n \in 1 .. size - 1 |-> items[n - 1]]
BY DEF Contents, Shrinking

\* While one thread is between a lock and its unlock no other accesses a cell.
LEMMA OthersOut ==
  ASSUME StackInv, NEW t \in Threads, Held(pc[t]) # 0, NEW s \in Threads, s # t
  PROVE  pc[s] # "resize"
BY OwnerHolds, HeldPlaces DEF StackInv

LEMMA ContentsKept ==
  ASSUME UNCHANGED <<size, items>>,
         \A s \in Poppers : pc'[s] = "resize" <=> pc[s] = "resize"
  PROVE  Contents' = Contents
<1>1. Shrinking' <=> Shrinking
  BY DEF Shrinking
<1> QED
  BY <1>1 DEF Contents, Shrinking

LEMMA ContentsMoved ==
  ASSUME StackInv, UNCHANGED <<size, items>>, NEW t \in Threads, pc[t] # "resize",
         NEW to, to # "resize", pc' = [pc EXCEPT ![t] = to]
  PROVE  Contents' = Contents
<1>1. \A s \in Poppers : pc'[s] = "resize" <=> pc[s] = "resize"
  BY DEF StackInv, TypeOK, Threads
<1> QED
  BY <1>1, ContentsKept

LEMMA AccessRefines ==
  ASSUME StackInv, NEW t \in Threads, Access(t), process' # "faulted"
  PROVE  IF t \in Pushers THEN UNCHANGED <<Contents, result>> ELSE Abstract!Pop(t)
<1>1. /\ pc[t] = "access" /\ TopCell(t) \in Cells /\ UNCHANGED size
      /\ pc' = [pc EXCEPT ![t] = "resize"]
      /\ IF t \in Pushers
           THEN items' = [items EXCEPT ![size] = t] /\ UNCHANGED result
           ELSE result' = [result EXCEPT ![t] = items[size - 1]] /\ UNCHANGED items
  BY DEF StackInv, AnswerHolds, Access
<1>2. \A s \in Threads : pc[s] # "resize"
  BY <1>1, OthersOut, HeldPlaces
<1>3. ~ Shrinking
  BY <1>2 DEF Shrinking, Threads
<1>4. Contents = [n \in 1 .. size |-> items[n - 1]]
  BY <1>3, ContentsWhole
<1>5. CASE t \in Pushers
  <2>1. ~ Shrinking'
    BY <1>1, <1>2, <1>5, MyStackAssumption DEF Shrinking, Threads, StackInv, TypeOK
  <2>2. Contents' = [n \in 1 .. size |-> items'[n - 1]]
    BY <1>1, <2>1 DEF Contents, Shrinking
  <2>3. ASSUME NEW n \in 1 .. size
        PROVE  items'[n - 1] = items[n - 1]
    <3>1. size \in Cells /\ items \in [Cells -> Pushers \cup {Nothing}]
      BY <1>1, <1>5 DEF StackInv, TypeOK, TopCell
    <3>2. n - 1 \in Cells /\ n - 1 # size
      BY <3>1, MyStackAssumption DEF Cells
    <3> QED
      BY <1>1, <1>5, <3>1, <3>2
  <2> QED
    BY <1>1, <1>4, <1>5, <2>2, <2>3
<1>6. CASE t \notin Pushers
  <2>1. t \in Poppers /\ size \in Nat /\ size > 0
    BY <1>1, <1>6, MyStackAssumption DEF Threads, TopCell, Cells, StackInv, TypeOK
  <2>2. Shrinking'
    BY <1>1, <2>1 DEF Shrinking, Threads, StackInv, TypeOK
  <2>3. Contents' = [n \in 1 .. size - 1 |-> items[n - 1]]
    BY <1>1, <1>6, <2>2 DEF Contents, Shrinking
  <2>4. Len(Contents) = size /\ Contents[size] = items[size - 1]
    BY <1>4, <2>1
  <2>5. SubSeq(Contents, 1, size - 1) = Contents'
    <3>1. SubSeq(Contents, 1, size - 1) = [n \in 1 .. size - 1 |-> Contents[n]]
      BY <2>1
    <3>2. \A n \in 1 .. size - 1 : Contents[n] = items[n - 1]
      BY <1>4, <2>1
    <3> QED
      BY <2>3, <3>1, <3>2
  <2> QED
    BY <1>1, <1>6, <2>1, <2>4, <2>5 DEF Abstract!Pop
<1> QED
  BY <1>5, <1>6

LEMMA ResizeRefines ==
  ASSUME StackInv, NEW t \in Threads, Resize(t)
  PROVE  IF t \in Pushers THEN Abstract!Push(t) ELSE UNCHANGED <<Contents, result>>
<1>1. /\ pc[t] = "resize" /\ TopCell(t) \in Cells
      /\ pc' = [pc EXCEPT ![t] = "leave"] /\ size' = NewSize(t)
      /\ UNCHANGED <<items, result>>
  BY DEF StackInv, AnswerHolds, Resize
<1>2. \A s \in Threads : s # t => pc[s] # "resize"
  BY <1>1, OthersOut, HeldPlaces
<1>3. ~ Shrinking'
  BY <1>1, <1>2 DEF Shrinking, Threads, StackInv, TypeOK
<1>4. Contents' = [n \in 1 .. size' |-> items[n - 1]]
  BY <1>1, <1>3 DEF Contents, Shrinking
<1>5. CASE t \in Pushers
  <2>1. ~ Shrinking
    BY <1>2, <1>5, MyStackAssumption DEF Shrinking, Threads
  <2>2. Contents = [n \in 1 .. size |-> items[n - 1]]
    BY <2>1, ContentsWhole
  <2>3. size \in Nat /\ size < max_size /\ size' = size + 1 /\ items[size] = t
    BY <1>1, <1>5, MyStackAssumption
       DEF StackInv, AnswerHolds, TypeOK, TopCell, Cells, NewSize
  <2>4. Len(Contents) = size
    BY <2>2, <2>3
  <2>5. Contents' = Append(Contents, t)
    BY <1>4, <2>2, <2>3
  <2> QED
    BY <1>1, <1>5, <2>3, <2>4, <2>5 DEF Abstract!Push
<1>6. CASE t \notin Pushers
  <2>1. t \in Poppers /\ Shrinking
    BY <1>1, <1>6 DEF Threads, Shrinking
  <2> QED
    BY <1>1, <1>4, <1>6, <2>1, ContentsShrinking DEF NewSize
<1> QED
  BY <1>5, <1>6

LEMMA StepRefines ==
  ASSUME StackInv, NEW t \in Threads, Step(t)
  PROVE  Abstract!Next \/ UNCHANGED <<Contents, result>>
<1>1. CASE Lock(t, "test", "look") \/ Lock(t, "enter", "retest") \/ Lock(t, "retest", "relook")
  <2>1. UNCHANGED <<size, items, result>> /\ pc[t] # "resize"
    BY <1>1 DEF Lock
  <2>2. PICK to \in {"look", "retest", "relook"} : pc' = [pc EXCEPT ![t] = to]
    BY <1>1 DEF Lock
  <2> QED
    BY <2>1, <2>2, ContentsMoved
<1>2. CASE Look(t, "look", "looked") \/ Look(t, "relook", "relooked")
  <2>1. UNCHANGED <<size, items, result>> /\ pc[t] # "resize"
    BY <1>2 DEF Look
  <2>2. PICK to \in {"looked", "relooked"} : pc' = [pc EXCEPT ![t] = to]
    BY <1>2 DEF Look
  <2> QED
    BY <2>1, <2>2, ContentsMoved
<1>3. CASE Decide(t)
  <2>1. UNCHANGED <<size, items>> /\ pc[t] # "resize"
    BY <1>3 DEF Decide, Unlock
  <2>2. PICK to \in {"test", "enter"} : pc' = [pc EXCEPT ![t] = to]
    BY <1>3 DEF Decide
  <2>3. Contents' = Contents
    BY <2>1, <2>2, ContentsMoved
  <2>4. result' = result \/ (t \in Poppers /\ result' = [result EXCEPT ![t] = Nothing])
    BY <1>3 DEF Decide
  <2> QED
    BY <2>3, <2>4 DEF Abstract!Next, Abstract!Forget
<1>4. CASE DecideInside(t)
  <2>1. UNCHANGED <<size, items, result>> /\ pc[t] # "resize"
    BY <1>4 DEF DecideInside, Unlock
  <2>2. PICK to \in {"refuse", "access"} : pc' = [pc EXCEPT ![t] = to]
    BY <1>4 DEF DecideInside
  <2> QED
    BY <2>1, <2>2, ContentsMoved
<1>5. CASE Leave(t, "refuse") \/ Leave(t, "leave")
  <2>1. UNCHANGED <<size, items, result>> /\ pc[t] # "resize" /\ pc' = [pc EXCEPT ![t] = "test"]
    BY <1>5 DEF Leave, Unlock
  <2> QED
    BY <2>1, ContentsMoved
<1>6. CASE Access(t)
  <2>1. CASE process' # "faulted"
    BY <1>6, <2>1, AccessRefines DEF Abstract!Next, Threads
  <2>2. CASE process' = "faulted"
    <3>1. UNCHANGED <<size, items, pc, result>>
      BY <1>6, <2>2 DEF Access, StackInv, FaultsOnlyOutOfMemory, TypeOK
    <3> QED
      BY <3>1, ContentsKept
  <2> QED
    BY <2>1, <2>2
<1>7. CASE Resize(t)
  BY <1>7, ResizeRefines DEF Abstract!Next
<1> QED
  BY <1>1, <1>2, <1>3, <1>4, <1>5, <1>6, <1>7 DEF Step, InPush

LEMMA MainRefines ==
  ASSUME StackInv, Main
  PROVE  UNCHANGED <<Contents, result>>
<1>1. CASE Construct \/ CreateFails
  BY <1>1, ContentsKept DEF Construct, CreateFails
<1>2. ASSUME NEW t \in Threads, CreateThread(t)
      PROVE  UNCHANGED <<Contents, result>>
  BY <1>2, ContentsMoved DEF CreateThread
<1> QED
  BY <1>1, <1>2 DEF Main

LEMMA InitRefines == Init => Abstract!Init
<1> SUFFICES ASSUME Init PROVE Abstract!Init
  OBVIOUS
<1>1. ~ Shrinking
  BY DEF Init, Shrinking, Threads
<1>2. Contents = << >>
  BY <1>1, ContentsWhole DEF Init
<1> QED
  BY <1>2 DEF Init, Abstract!Init

(***************************************************************************)
(* The stack under its recursive mutex implements a bounded stack whose    *)
(* pushes and pops happen at one instant.                                  *)
(***************************************************************************)
THEOREM StackRefinement == Spec => ImplementsBoundedStack
<1>1. StackInv /\ [Next]_vars => [Abstract!Next]_(Abstract!svars)
  <2> SUFFICES ASSUME StackInv, [Next]_vars
               PROVE  Abstract!Next \/ UNCHANGED <<Contents, result>>
    BY DEF Abstract!svars
  <2>1. CASE UNCHANGED vars
    BY <2>1, ContentsKept DEF vars
  <2> QED
    BY <2>1, MainRefines, StepRefines DEF Next, Terminated
<1> QED
  BY InitRefines, StackInvariant, <1>1, PTL DEF Spec, ImplementsBoundedStack, Abstract!SafetySpec
=============================================================================
