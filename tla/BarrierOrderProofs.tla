-------------------------- MODULE BarrierOrderProofs --------------------------
(***************************************************************************)
(* Proofs about BarrierOrder for any number of threads and any order of    *)
(* creation: the letters are printed in order, and every barrier is used   *)
(* by its two threads, once, while it is initialised.                      *)
(***************************************************************************)
EXTENDS BarrierOrder, FiniteSetTheorems, FunctionTheorems, SequenceTheorems, TLAPS

Letters == {Order[n] : n \in 1 .. N}

Places == {"unborn", "before", "in first", "print", "after", "in second", "done"}

\* The thread has printed; it has called its first barrier, or had none; it has
\* called its second barrier, or had none.
Printed(t) == tpc[t] \in {"after", "in second", "done"}
Came(t) == tpc[t] \notin {"unborn", "before"}
CameBack(t) == tpc[t] \in {"in second", "done"}

\* Barrier b has been called by thread b, as its second, and by thread b + 1,
\* as its first.
Met(b) == CameBack(b) /\ Came(b + 1)

\* The thread is inside barrier b.
Inside(t, b) ==
  \/ t = b /\ tpc[t] = "in second"
  \/ t = b + 1 /\ tpc[t] = "in first"

(***************************************************************************)
(* A barrier gathers its callers until both have called it and has         *)
(* released them afterwards; nobody is beyond a barrier that its partner   *)
(* has not called.                                                         *)
(***************************************************************************)
RoundAt(b) ==
  /\ \A t \in Threads : t \in gathering[b] <=> Inside(t, b) /\ ~ Met(b)
  /\ \A t \in Threads : t \in released[b] <=> Inside(t, b) /\ Met(b)
  /\ tpc[b] = "done" => Met(b)
  /\ Came(b + 1) /\ tpc[b + 1] # "in first" => Met(b)

RoundInv == \A b \in Barriers : RoundAt(b)

(***************************************************************************)
(* The threads that have printed are those whose letters are in the output.*)
(***************************************************************************)
OutputInv ==
  /\ Len(output) <= N
  /\ \A t \in Threads : Printed(t) <=> t <= Len(output)

(***************************************************************************)
(* main() has created the first threads of CreationOrder and no other, and *)
(* the barriers are there from before the first thread until the last has  *)
(* ended.                                                                  *)
(***************************************************************************)
MainInv ==
  /\ \A n \in 1 .. N : tpc[CreationOrder[n]] = "unborn" <=> created < n
  /\ mpc = "init" => created = 0 /\ \E k \in 0 .. N - 1 : objects = 1 .. k
  /\ mpc = "create" => created < N
  /\ mpc \in {"create", "join"} => objects = Barriers
  /\ mpc \in {"destroy", "exited"} => \A t \in Threads : tpc[t] = "done"
  /\ mpc = "failed" => objects = Barriers \/ created = 0

BOInv == TypeOK /\ RoundInv /\ OutputInv /\ MainInv

(***************************************************************************)
(* main() creates every thread once: as many entries as there are threads  *)
(* name all of them, so that none is named twice.                          *)
(***************************************************************************)
LEMMA CreatedOnce ==
  ASSUME NEW n \in 1 .. N
  PROVE  /\ CreationOrder[n] \in Threads
         /\ \A m \in 1 .. N : CreationOrder[m] = CreationOrder[n] => m = n
<1>. DEFINE f == [m \in 1 .. N |-> CreationOrder[m]]
<1>1. f \in [1 .. N -> Threads] /\ \A t \in Threads : \E m \in 1 .. N : f[m] = t
  BY BarrierOrderAssumption
<1>2. f \in Surjection(1 .. N, Threads)
  BY <1>1, Fun_IsSurj
<1>3. IsFiniteSet(1 .. N) /\ Cardinality(1 .. N) = Cardinality(Threads)
  BY FS_Interval, BarrierOrderAssumption
<1>4. f \in Injection(1 .. N, Threads)
  BY <1>2, <1>3, FS_SurjSameCardinalityImpliesInj
<1>5. \A k, m \in 1 .. N : f[k] = f[m] => k = m
  <2>. HIDE DEF f
  <2>. QED  BY <1>4, Fun_InjectionProperties
<1>. QED  BY <1>1, <1>5

(***************************************************************************)
(* The barriers of a thread are those it shares with its neighbours.       *)
(***************************************************************************)
LEMMA Neighbours ==
  /\ N \in Nat /\ \A n \in Nat : n < N => n + 1 <= N
  /\ \A b, c \in Barriers : b + 1 = c + 1 => b = c
  /\ \A b \in Barriers : b \in Threads /\ b + 1 \in Threads /\ b # b + 1
                      /\ b # N /\ b + 1 # 1
  /\ \A t \in Threads : \A b \in barriers(t)[1] : b \in Barriers /\ b + 1 = t
  /\ \A t \in Threads : \A b \in barriers(t)[2] : b \in Barriers /\ b = t
  /\ \A t \in Threads : barriers(t)[1] = {} <=> t = 1
  /\ \A t \in Threads : barriers(t)[2] = {} <=> t = N
BY BarrierOrderAssumption DEF barriers

(***************************************************************************)
(* Counting to two: a caller that waits finds the barrier empty, and one   *)
(* that completes the round finds somebody there.                          *)
(***************************************************************************)
LEMMA CallersCounted ==
  ASSUME BOInv, NEW b \in Barriers
  PROVE  /\ Cardinality(gathering[b]) + 1 < barrier_thread_limit[b] => gathering[b] = {}
         /\ Cardinality(gathering[b]) + 1 = barrier_thread_limit[b] => gathering[b] # {}
<1>1. IsFiniteSet(gathering[b])
  <2>1. IsFiniteSet(Threads)
    BY FS_Interval, BarrierOrderAssumption
  <2>. QED  BY <2>1, FS_Subset DEF BOInv, TypeOK
<1>2. Cardinality(gathering[b]) \in Nat /\ barrier_thread_limit[b] = 2
  BY <1>1, FS_CardinalityType, BarrierOrderAssumption
<1>. QED  BY <1>1, <1>2, FS_EmptySet

LEMMA InitBarriers == BOInit => BOInv
<1>. SUFFICES ASSUME BOInit PROVE BOInv
  OBVIOUS
<1>. USE BarrierOrderAssumption DEF BOInit, Init
<1>1. TypeOK
  BY EmptySeq DEF TypeOK
<1>2. RoundInv
  <2>. SUFFICES ASSUME NEW b \in Barriers
                PROVE  /\ gathering[b] = {} /\ released[b] = {}
                       /\ tpc[b] = "unborn" /\ tpc[b + 1] = "unborn"
    BY DEF RoundInv, RoundAt, Inside, Met, Came
  <2>. QED  BY Neighbours
<1>3. OutputInv
  BY DEF OutputInv, Printed
<1>4. MainInv
  <2>1. \E k \in 0 .. N - 1 : objects = 1 .. k
    <3>1. 0 \in 0 .. N - 1 /\ objects = 1 .. 0
      OBVIOUS
    <3>. QED  BY <3>1
  <2>2. \A n \in 1 .. N : tpc[CreationOrder[n]] = "unborn" /\ created < n
    BY CreatedOnce
  <2>. QED  BY <2>1, <2>2 DEF MainInv
<1>. QED  BY <1>1, <1>2, <1>3, <1>4 DEF BOInv
(***************************************************************************)
(* A thread prints only when its letter is the next one: the thread before *)
(* it has called the barrier between them, so that it has printed.         *)
(***************************************************************************)
LEMMA PrintsNext ==
  ASSUME BOInv, NEW t \in Threads, PrintLetter(t)
  PROVE  /\ output \in Seq(Letters)
         /\ Len(output) \in Nat
         /\ Len(output) < N /\ Len(output) + 1 <= N
         /\ t = Len(output) + 1
<1>1. tpc[t] = "print" /\ t \in 1 .. N /\ N \in Nat
  BY BarrierOrderAssumption DEF PrintLetter, Goes
<1>2. output \in Seq(Letters) /\ Len(output) \in Nat
  BY LenProperties DEF BOInv, TypeOK, Letters
<1>3. ~ (t <= Len(output))
  BY <1>1 DEF BOInv, OutputInv, Printed
<1>4. CASE t = 1
  BY <1>1, <1>2, <1>3, <1>4
<1>5. CASE t # 1
  <2>1. t - 1 \in Barriers /\ t - 1 \in Threads /\ t - 1 + 1 = t
    BY <1>1, <1>5, BarrierOrderAssumption
  <2>2. RoundAt(t - 1)
    BY <2>1 DEF BOInv, RoundInv
  <2>3. Printed(t - 1)
    BY <1>1, <2>1, <2>2 DEF RoundAt, Met, Came, CameBack, Printed
  <2>4. t - 1 <= Len(output)
    BY <2>1, <2>3 DEF BOInv, OutputInv
  <2>. QED  BY <1>1, <1>2, <1>3, <2>4
<1>. QED  BY <1>4, <1>5

(***************************************************************************)
(* Types.                                                                  *)
(***************************************************************************)
LEMMA TypeStep ==
  ASSUME BOInv, [BONext]_vars
  PROVE  TypeOK'
<1>0. TypeOK /\ MainInv
  BY DEF BOInv
<1>1. CASE InitBarrier
  <2>1. \E k \in 0 .. N - 1 : objects = 1 .. k
    BY <1>0, <1>1 DEF InitBarrier, MainInv
  <2>2. PICK k \in 0 .. N - 1 : objects = 1 .. k
    BY <2>1
  <2>3. k \in Nat /\ Cardinality(objects) = k
    BY <2>2, FS_Interval, BarrierOrderAssumption
  <2>4. NextBarrier \in Barriers
    BY <1>1, <2>3, BarrierOrderAssumption DEF InitBarrier, NextBarrier
  <2>. QED  BY <1>0, <1>1, <2>4 DEF InitBarrier, TypeOK, avars
<1>2. CASE CreateThread
  <2>1. created < N
    BY <1>0, <1>2 DEF CreateThread, MainInv
  <2>2. created \in 0 .. N /\ N \in Nat
    BY <1>0, BarrierOrderAssumption DEF TypeOK
  <2>3. created' \in 0 .. N
    BY <1>2, <2>1, <2>2 DEF CreateThread
  <2>4. mpc' \in {"create", "join"}
    BY <1>2 DEF CreateThread
  <2>. QED  BY <1>0, <1>2, <2>3, <2>4 DEF CreateThread, TypeOK, avars
<1>. USE <1>0 DEF TypeOK
<1>3. CASE InitDone \/ LibraryFails \/ JoinAll \/ DestroyBarrier \/ Exit
  BY <1>3 DEF InitDone, LibraryFails, JoinAll, DestroyBarrier, Exit, avars
<1>4. ASSUME NEW t \in Threads, Thread(t) PROVE TypeOK'
  <2>1. CASE PrintLetter(t)
    <3>1. Order[t] \in Letters
      BY BarrierOrderAssumption DEF Letters
    <3>2. output \in Seq(Letters) /\ Len(output) + 1 <= N
      BY <2>1, PrintsNext DEF Letters
    <3>3. output' \in Seq(Letters) /\ Len(output') = Len(output) + 1
      BY <2>1, <3>1, <3>2, AppendProperties DEF PrintLetter
    <3>4. Len(output') <= N
      BY <3>2, <3>3
    <3>. QED  BY <2>1, <3>3, <3>4 DEF PrintLetter, Goes, Letters, avars
  <2>2. CASE ~ PrintLetter(t)
    <3>1. PICK from, to \in Places : Goes(t, from, to)
      BY <1>4, <2>2 DEF Thread, Call, Return, Skip, Places
    <3>2. tpc' \in [Threads -> Places]
      BY <3>1 DEF Goes, Places
    <3>3. UNCHANGED <<output, created, mpc, objects>>
      BY <1>4, <2>2 DEF Thread, Call, Return, Skip
    <3>4. \/ UNCHANGED avars
          \/ \E b \in Barriers : Gather(t, b) \/ Complete(t, b) \/ Depart(t, b)
      BY <1>4, <2>2, Neighbours DEF Thread, Call, Return, Skip
    <3>5. /\ gathering' \in [Barriers -> SUBSET Threads]
          /\ released' \in [Barriers -> SUBSET Threads]
      <4>1. ASSUME NEW b \in Barriers, Gather(t, b)
            PROVE  gathering' \in [Barriers -> SUBSET Threads] /\ released' = released
        BY <4>1 DEF Gather
      <4>2. ASSUME NEW b \in Barriers, Complete(t, b)
            PROVE  /\ gathering' \in [Barriers -> SUBSET Threads]
                   /\ released' \in [Barriers -> SUBSET Threads]
        BY <4>2 DEF Complete
      <4>3. ASSUME NEW b \in Barriers, Depart(t, b)
            PROVE  released' \in [Barriers -> SUBSET Threads] /\ gathering' = gathering
        BY <4>3 DEF Depart
      <4>. QED  BY <3>4, <4>1, <4>2, <4>3 DEF avars
    <3>. QED  BY <3>2, <3>3, <3>5 DEF Places
  <2>. QED  BY <2>1, <2>2
<1>5. CASE UNCHANGED vars
  BY <1>5 DEF vars, avars
<1>. QED  BY <1>1, <1>2, <1>3, <1>4, <1>5 DEF BONext, Main, Terminated

(***************************************************************************)
(* A step of one thread concerns the barriers of that thread only.         *)
(***************************************************************************)
LEMMA OtherBarriers ==
  ASSUME BOInv, NEW t \in Threads, NEW to \in Places, tpc' = [tpc EXCEPT ![t] = to],
         NEW b \in Barriers, t \notin {b, b + 1},
         gathering'[b] = gathering[b], released'[b] = released[b]
  PROVE  RoundAt(b)'
<1>1. /\ b \in Threads /\ tpc'[b] = tpc[b]
      /\ b + 1 \in Threads /\ tpc'[b + 1] = tpc[b + 1]
  BY Neighbours DEF BOInv, TypeOK
<1>2. RoundAt(b)
  BY DEF BOInv, RoundInv
<1>3. \A s \in Threads : Inside(s, b)' = Inside(s, b)
  BY <1>1 DEF Inside
<1>. QED  BY <1>1, <1>2, <1>3 DEF RoundAt, Met, Came, CameBack

(***************************************************************************)
(* The first of the two threads of a barrier to call it waits, and the     *)
(* second releases both.                                                   *)
(***************************************************************************)
LEMMA FirstCall ==
  ASSUME BOInv, NEW t \in Threads, Call(t, barriers(t)[1], "before", "in first")
  PROVE  RoundInv'
<1>1. PICK b \in Barriers : b + 1 = t /\ (Gather(t, b) \/ Complete(t, b))
  BY Neighbours DEF Call
<1>2. tpc[t] = "before" /\ tpc' = [tpc EXCEPT ![t] = "in first"]
  BY DEF Call, Goes
<1>3. b \in Threads /\ b # t /\ RoundAt(b)
  BY <1>1, Neighbours DEF BOInv, RoundInv
<1>4. /\ tpc'[t] = "in first"
      /\ \A s \in Threads : s # t => tpc'[s] = tpc[s]
  BY <1>2 DEF BOInv, TypeOK
<1>5. /\ \A s \in Threads : s \in gathering[b] <=> s = b /\ tpc[b] = "in second"
      /\ \A s \in Threads : s \notin released[b]
      /\ tpc[b] # "done"
  BY <1>1, <1>2, <1>3 DEF RoundAt, Met, Came, Inside
<1>6. RoundAt(b)'
  <2>1. CASE Gather(t, b)
    <3>1. gathering[b] = {} /\ gathering'[b] = {t} /\ released'[b] = released[b]
      BY <2>1, CallersCounted DEF Gather, BOInv, TypeOK
    <3>. QED
      BY <1>1, <1>3, <1>4, <1>5, <3>1 DEF RoundAt, Met, Came, CameBack, Inside
  <2>2. CASE Complete(t, b)
    <3>1. /\ gathering[b] # {} /\ gathering[b] \in SUBSET Threads
          /\ gathering'[b] = {} /\ released'[b] = gathering[b] \cup {t}
      BY <2>2, CallersCounted DEF Complete, BOInv, TypeOK
    <3>2. tpc[b] = "in second"
      BY <1>5, <3>1
    <3>. QED
      BY <1>1, <1>3, <1>4, <1>5, <3>1, <3>2 DEF RoundAt, Met, Came, CameBack, Inside
  <2>. QED  BY <1>1, <2>1, <2>2
<1>7. ASSUME NEW c \in Barriers, c # b PROVE RoundAt(c)'
  <2>1. gathering'[c] = gathering[c] /\ released'[c] = released[c]
    BY <1>1, <1>7 DEF Gather, Complete, BOInv, TypeOK
  <2>2. CASE c = t
    <3>1. c + 1 \in Threads /\ c + 1 # c /\ tpc'[c + 1] = tpc[c + 1] /\ RoundAt(c)
      BY <1>4, <2>2, Neighbours DEF BOInv, RoundInv
    <3>. QED
      BY <1>2, <1>4, <2>1, <2>2, <3>1 DEF RoundAt, Met, Came, CameBack, Inside
  <2>3. CASE c # t
    <3>1. t \notin {c, c + 1}
      BY <1>1, <1>7, <2>3, Neighbours
    <3>. QED  BY <1>2, <2>1, <3>1, OtherBarriers DEF Places
  <2>. QED  BY <2>2, <2>3
<1>. QED  BY <1>6, <1>7 DEF RoundInv

(***************************************************************************)
(* The second barrier of a thread, in the same way.                        *)
(***************************************************************************)
LEMMA SecondCall ==
  ASSUME BOInv, NEW t \in Threads, Call(t, barriers(t)[2], "after", "in second")
  PROVE  RoundInv'
<1>1. PICK b \in Barriers : b = t /\ (Gather(t, b) \/ Complete(t, b))
  BY Neighbours DEF Call
<1>2. tpc[t] = "after" /\ tpc' = [tpc EXCEPT ![t] = "in second"]
  BY DEF Call, Goes
<1>3. t + 1 \in Threads /\ t # t + 1 /\ RoundAt(t)
  BY <1>1, Neighbours DEF BOInv, RoundInv
<1>4. /\ tpc'[t] = "in second"
      /\ \A s \in Threads : s # t => tpc'[s] = tpc[s]
  BY <1>2 DEF BOInv, TypeOK
<1>5. /\ \A s \in Threads : s \in gathering[t] <=> s = t + 1 /\ tpc[t + 1] = "in first"
      /\ \A s \in Threads : s \notin released[t]
      /\ Came(t + 1) => tpc[t + 1] = "in first"
  BY <1>2, <1>3 DEF RoundAt, Met, CameBack, Inside
<1>6. RoundAt(t)'
  <2>1. CASE Gather(t, b)
    <3>1. gathering[t] = {} /\ gathering'[t] = {t} /\ released'[t] = released[t]
      BY <1>1, <2>1, CallersCounted DEF Gather, BOInv, TypeOK
    <3>. QED
      BY <1>3, <1>4, <1>5, <3>1 DEF RoundAt, Met, Came, CameBack, Inside
  <2>2. CASE Complete(t, b)
    <3>1. /\ gathering[t] # {} /\ gathering[t] \in SUBSET Threads
          /\ gathering'[t] = {} /\ released'[t] = gathering[t] \cup {t}
      BY <1>1, <2>2, CallersCounted DEF Complete, BOInv, TypeOK
    <3>2. tpc[t + 1] = "in first"
      BY <1>5, <3>1
    <3>. QED
      BY <1>3, <1>4, <1>5, <3>1, <3>2 DEF RoundAt, Met, Came, CameBack, Inside
  <2>. QED  BY <1>1, <2>1, <2>2
<1>7. ASSUME NEW c \in Barriers, c # t PROVE RoundAt(c)'
  <2>1. gathering'[c] = gathering[c] /\ released'[c] = released[c]
    BY <1>1, <1>7 DEF Gather, Complete, BOInv, TypeOK
  <2>2. CASE c + 1 = t
    <3>1. c \in Threads /\ tpc'[c] = tpc[c] /\ RoundAt(c)
      BY <1>4, <1>7, Neighbours DEF BOInv, RoundInv
    <3>. QED
      BY <1>2, <1>4, <1>7, <2>1, <2>2, <3>1 DEF RoundAt, Met, Came, CameBack, Inside
  <2>3. CASE c + 1 # t
    BY <1>2, <1>7, <2>1, <2>3, OtherBarriers DEF Places
  <2>. QED  BY <2>2, <2>3
<1>. QED  BY <1>6, <1>7 DEF RoundInv

(***************************************************************************)
(* A thread returns from a barrier when both have called it.               *)
(***************************************************************************)
LEMMA FirstReturn ==
  ASSUME BOInv, NEW t \in Threads, Return(t, barriers(t)[1], "in first", "print")
  PROVE  RoundInv'
<1>1. PICK b \in Barriers : b + 1 = t /\ Depart(t, b)
  BY Neighbours DEF Return
<1>2. tpc[t] = "in first" /\ tpc' = [tpc EXCEPT ![t] = "print"]
  BY DEF Return, Goes
<1>3. b \in Threads /\ b # t /\ RoundAt(b)
  BY <1>1, Neighbours DEF BOInv, RoundInv
<1>4. /\ tpc'[t] = "print"
      /\ \A s \in Threads : s # t => tpc'[s] = tpc[s]
  BY <1>2 DEF BOInv, TypeOK
<1>5. RoundAt(b)'
  <2>1. /\ gathering'[b] = gathering[b] /\ released'[b] = released[b] \ {t}
        /\ t \in released[b]
    BY <1>1 DEF Depart, BOInv, TypeOK
  <2>2. Met(b)
    BY <1>3, <2>1 DEF RoundAt
  <2>. QED
    BY <1>1, <1>2, <1>3, <1>4, <2>1, <2>2 DEF RoundAt, Met, Came, CameBack, Inside
<1>6. ASSUME NEW c \in Barriers, c # b PROVE RoundAt(c)'
  <2>1. gathering'[c] = gathering[c] /\ released'[c] = released[c]
    BY <1>1, <1>6 DEF Depart, BOInv, TypeOK
  <2>2. CASE c = t
    <3>1. c + 1 \in Threads /\ c + 1 # c /\ tpc'[c + 1] = tpc[c + 1] /\ RoundAt(c)
      BY <1>4, <2>2, Neighbours DEF BOInv, RoundInv
    <3>. QED
      BY <1>2, <1>4, <2>1, <2>2, <3>1 DEF RoundAt, Met, Came, CameBack, Inside
  <2>3. CASE c # t
    <3>1. t \notin {c, c + 1}
      BY <1>1, <1>6, <2>3, Neighbours
    <3>. QED  BY <1>2, <2>1, <3>1, OtherBarriers DEF Places
  <2>. QED  BY <2>2, <2>3
<1>. QED  BY <1>5, <1>6 DEF RoundInv

LEMMA SecondReturn ==
  ASSUME BOInv, NEW t \in Threads, Return(t, barriers(t)[2], "in second", "done")
  PROVE  RoundInv'
<1>1. PICK b \in Barriers : b = t /\ Depart(t, b)
  BY Neighbours DEF Return
<1>2. tpc[t] = "in second" /\ tpc' = [tpc EXCEPT ![t] = "done"]
  BY DEF Return, Goes
<1>3. t + 1 \in Threads /\ t # t + 1 /\ RoundAt(t)
  BY <1>1, Neighbours DEF BOInv, RoundInv
<1>4. /\ tpc'[t] = "done"
      /\ \A s \in Threads : s # t => tpc'[s] = tpc[s]
  BY <1>2 DEF BOInv, TypeOK
<1>5. RoundAt(t)'
  <2>1. /\ gathering'[t] = gathering[t] /\ released'[t] = released[t] \ {t}
        /\ t \in released[t]
    BY <1>1 DEF Depart, BOInv, TypeOK
  <2>2. Met(t)
    BY <1>3, <2>1 DEF RoundAt
  <2>. QED
    BY <1>2, <1>3, <1>4, <2>1, <2>2 DEF RoundAt, Met, Came, CameBack, Inside
<1>6. ASSUME NEW c \in Barriers, c # t PROVE RoundAt(c)'
  <2>1. gathering'[c] = gathering[c] /\ released'[c] = released[c]
    BY <1>1, <1>6 DEF Depart, BOInv, TypeOK
  <2>2. CASE c + 1 = t
    <3>1. c \in Threads /\ tpc'[c] = tpc[c] /\ RoundAt(c)
      BY <1>4, <1>6, Neighbours DEF BOInv, RoundInv
    <3>. QED
      BY <1>2, <1>4, <1>6, <2>1, <2>2, <3>1 DEF RoundAt, Met, Came, CameBack, Inside
  <2>3. CASE c + 1 # t
    BY <1>2, <1>6, <2>1, <2>3, OtherBarriers DEF Places
  <2>. QED  BY <2>2, <2>3
<1>. QED  BY <1>5, <1>6 DEF RoundInv

(***************************************************************************)
(* The steps of a thread outside its barriers leave the rounds alone.      *)
(***************************************************************************)
LEMMA OutsideBarriers ==
  ASSUME BOInv, NEW t \in Threads, NEW to \in Places, tpc' = [tpc EXCEPT ![t] = to],
         UNCHANGED avars,
         \/ tpc[t] = "unborn" /\ to = "before"
         \/ tpc[t] = "before" /\ to = "print" /\ barriers(t)[1] = {}
         \/ tpc[t] = "print" /\ to = "after"
         \/ tpc[t] = "after" /\ to = "done" /\ barriers(t)[2] = {}
  PROVE  RoundInv'
<1>1. /\ tpc'[t] = to
      /\ \A s \in Threads : s # t => tpc'[s] = tpc[s]
  BY DEF BOInv, TypeOK
<1>. SUFFICES ASSUME NEW b \in Barriers PROVE RoundAt(b)'
  BY DEF RoundInv
<1>2. /\ b \in Threads /\ b + 1 \in Threads /\ b # b + 1 /\ RoundAt(b)
      /\ gathering' = gathering /\ released' = released
      /\ t = b => to # "done"
      /\ t = b + 1 => tpc[t] # "before" \/ to # "print"
  BY Neighbours DEF BOInv, RoundInv, avars
<1>. QED  BY <1>1, <1>2 DEF RoundAt, Met, Came, CameBack, Inside

LEMMA RoundStep ==
  ASSUME BOInv, [BONext]_vars
  PROVE  RoundInv'
<1>1. CASE CreateThread
  <2>1. created < N /\ created \in 0 .. N
    BY <1>1 DEF CreateThread, BOInv, MainInv, TypeOK
  <2>2. created + 1 \in 1 .. N /\ created < created + 1
    BY <2>1, Neighbours
  <2>3. /\ CreationOrder[created + 1] \in Threads
        /\ tpc[CreationOrder[created + 1]] = "unborn"
    BY <2>2, CreatedOnce DEF BOInv, MainInv
  <2>. QED  BY <1>1, <2>3, OutsideBarriers DEF CreateThread, Places
<1>2. ASSUME NEW t \in Threads, Thread(t) PROVE RoundInv'
  <2>1. ASSUME NEW bs, NEW from, NEW to, Skip(t, bs, from, to)
        PROVE  bs = {} /\ tpc[t] = from /\ tpc' = [tpc EXCEPT ![t] = to] /\ UNCHANGED avars
    BY <2>1 DEF Skip, Goes
  <2>2. CASE Skip(t, barriers(t)[1], "before", "print")
    BY <2>1, <2>2, OutsideBarriers DEF Places
  <2>3. CASE Skip(t, barriers(t)[2], "after", "done")
    BY <2>1, <2>3, OutsideBarriers DEF Places
  <2>4. CASE PrintLetter(t)
    BY <2>4, OutsideBarriers DEF PrintLetter, Goes, Places
  <2>. QED
    BY <1>2, <2>2, <2>3, <2>4, FirstCall, FirstReturn, SecondCall, SecondReturn DEF Thread
<1>3. CASE UNCHANGED <<avars, tpc>>
  BY <1>3 DEF avars, BOInv, RoundInv, RoundAt, Met, Came, CameBack, Inside
<1>. QED
  BY <1>1, <1>2, <1>3
     DEF BONext, Main, InitBarrier, InitDone, LibraryFails, JoinAll, DestroyBarrier,
         Exit, Terminated, vars

(***************************************************************************)
(* A step of a thread moves that thread only, and main() is not concerned. *)
(***************************************************************************)
LEMMA ThreadGoes ==
  ASSUME BOInv, NEW t \in Threads, Thread(t)
  PROVE  /\ tpc[t] \notin {"unborn", "done"}
         /\ tpc'[t] # "unborn"
         /\ \A s \in Threads : s # t => tpc'[s] = tpc[s]
         /\ UNCHANGED <<created, mpc, objects>>
         /\ \/ PrintLetter(t)
            \/ UNCHANGED output /\ (Printed(t)' <=> Printed(t))
<1>0. tpc \in [Threads -> Places]
  BY DEF BOInv, TypeOK, Places
<1>. USE <1>0 DEF Goes, Printed
<1>1. CASE Call(t, barriers(t)[1], "before", "in first")
  BY <1>1 DEF Call
<1>2. CASE Return(t, barriers(t)[1], "in first", "print")
  BY <1>2 DEF Return
<1>3. CASE Skip(t, barriers(t)[1], "before", "print")
  BY <1>3 DEF Skip
<1>4. CASE PrintLetter(t)
  BY <1>4 DEF PrintLetter
<1>5. CASE Call(t, barriers(t)[2], "after", "in second")
  BY <1>5 DEF Call
<1>6. CASE Return(t, barriers(t)[2], "in second", "done")
  BY <1>6 DEF Return
<1>7. CASE Skip(t, barriers(t)[2], "after", "done")
  BY <1>7 DEF Skip
<1>. QED  BY <1>1, <1>2, <1>3, <1>4, <1>5, <1>6, <1>7 DEF Thread

LEMMA OutputStep ==
  ASSUME BOInv, [BONext]_vars
  PROVE  OutputInv'
<1>. DEFINE Same == UNCHANGED output /\ \A t \in Threads : Printed(t)' <=> Printed(t)
<1>0. Same => OutputInv'
  BY DEF BOInv, OutputInv
<1>1. CASE CreateThread
  <2>1. created < N /\ created \in 0 .. N
    BY <1>1 DEF CreateThread, BOInv, MainInv, TypeOK
  <2>2. created + 1 \in 1 .. N /\ created < created + 1
    BY <2>1, Neighbours
  <2>3. tpc[CreationOrder[created + 1]] = "unborn"
    BY <2>2, CreatedOnce DEF BOInv, MainInv
  <2>. QED  BY <1>0, <1>1, <2>3 DEF CreateThread, Printed, BOInv, TypeOK
<1>2. ASSUME NEW t \in Threads, PrintLetter(t) PROVE OutputInv'
  <2>1. /\ output \in Seq(Letters) /\ Len(output) \in Nat
        /\ Len(output) + 1 <= N /\ t = Len(output) + 1
    BY <1>2, PrintsNext
  <2>2. Order[t] \in Letters
    BY BarrierOrderAssumption DEF Letters
  <2>3. Len(output') = Len(output) + 1
    BY <1>2, <2>1, <2>2, AppendProperties DEF PrintLetter
  <2>4. ASSUME NEW s \in Threads PROVE Printed(s)' <=> s <= Len(output) + 1
    <3>1. s \in Nat /\ (Printed(s) <=> s <= Len(output))
      BY BarrierOrderAssumption DEF BOInv, OutputInv
    <3>2. CASE s = t
      <4>1. Printed(s)'
        BY <1>2, <3>2 DEF PrintLetter, Goes, Printed, BOInv, TypeOK
      <4>. QED  BY <2>1, <3>1, <3>2, <4>1
    <3>3. CASE s # t
      <4>1. Printed(s)' <=> Printed(s)
        BY <1>2, <3>3 DEF PrintLetter, Goes, Printed, BOInv, TypeOK
      <4>2. s <= Len(output) <=> s <= Len(output) + 1
        BY <2>1, <3>1, <3>3
      <4>. QED  BY <3>1, <4>1, <4>2
    <3>. QED  BY <3>2, <3>3
  <2>. QED  BY <2>1, <2>3, <2>4 DEF OutputInv
<1>3. ASSUME NEW t \in Threads, Thread(t), ~ PrintLetter(t) PROVE Same
  BY <1>3, ThreadGoes DEF Printed
<1>4. CASE UNCHANGED <<output, tpc>>
  BY <1>0, <1>4 DEF Printed
<1>. QED
  BY <1>0, <1>1, <1>2, <1>3, <1>4
     DEF BONext, Main, InitBarrier, InitDone, LibraryFails, JoinAll, DestroyBarrier,
         Exit, Terminated, vars

(***************************************************************************)
(* main() creates threads only while it has all its barriers, and gives    *)
(* them up only when all threads have ended.                               *)
(***************************************************************************)
LEMMA MainStep ==
  ASSUME BOInv, [BONext]_vars
  PROVE  MainInv'
<1>0. TypeOK /\ MainInv
  BY DEF BOInv
<1>1. CASE InitBarrier
  <2>1. created = 0 /\ \E k \in 0 .. N - 1 : objects = 1 .. k
    BY <1>0, <1>1 DEF InitBarrier, MainInv
  <2>2. PICK k \in 0 .. N - 1 : objects = 1 .. k
    BY <2>1
  <2>3. k \in Nat /\ Cardinality(objects) = k
    BY <2>2, FS_Interval, BarrierOrderAssumption
  <2>4. k + 1 \in 0 .. N - 1 /\ objects' = 1 .. k + 1
    BY <1>1, <2>2, <2>3, BarrierOrderAssumption DEF InitBarrier, NextBarrier
  <2>5. \E m \in 0 .. N - 1 : objects' = 1 .. m
    BY <2>4
  <2>. QED  BY <1>0, <1>1, <2>1, <2>5 DEF InitBarrier, MainInv
<1>2. CASE InitDone
  BY <1>0, <1>2, BarrierOrderAssumption DEF InitDone, MainInv
<1>3. CASE CreateThread
  <2>0. created \in 0 .. N /\ N \in Nat
    BY <1>0, Neighbours DEF TypeOK
  <2>1. /\ created \in Nat /\ created < N /\ N \in Nat
        /\ objects = Barriers /\ mpc = "create"
    BY <1>0, <1>3, <2>0 DEF CreateThread, MainInv
  <2>2. created + 1 \in 1 .. N
    BY <2>1
  <2>3. ASSUME NEW n \in 1 .. N
        PROVE  tpc'[CreationOrder[n]] = "unborn" <=> created' < n
    <3>1. created' = created + 1 /\ n \in Nat
      BY <1>3 DEF CreateThread
    <3>2. CreationOrder[n] \in Threads /\ CreationOrder[created + 1] \in Threads
      BY <2>2, CreatedOnce
    <3>3. tpc[CreationOrder[n]] = "unborn" <=> created < n
      BY <1>0 DEF MainInv
    <3>4. CASE n = created + 1
      <4>1. tpc'[CreationOrder[n]] = "before"
        BY <1>0, <1>3, <3>2, <3>4 DEF CreateThread, TypeOK
      <4>. QED  BY <2>1, <3>1, <3>4, <4>1
    <3>5. CASE n # created + 1
      <4>1. CreationOrder[n] # CreationOrder[created + 1]
        BY <2>2, <3>5, CreatedOnce
      <4>2. tpc'[CreationOrder[n]] = tpc[CreationOrder[n]]
        BY <1>0, <1>3, <3>2, <4>1 DEF CreateThread, TypeOK
      <4>3. created < n <=> created + 1 < n
        BY <2>1, <3>1, <3>5
      <4>. QED  BY <3>1, <3>3, <4>2, <4>3
    <3>. QED  BY <3>4, <3>5
  <2>4. mpc' \in {"create", "join"} /\ (mpc' = "create" => created' < N)
    BY <1>3, <2>1 DEF CreateThread
  <2>5. objects' = Barriers
    BY <1>3, <2>1 DEF CreateThread
  <2>. QED  BY <2>3, <2>4, <2>5 DEF MainInv
<1>4. CASE LibraryFails
  BY <1>0, <1>4 DEF LibraryFails, MainInv
<1>5. CASE JoinAll
  BY <1>0, <1>5 DEF JoinAll, Joined, MainInv
<1>6. CASE DestroyBarrier \/ Exit
  BY <1>0, <1>6 DEF DestroyBarrier, Exit, MainInv
<1>7. ASSUME NEW t \in Threads, Thread(t) PROVE MainInv'
  <2>1. /\ tpc[t] \notin {"unborn", "done"} /\ tpc'[t] # "unborn"
        /\ \A s \in Threads : s # t => tpc'[s] = tpc[s]
        /\ UNCHANGED <<created, mpc, objects>>
    BY <1>7, ThreadGoes
  <2>2. mpc \notin {"destroy", "exited"}
    BY <1>0, <2>1 DEF MainInv
  <2>3. \A n \in 1 .. N : CreationOrder[n] \in Threads
    BY CreatedOnce
  <2>4. \A n \in 1 .. N : tpc'[CreationOrder[n]] = "unborn" <=> created' < n
    BY <1>0, <2>1, <2>3 DEF MainInv
  <2>. QED  BY <1>0, <2>1, <2>2, <2>4 DEF MainInv
<1>8. CASE UNCHANGED vars
  BY <1>0, <1>8 DEF vars, MainInv
<1>. QED
  BY <1>1, <1>2, <1>3, <1>4, <1>5, <1>6, <1>7, <1>8 DEF BONext, Main, Terminated

(***************************************************************************)
(* In every reachable state each barrier holds exactly the callers that    *)
(* are in it, the output names the threads that have printed, and main()   *)
(* keeps the barriers while there are threads.                             *)
(***************************************************************************)
THEOREM BarrierOrderInvariant == BOSafetySpec => []BOInv
<1>1. BOInv /\ [BONext]_vars => BOInv'
  BY TypeStep, RoundStep, OutputStep, MainStep DEF BOInv
<1>. QED  BY InitBarriers, <1>1, PTL DEF BOSafetySpec

(***************************************************************************)
(* Every barrier is used by its two threads only, its two callers leave it *)
(* together, and main() neither creates a thread before pthread_barrier_   *)
(* init nor destroys a barrier that a thread is in.                        *)
(***************************************************************************)
THEOREM BarriersUsedInTurn == BOSafetySpec => []BarriersInTurn
<1>1. BOInv => BarriersUsedInTime
  <2>. SUFFICES ASSUME BOInv, NEW b \in Barriers
                PROVE  /\ Engaged(b) \subseteq {b, b + 1}
                       /\ Engaged(b) # {} => b \in objects
                       /\ gathering[b] = {} \/ released[b] = {}
    BY DEF BarriersUsedInTime
  <2>1. RoundAt(b) /\ gathering[b] \subseteq Threads /\ released[b] \subseteq Threads
    BY DEF BOInv, RoundInv, TypeOK
  <2>2. \A t \in Engaged(b) : t \in Threads /\ Inside(t, b)
    BY <2>1 DEF Engaged, RoundAt
  <2>3. ASSUME NEW t \in Engaged(b) PROVE b \in objects
    <3>1. t \in Threads /\ tpc[t] \notin {"unborn", "done"}
      BY <2>2 DEF Inside
    <3>2. PICK n \in 1 .. N : CreationOrder[n] = t
      BY <3>1, BarrierOrderAssumption
    <3>3. created # 0
      BY <3>1, <3>2 DEF BOInv, MainInv
    <3>. QED  BY <3>1, <3>3 DEF BOInv, MainInv, TypeOK
  <2>. QED  BY <2>1, <2>2, <2>3 DEF RoundAt, Inside
<1>2. BOInv => BarriersInTurn
  BY <1>1 DEF BOInv, BarriersInTurn
<1>. QED  BY BarrierOrderInvariant, <1>2, PTL

(***************************************************************************)
(* The program implements Relay: with a barrier between each thread and    *)
(* the next, the letters appear one at a time and in the given order,      *)
(* although no thread knows more than its neighbours.                      *)
(***************************************************************************)
THEOREM BarrierOrderRefinement == BOSafetySpec => PrintsInOrder
<1>1. BOInit => Ordered!Init
  BY DEF BOInit, Ordered!Init
<1>2. BOInv /\ [BONext]_vars => [Ordered!PrintLetter]_output
  <2>. SUFFICES ASSUME BOInv, BONext, output' # output
                PROVE  Ordered!PrintLetter
    BY DEF vars
  <2>1. PICK t \in Threads : Thread(t)
    BY DEF BONext, Main, InitBarrier, InitDone, CreateThread, LibraryFails, JoinAll,
           DestroyBarrier, Exit, Terminated, vars
  <2>2. PrintLetter(t)
    BY <2>1, ThreadGoes
  <2>3. output' = Append(output, Order[t])
    BY <2>2 DEF PrintLetter
  <2>. QED
    BY <2>2, <2>3, PrintsNext, BarrierOrderAssumption DEF Ordered!PrintLetter
<1>. QED
  BY BarrierOrderInvariant, <1>1, <1>2, PTL
     DEF BOSafetySpec, PrintsInOrder, Ordered!SafetySpec
=============================================================================
