--------------------------- MODULE CvBarrierProofs ---------------------------
(***************************************************************************)
(* The invariant of CvBarrier, for every number of threads, every limit    *)
(* and every width of the round counter.                                   *)
(***************************************************************************)
EXTENDS CvBarrier, FiniteSetTheorems, TLAPS

(***************************************************************************)
(* The round after a round is a round, and a different one.                *)
(***************************************************************************)
LEMMA NextRoundDiffers ==
  ASSUME NEW r \in 0 .. RoundMod - 1
  PROVE  /\ NextRound(r) \in 0 .. RoundMod - 1
         /\ NextRound(r) # r
<1>. USE CvBarrierAssumption DEF NextRound
<1>1. CASE r + 1 < RoundMod
  <2>1. (r + 1) % RoundMod = r + 1
    BY <1>1
  <2>. QED  BY <1>1, <2>1
<1>2. CASE r + 1 = RoundMod
  <2>1. (r + 1) % RoundMod = 0
    BY <1>2
  <2>. QED  BY <1>2, <2>1
<1>. QED  BY <1>1, <1>2

(***************************************************************************)
(* The threads parked on a round are among the threads inside the barrier, *)
(* and there are finitely many of them.                                    *)
(***************************************************************************)
LEMMA InsideFinite ==
  ASSUME NEW b \in Barriers
  PROVE  /\ IsFiniteSet(Inside(b))
         /\ IsFiniteSet(Gathering(b))
         /\ Gathering(b) \subseteq Inside(b)
         /\ Cardinality(Inside(b)) \in Nat
         /\ Cardinality(Gathering(b)) \in Nat
<1>1. Inside(b) \subseteq Threads /\ Gathering(b) \subseteq Inside(b)
  BY DEF Inside, Gathering, Waiting
<1>2. IsFiniteSet(Inside(b)) /\ IsFiniteSet(Gathering(b))
  BY <1>1, FS_Subset, CvBarrierAssumption
<1>. QED  BY <1>1, <1>2, FS_CardinalityType

(***************************************************************************)
(* A caller that completes a round is the only thread inside the barrier   *)
(* that is not parked on it: the discipline leaves no room for a straggler *)
(* of the round before.                                                    *)
(***************************************************************************)
LEMMA LastCallerMeetsAll ==
  ASSUME BarrierInv, NEW t \in Threads, bpc[t] = "arrive", CompletesRound(at[t])
  PROVE  /\ Inside(at[t]) = Gathering(at[t]) \cup {t}
         /\ t \notin Gathering(at[t])
         /\ Cardinality(Gathering(at[t])) + 1 = barrier_thread_limit[at[t]]
<1>. DEFINE b == at[t]
            S == Gathering(b) \cup {t}
<1>1. b \in Barriers /\ barrier_thread_limit[b] \in Nat
  BY CvBarrierAssumption DEF BarrierInv, BarrierTypeOK
<1>2. t \notin Gathering(b) /\ S \subseteq Inside(b)
  BY <1>1, InsideFinite DEF Gathering, Inside, Waiting
<1>3. IsFiniteSet(S) /\ Cardinality(S) = Cardinality(Gathering(b)) + 1
  BY <1>1, <1>2, InsideFinite, FS_AddElement
<1>4. /\ Cardinality(Gathering(b)) + 1 >= barrier_thread_limit[b]
      /\ Cardinality(Gathering(b)) < barrier_thread_limit[b]
      /\ Cardinality(Inside(b)) <= barrier_thread_limit[b]
  BY <1>1 DEF BarrierInv, CountInv, Discipline, CompletesRound
<1>5. Cardinality(S) <= Cardinality(Inside(b))
  BY <1>1, <1>2, InsideFinite, FS_Subset
<1>6. Cardinality(Gathering(b)) + 1 = barrier_thread_limit[b]
  BY <1>1, <1>4, InsideFinite
<1>7. Cardinality(S) = Cardinality(Inside(b))
  BY <1>1, <1>3, <1>4, <1>5, <1>6, InsideFinite
<1>8. S = Inside(b)
  BY <1>1, <1>2, <1>7, InsideFinite, FS_Subset
<1>. QED  BY <1>2, <1>6, <1>8

-----------------------------------------------------------------------------
LEMMA InitInv == BarrierInit => BarrierInv
<1>. SUFFICES ASSUME BarrierInit PROVE BarrierInv
  OBVIOUS
<1>1. BarrierTypeOK
  BY CvBarrierAssumption DEF BarrierInit, BarrierTypeOK, Places
<1>2. MutexInv
  BY CvBarrierAssumption DEF BarrierInit, MutexInv, Critical
<1>3. CountInv
  <2>. SUFFICES ASSUME NEW b \in Barriers
                PROVE  /\ barrier_thread_count[b] = Cardinality(Gathering(b))
                       /\ barrier_thread_count[b] < barrier_thread_limit[b]
    BY DEF CountInv
  <2>1. Gathering(b) = {}
    BY DEF BarrierInit, Gathering, Waiting
  <2>. QED  BY <2>1, FS_EmptySet, CvBarrierAssumption DEF BarrierInit
<1>4. NoLostWakeup /\ AtMostOneRoundBehind
  BY DEF BarrierInit, NoLostWakeup, AtMostOneRoundBehind, Waiting
<1>5. Discipline
  <2>. SUFFICES ASSUME NEW b \in Barriers
                PROVE  Cardinality(Inside(b)) <= barrier_thread_limit[b]
    BY DEF Discipline
  <2>1. Inside(b) = {}
    BY DEF BarrierInit, Inside
  <2>. QED  BY <2>1, FS_EmptySet, CvBarrierAssumption
<1>. QED  BY <1>1, <1>2, <1>3, <1>4, <1>5 DEF BarrierInv

(***************************************************************************)
(* The type invariant is preserved by every step.                          *)
(***************************************************************************)
LEMMA TypeStep ==
  ASSUME BarrierTypeOK, [BarrierNext]_bvars
  PROVE  BarrierTypeOK'
<1>. USE DEF BarrierTypeOK, Places, Critical, Waiting
<1>1. ASSUME NEW t \in Threads, NEW b \in Barriers, Call(t, b) PROVE BarrierTypeOK'
  BY <1>1 DEF Call, Enter
<1>2. ASSUME NEW t \in Threads, Lock(t) PROVE BarrierTypeOK'
  BY <1>2 DEF Lock
<1>3. ASSUME NEW t \in Threads, ArriveLast(t) PROVE BarrierTypeOK'
  <2>1. NextRound(barrier_round[at[t]]) \in 0 .. RoundMod - 1
    BY NextRoundDiffers
  <2>. QED  BY <1>3, <2>1 DEF ArriveLast, CountAfterRound
<1>4. ASSUME NEW t \in Threads, ArriveWait(t) PROVE BarrierTypeOK'
  BY <1>4 DEF ArriveWait
<1>5. ASSUME NEW t \in Threads, SpuriousWakeup(t) PROVE BarrierTypeOK'
  BY <1>5 DEF SpuriousWakeup
<1>6. ASSUME NEW t \in Threads, Relock(t) PROVE BarrierTypeOK'
  BY <1>6 DEF Relock
<1>7. ASSUME NEW t \in Threads, WaitAgain(t) PROVE BarrierTypeOK'
  BY <1>7 DEF WaitAgain
<1>8. ASSUME NEW t \in Threads, LeaveLoop(t) PROVE BarrierTypeOK'
  BY <1>8 DEF LeaveLoop
<1>9. ASSUME NEW t \in Threads, Unlock(t) PROVE BarrierTypeOK'
  BY <1>9 DEF Unlock
<1>10. CASE UNCHANGED bvars
  BY <1>10 DEF bvars
<1>. QED
  BY <1>1, <1>2, <1>3, <1>4, <1>5, <1>6, <1>7, <1>8, <1>9, <1>10
     DEF BarrierNext, BarrierWait, BarrierStep

(***************************************************************************)
(* The mutex, the sleepers and the lag of a thread: each of these parts is *)
(* preserved by every step from an invariant state.                        *)
(***************************************************************************)
LEMMA MutexStep ==
  ASSUME BarrierInv, [BarrierNext]_bvars
  PROVE  MutexInv'
<1>. USE CvBarrierAssumption DEF BarrierInv, BarrierTypeOK, MutexInv, MutexFree, Critical, Places, Waiting
<1>1. ASSUME NEW t \in Threads, NEW b \in Barriers, Call(t, b) PROVE MutexInv'
  BY <1>1 DEF Call, Enter
<1>2. ASSUME NEW t \in Threads, Lock(t) PROVE MutexInv'
  BY <1>2 DEF Lock
<1>3. ASSUME NEW t \in Threads, ArriveLast(t) PROVE MutexInv'
  BY <1>3 DEF ArriveLast, Woken
<1>4. ASSUME NEW t \in Threads, ArriveWait(t) PROVE MutexInv'
  BY <1>4 DEF ArriveWait
<1>5. ASSUME NEW t \in Threads, SpuriousWakeup(t) PROVE MutexInv'
  BY <1>5 DEF SpuriousWakeup
<1>6. ASSUME NEW t \in Threads, Relock(t) PROVE MutexInv'
  BY <1>6 DEF Relock
<1>7. ASSUME NEW t \in Threads, WaitAgain(t) PROVE MutexInv'
  BY <1>7 DEF WaitAgain
<1>8. ASSUME NEW t \in Threads, LeaveLoop(t) PROVE MutexInv'
  BY <1>8 DEF LeaveLoop
<1>9. ASSUME NEW t \in Threads, Unlock(t) PROVE MutexInv'
  BY <1>9 DEF Unlock
<1>10. CASE UNCHANGED bvars
  BY <1>10 DEF bvars
<1>. QED
  BY <1>1, <1>2, <1>3, <1>4, <1>5, <1>6, <1>7, <1>8, <1>9, <1>10
     DEF BarrierNext, BarrierWait, BarrierStep

LEMMA WaitersStep ==
  ASSUME BarrierInv, [BarrierNext]_bvars
  PROVE  NoLostWakeup' /\ AtMostOneRoundBehind'
<1>. DEFINE W == NoLostWakeup /\ AtMostOneRoundBehind
<1>. USE DEF BarrierInv, BarrierTypeOK, NoLostWakeup, AtMostOneRoundBehind, Waiting, NextRound
<1>1. ASSUME NEW t \in Threads, NEW b \in Barriers, Call(t, b) PROVE W'
  BY <1>1 DEF Call, Enter
<1>2. ASSUME NEW t \in Threads, Lock(t) PROVE W'
  BY <1>2 DEF Lock
<1>3. ASSUME NEW t \in Threads, ArriveLast(t) PROVE W'
  <2>1. ASSUME NEW s \in Threads, bpc'[s] \in Waiting, at[s] = at[t]
        PROVE  my_round[s] = barrier_round[at[t]]
    <3>1. s # t /\ s \in Inside(at[t])
      BY <1>3, <2>1 DEF ArriveLast, Inside, Woken
    <3>2. s \in Gathering(at[t])
      BY <1>3, <3>1, LastCallerMeetsAll DEF ArriveLast
    <3>. QED  BY <3>2 DEF Gathering
  <2>2. NoLostWakeup'
    BY <1>3, <2>1 DEF ArriveLast, Woken
  <2>3. AtMostOneRoundBehind'
    BY <1>3, <2>1 DEF ArriveLast, Woken
  <2>. QED  BY <2>2, <2>3
<1>4. ASSUME NEW t \in Threads, ArriveWait(t) PROVE W'
  BY <1>4 DEF ArriveWait
<1>5. ASSUME NEW t \in Threads, SpuriousWakeup(t) PROVE W'
  BY <1>5 DEF SpuriousWakeup
<1>6. ASSUME NEW t \in Threads, Relock(t) PROVE W'
  BY <1>6 DEF Relock
<1>7. ASSUME NEW t \in Threads, WaitAgain(t) PROVE W'
  BY <1>7 DEF WaitAgain, KeepsWaiting
<1>8. ASSUME NEW t \in Threads, LeaveLoop(t) PROVE W'
  BY <1>8 DEF LeaveLoop
<1>9. ASSUME NEW t \in Threads, Unlock(t) PROVE W'
  BY <1>9 DEF Unlock
<1>10. CASE UNCHANGED bvars
  BY <1>10 DEF bvars
<1>. QED
  BY <1>1, <1>2, <1>3, <1>4, <1>5, <1>6, <1>7, <1>8, <1>9, <1>10
     DEF BarrierNext, BarrierWait, BarrierStep

(***************************************************************************)
(* What each step does to the set of threads parked on the round in        *)
(* progress.                                                               *)
(***************************************************************************)
LEMMA GatheringStep ==
  ASSUME BarrierInv, NEW t \in Threads, NEW b \in Barriers
  PROVE  /\ (\E c \in Barriers : Call(t, c)) => Gathering(b)' = Gathering(b)
         /\ Lock(t) \/ SpuriousWakeup(t) \/ Relock(t) => Gathering(b)' = Gathering(b)
         /\ WaitAgain(t) \/ LeaveLoop(t) \/ Unlock(t) => Gathering(b)' = Gathering(b)
         /\ ArriveWait(t) =>
              Gathering(b)' = IF b = at[t] THEN Gathering(b) \cup {t} ELSE Gathering(b)
         /\ ArriveLast(t) =>
              Gathering(b)' = IF b = at[t] THEN {} ELSE Gathering(b)
<1>. USE DEF BarrierInv, BarrierTypeOK, Gathering, Waiting
<1>1. ASSUME NEW c \in Barriers, Call(t, c) PROVE Gathering(b)' = Gathering(b)
  BY <1>1 DEF Call, Enter
<1>2. Lock(t) \/ SpuriousWakeup(t) \/ Relock(t) => Gathering(b)' = Gathering(b)
  BY DEF Lock, SpuriousWakeup, Relock
<1>3. WaitAgain(t) \/ LeaveLoop(t) \/ Unlock(t) => Gathering(b)' = Gathering(b)
  BY DEF WaitAgain, LeaveLoop, Unlock, KeepsWaiting
<1>4. ArriveWait(t) =>
        Gathering(b)' = IF b = at[t] THEN Gathering(b) \cup {t} ELSE Gathering(b)
  BY DEF ArriveWait
<1>5. ASSUME ArriveLast(t)
      PROVE  Gathering(b)' = IF b = at[t] THEN {} ELSE Gathering(b)
  <2>1. CASE b # at[t]
    BY <1>5, <2>1 DEF ArriveLast, Woken
  <2>2. CASE b = at[t]
    <3>1. ASSUME NEW s \in Gathering(b)' PROVE FALSE
      <4>1. s \in Inside(b) \ {t}
        BY <1>5, <2>2, <3>1 DEF ArriveLast, Woken, Inside
      <4>2. s \in Gathering(b)
        BY <1>5, <2>2, <4>1, LastCallerMeetsAll DEF ArriveLast
      <4>. QED  BY <1>5, <2>2, <3>1, <4>2, NextRoundDiffers DEF ArriveLast
    <3>. QED  BY <2>2, <3>1
  <2>. QED  BY <2>1, <2>2
<1>. QED  BY <1>1, <1>2, <1>3, <1>4, <1>5

(***************************************************************************)
(* The count follows the set of parked threads.                            *)
(***************************************************************************)
LEMMA CountStep ==
  ASSUME BarrierInv, [BarrierNext]_bvars
  PROVE  CountInv'
<1>. SUFFICES ASSUME NEW b \in Barriers
              PROVE  (/\ barrier_thread_count[b] = Cardinality(Gathering(b))
                      /\ barrier_thread_count[b] < barrier_thread_limit[b])'
  BY DEF CountInv
<1>. DEFINE C == /\ barrier_thread_count[b] = Cardinality(Gathering(b))
                 /\ barrier_thread_count[b] < barrier_thread_limit[b]
<1>0. C /\ barrier_thread_count[b] \in Nat /\ barrier_thread_limit[b] \in Nat \ {0}
  BY CvBarrierAssumption DEF BarrierInv, CountInv, BarrierTypeOK
<1>1. ASSUME Gathering(b)' = Gathering(b), UNCHANGED barrier_thread_count PROVE C'
  BY <1>0, <1>1
<1>2. ASSUME NEW t \in Threads, NEW c \in Barriers, Call(t, c) PROVE C'
  BY <1>1, <1>2, GatheringStep DEF Call, Enter
<1>3. ASSUME NEW t \in Threads, Lock(t) \/ SpuriousWakeup(t) \/ Relock(t) PROVE C'
  BY <1>1, <1>3, GatheringStep DEF Lock, SpuriousWakeup, Relock
<1>4. ASSUME NEW t \in Threads, WaitAgain(t) \/ LeaveLoop(t) \/ Unlock(t) PROVE C'
  BY <1>1, <1>4, GatheringStep DEF WaitAgain, LeaveLoop, Unlock
<1>5. ASSUME NEW t \in Threads, ArriveWait(t) PROVE C'
  <2>1. CASE b # at[t]
    <3>1. Gathering(b)' = Gathering(b)
      BY <1>5, <2>1, GatheringStep
    <3>2. barrier_thread_count'[b] = barrier_thread_count[b]
      BY <1>5, <2>1 DEF ArriveWait, BarrierInv, BarrierTypeOK
    <3>. QED  BY <1>0, <3>1, <3>2
  <2>2. CASE b = at[t]
    <3>1. Gathering(b)' = Gathering(b) \cup {t} /\ t \notin Gathering(b)
      <4>1. Gathering(b)' = Gathering(b) \cup {t}
        BY <1>5, <2>2, GatheringStep
      <4>2. t \notin Gathering(b)
        BY <1>5 DEF ArriveWait, Gathering, Waiting
      <4>. QED  BY <4>1, <4>2
    <3>2. Cardinality(Gathering(b)') = Cardinality(Gathering(b)) + 1
      <4>1. IsFiniteSet(Gathering(b))
        BY InsideFinite
      <4>. QED  BY ONLY <3>1, <4>1, FS_AddElement
    <3>3. /\ barrier_thread_count'[b] = barrier_thread_count[b] + 1
          /\ ~ CompletesRound(b)
      BY <1>5, <2>2 DEF ArriveWait, BarrierInv, BarrierTypeOK
    <3>. QED  BY <1>0, <3>2, <3>3 DEF CompletesRound
  <2>. QED  BY <2>1, <2>2
<1>6. ASSUME NEW t \in Threads, ArriveLast(t) PROVE C'
  <2>1. CASE b # at[t]
    <3>1. Gathering(b)' = Gathering(b)
      BY <1>6, <2>1, GatheringStep
    <3>2. barrier_thread_count'[b] = barrier_thread_count[b]
      BY <1>6, <2>1 DEF ArriveLast, BarrierInv, BarrierTypeOK
    <3>. QED  BY <1>0, <3>1, <3>2
  <2>2. CASE b = at[t]
    <3>1. Gathering(b)' = {}
      BY <1>6, <2>2, GatheringStep
    <3>2. barrier_thread_count'[b] = 0
      BY <1>6, <2>2 DEF ArriveLast, CountAfterRound, BarrierInv, BarrierTypeOK
    <3>. QED  BY <1>0, <3>1, <3>2, FS_EmptySet
  <2>. QED  BY <2>1, <2>2
<1>7. CASE UNCHANGED bvars
  BY <1>0, <1>7 DEF bvars, Gathering
<1>. QED
  BY <1>2, <1>3, <1>4, <1>5, <1>6, <1>7 DEF BarrierNext, BarrierWait, BarrierStep

LEMMA DisciplineStep ==
  ASSUME BarrierInv, [BarrierNext]_bvars
  PROVE  Discipline'
<1>. SUFFICES ASSUME NEW b \in Barriers
              PROVE  (Cardinality(Inside(b)) <= barrier_thread_limit[b])'
  BY DEF Discipline
<1>0. /\ Cardinality(Inside(b)) <= barrier_thread_limit[b]
      /\ Cardinality(Inside(b)) \in Nat
      /\ barrier_thread_limit[b] \in Nat
  BY CvBarrierAssumption, InsideFinite DEF BarrierInv, Discipline
<1>1. ASSUME NEW t \in Threads, NEW c \in Barriers, Call(t, c)
      PROVE  (Cardinality(Inside(b)) <= barrier_thread_limit[b])'
  <2>1. CASE c # b
    <3>1. Inside(b)' = Inside(b)
      BY <1>1, <2>1 DEF Call, Enter, Inside, BarrierInv, BarrierTypeOK
    <3>. QED  BY <1>0, <3>1
  <2>2. CASE c = b
    <3>1. Inside(b)' = Inside(b) \cup {t} /\ t \notin Inside(b)
      BY <1>1, <2>2 DEF Call, Enter, Inside, BarrierInv, BarrierTypeOK
    <3>2. Cardinality(Inside(b)') = Cardinality(Inside(b)) + 1
      BY <3>1, InsideFinite, FS_AddElement
    <3>. QED  BY <1>0, <1>1, <2>2, <3>2 DEF Call
  <2>. QED  BY <2>1, <2>2
<1>2. ASSUME NEW t \in Threads, BarrierWait(t)
      PROVE  (Cardinality(Inside(b)) <= barrier_thread_limit[b])'
  <2>1. Inside(b)' \subseteq Inside(b)
    <3>. USE DEF Inside, BarrierInv, BarrierTypeOK
    <3>1. CASE Lock(t) \/ SpuriousWakeup(t) \/ Relock(t)
      BY <3>1 DEF Lock, SpuriousWakeup, Relock
    <3>2. CASE WaitAgain(t) \/ LeaveLoop(t) \/ Unlock(t)
      BY <3>2 DEF WaitAgain, LeaveLoop, Unlock
    <3>3. CASE ArriveWait(t) \/ ArriveLast(t)
      BY <3>3 DEF ArriveWait, ArriveLast, Woken
    <3>. QED  BY <1>2, <3>1, <3>2, <3>3 DEF BarrierWait, BarrierStep
  <2>2. Cardinality(Inside(b)') \in Nat /\ Cardinality(Inside(b)') <= Cardinality(Inside(b))
    BY <2>1, InsideFinite, FS_Subset, FS_CardinalityType
  <2>. QED  BY <1>0, <2>2
<1>3. CASE UNCHANGED bvars
  BY <1>0, <1>3 DEF bvars, Inside
<1>. QED
  BY <1>1, <1>2, <1>3 DEF BarrierNext

LEMMA BarrierInvStep ==
  ASSUME BarrierInv, [BarrierNext]_bvars
  PROVE  BarrierInv'
<1>1. BarrierTypeOK'
  BY TypeStep DEF BarrierInv
<1>. QED
  BY <1>1, MutexStep, WaitersStep, CountStep, DisciplineStep DEF BarrierInv

(***************************************************************************)
(* The counter, the round numbers, the mutex and the parked threads of     *)
(* every barrier stay in step, whatever the threads do and however often   *)
(* they are woken for no reason.                                           *)
(***************************************************************************)
THEOREM BarrierInvariant == BarrierSafetySpec => []BarrierInv
<1>1. BarrierInv /\ [BarrierNext]_bvars => BarrierInv'
  BY BarrierInvStep
<1>. QED  BY InitInv, <1>1, PTL DEF BarrierSafetySpec

(***************************************************************************)
(* A step inside barrier_wait is that of a thread inside, and the only way *)
(* out is Unlock.                                                          *)
(***************************************************************************)
LEMMA InsideSteps ==
  ASSUME BarrierTypeOK, NEW t \in Threads, BarrierWait(t)
  PROVE  /\ bpc[t] # "out"
         /\ at' = at
         /\ \A s \in Threads : bpc'[s] # "out" => bpc[s] # "out"
         /\ \A s \in Threads :
              bpc[s] # "out" /\ bpc'[s] = "out" => s = t /\ Unlock(t)
<1>. USE DEF BarrierTypeOK
<1>1. CASE Lock(t) \/ Relock(t) \/ WaitAgain(t)
  BY <1>1 DEF Lock, Relock, WaitAgain
<1>2. CASE LeaveLoop(t) \/ SpuriousWakeup(t) \/ ArriveWait(t)
  BY <1>2 DEF LeaveLoop, SpuriousWakeup, ArriveWait
<1>3. CASE ArriveLast(t)
  BY <1>3 DEF ArriveLast, Woken
<1>4. CASE Unlock(t)
  BY <1>4 DEF Unlock
<1>. QED  BY <1>1, <1>2, <1>3, <1>4 DEF BarrierWait, BarrierStep

-----------------------------------------------------------------------------
(***************************************************************************)
(* What each step does to the set of threads let go.                       *)
(***************************************************************************)
LEMMA ReleasedStep ==
  ASSUME BarrierInv, NEW t \in Threads, NEW b \in Barriers
  PROVE  /\ (\E c \in Barriers : Call(t, c)) => Released(b)' = Released(b)
         /\ Lock(t) \/ SpuriousWakeup(t) \/ Relock(t) => Released(b)' = Released(b)
         /\ WaitAgain(t) \/ LeaveLoop(t) => Released(b)' = Released(b)
         /\ ArriveWait(t) => Released(b)' = Released(b)
         /\ ArriveLast(t) =>
              Released(b)' = IF b = at[t] THEN Gathering(b) \cup {t} ELSE Released(b)
         /\ ArriveLast(t) /\ b = at[t] => Released(b) = {}
         /\ Unlock(t) =>
              Released(b)' = IF b = at[t] THEN Released(b) \ {t} ELSE Released(b)
<1>. USE DEF BarrierInv, BarrierTypeOK, Released, Waiting
<1>1. ASSUME NEW c \in Barriers, Call(t, c) PROVE Released(b)' = Released(b)
  BY <1>1 DEF Call, Enter
<1>2. Lock(t) \/ SpuriousWakeup(t) \/ Relock(t) => Released(b)' = Released(b)
  BY DEF Lock, SpuriousWakeup, Relock
<1>3. WaitAgain(t) \/ LeaveLoop(t) => Released(b)' = Released(b)
  BY DEF WaitAgain, LeaveLoop, KeepsWaiting
<1>4. ArriveWait(t) => Released(b)' = Released(b)
  BY DEF ArriveWait
<1>5. ASSUME ArriveLast(t)
      PROVE  /\ Released(b)' = IF b = at[t] THEN Gathering(b) \cup {t} ELSE Released(b)
             /\ b = at[t] => Released(b) = {}
  <2>1. CASE b # at[t]
    BY <1>5, <2>1 DEF ArriveLast, Woken
  <2>2. CASE b = at[t]
    <3>1. Inside(b) = Gathering(b) \cup {t}
      BY <1>5, <2>2, LastCallerMeetsAll DEF ArriveLast
    <3>2. Released(b) = {}
      <4>1. \A s \in Released(b) : s \in Inside(b)
        BY DEF Inside
      <4>. QED  BY <1>5, <3>1, <4>1 DEF Gathering, ArriveLast
    <3>3. \A s \in Released(b)' : s \in Inside(b)
      BY <1>5, <2>2 DEF ArriveLast, Woken, Inside
    <3>4. \A s \in Gathering(b) \cup {t} : s \in Released(b)'
      BY <1>5, <2>2, NextRoundDiffers DEF ArriveLast, Woken, Gathering
    <3>. QED  BY <2>2, <3>1, <3>2, <3>3, <3>4
  <2>. QED  BY <2>1, <2>2
<1>6. Unlock(t) =>
        Released(b)' = IF b = at[t] THEN Released(b) \ {t} ELSE Released(b)
  BY DEF Unlock
<1>. QED  BY <1>1, <1>2, <1>3, <1>4, <1>5, <1>6

(***************************************************************************)
(* A thread that is gathered or released is inside the barrier it called   *)
(* last, and one that is about to be counted is neither.                   *)
(***************************************************************************)
LEMMA ArrivingNotEngaged ==
  ASSUME NEW t \in Threads, bpc[t] = "arrive", NEW b \in Barriers
  PROVE  t \notin Gathering(b) /\ t \notin Released(b)
BY DEF Gathering, Released, Waiting

(***************************************************************************)
(* Cardinality means the same in the abstract barrier's module.            *)
(***************************************************************************)
LEMMA SameCardinality ==
  ASSUME NEW S
  PROVE  Abstract!Cardinality(S) = Cardinality(S)
BY Zenon DEF Abstract!Cardinality, Cardinality

(***************************************************************************)
(* Every step of the barrier is a step of the abstract one, or leaves its  *)
(* state alone.                                                            *)
(***************************************************************************)
LEMMA StepRefines ==
  ASSUME BarrierInv, [BarrierNext]_bvars
  PROVE  [Abstract!Next]_(Abstract!avars)
<1>. DEFINE G == [b \in Barriers |-> Gathering(b)]
            R == [b \in Barriers |-> Released(b)]
            Stutter == (\A b \in Barriers : Gathering(b)' = Gathering(b))
                       /\ (\A b \in Barriers : Released(b)' = Released(b))
<1>0. Stutter => [Abstract!Next]_(Abstract!avars)
  BY DEF Abstract!avars
<1>1. ASSUME NEW t \in Threads, NEW c \in Barriers, Call(t, c) PROVE Stutter
  BY <1>1, GatheringStep, ReleasedStep
<1>2. ASSUME NEW t \in Threads, Lock(t) \/ SpuriousWakeup(t) \/ Relock(t) PROVE Stutter
  BY <1>2, GatheringStep, ReleasedStep
<1>3. ASSUME NEW t \in Threads, WaitAgain(t) \/ LeaveLoop(t) PROVE Stutter
  BY <1>3, GatheringStep, ReleasedStep
<1>4. ASSUME NEW t \in Threads, ArriveWait(t) PROVE Abstract!Gather(t, at[t])
  <2>1. at[t] \in Barriers /\ bpc[t] = "arrive" /\ ~ CompletesRound(at[t])
    BY <1>4 DEF ArriveWait, BarrierInv, BarrierTypeOK
  <2>2. \A c \in Barriers : t \notin Abstract!Engaged(c)
    BY <2>1, ArrivingNotEngaged DEF Abstract!Engaged
  <2>3. Cardinality(Gathering(at[t])) + 1 < barrier_thread_limit[at[t]]
    BY <2>1, CvBarrierAssumption DEF CompletesRound, BarrierInv, CountInv, BarrierTypeOK
  <2>4. G' = [G EXCEPT ![at[t]] = @ \cup {t}]
    BY <1>4, <2>1, GatheringStep
  <2>5. R' = R
    BY <1>4, ReleasedStep
  <2>. QED  BY <2>1, <2>2, <2>3, <2>4, <2>5, SameCardinality DEF Abstract!Gather
<1>5. ASSUME NEW t \in Threads, ArriveLast(t) PROVE Abstract!Complete(t, at[t])
  <2>1. at[t] \in Barriers /\ bpc[t] = "arrive" /\ CompletesRound(at[t])
    BY <1>5 DEF ArriveLast, BarrierInv, BarrierTypeOK
  <2>2. \A c \in Barriers : t \notin Abstract!Engaged(c)
    BY <2>1, ArrivingNotEngaged DEF Abstract!Engaged
  <2>3. Cardinality(Gathering(at[t])) + 1 = barrier_thread_limit[at[t]]
    BY <2>1, LastCallerMeetsAll
  <2>4. Released(at[t]) = {}
    BY <1>5, <2>1, ReleasedStep
  <2>5. R' = [R EXCEPT ![at[t]] = Gathering(at[t]) \cup {t}]
    BY <1>5, <2>1, ReleasedStep
  <2>6. G' = [G EXCEPT ![at[t]] = {}]
    BY <1>5, <2>1, GatheringStep
  <2>. QED  BY <2>1, <2>2, <2>3, <2>4, <2>5, <2>6, SameCardinality DEF Abstract!Complete
<1>6. ASSUME NEW t \in Threads, Unlock(t) PROVE Abstract!Depart(t, at[t])
  <2>1. at[t] \in Barriers /\ t \in Released(at[t])
    BY <1>6 DEF Unlock, Released, BarrierInv, BarrierTypeOK
  <2>2. R' = [R EXCEPT ![at[t]] = @ \ {t}]
    BY <1>6, <2>1, ReleasedStep
  <2>3. G' = G
    BY <1>6, GatheringStep
  <2>. QED  BY <2>1, <2>2, <2>3 DEF Abstract!Depart
<1>7. CASE UNCHANGED bvars
  <2>1. Stutter
    BY <1>7 DEF bvars, Gathering, Released
  <2>. QED  BY <1>0, <2>1
<1>8. \A t \in Threads : at[t] \in Barriers
  BY DEF BarrierInv, BarrierTypeOK
<1>. QED
  BY <1>0, <1>1, <1>2, <1>3, <1>4, <1>5, <1>6, <1>7, <1>8
     DEF BarrierNext, BarrierWait, BarrierStep, Abstract!Next

(***************************************************************************)
(* barrier_wait keeps the promise of a barrier for any number of threads   *)
(* and any limits: as many callers as the limit leave a round together,    *)
(* none before the last of them has come, and no round is opened while     *)
(* somebody of the round before is still inside.                           *)
(***************************************************************************)
THEOREM BarrierRefinement == BarrierSafetySpec => ImplementsRendezvous
<1>1. BarrierInit => Abstract!Init
  BY DEF BarrierInit, Abstract!Init, Gathering, Released, Waiting
<1>2. BarrierInv /\ [BarrierNext]_bvars => [Abstract!Next]_(Abstract!avars)
  BY StepRefines
<1>. QED
  BY BarrierInvariant, <1>1, <1>2, PTL
     DEF BarrierSafetySpec, ImplementsRendezvous, Abstract!SafetySpec
=============================================================================
