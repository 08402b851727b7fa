------------------------------- MODULE H2OProofs -------------------------------
(***************************************************************************)
(* Proofs about H2O for any number of atoms, any composition of the        *)
(* molecule and any width of the round counter, and about H2ORestart for   *)
(* any number of runs, killed at any point.  The invariant is stated for   *)
(* any semaphores a process may find, full or not, so that it serves both. *)
(***************************************************************************)
EXTENDS H2ORestart, CvBarrierProofs

\* The process has opened the semaphore.
Opened(s) == handle[s] \in {"open", "closed"}

\* Threads that are counted by a semaphore or the oxygen mutex.
Engaged == {t \in Threads : tpc[t] = "barrier"}

(***************************************************************************)
(* A thread is in barrier_wait only at that place of its body, an oxygen   *)
(* holds oxygen_mutex there, and nobody gets there without a semaphore.    *)
(***************************************************************************)
BodiesInv ==
  /\ \A t \in Threads : bpc[t] # "out" => tpc[t] = "barrier"
  /\ \A t \in Oxygen : oxygen_mutex = t <=> tpc[t] = "barrier"
  /\ \A s \in Names : \A t \in Atoms[s] : tpc[t] \in {"barrier", "done"} => Opened(s)

(***************************************************************************)
(* Tokens are conserved, and there are never more than a molecule takes.   *)
(***************************************************************************)
TokensInv ==
  \A s \in Names :
    /\ Opened(s) => /\ sem[s] \in Nat
                    /\ sem[s] + Cardinality(Holders(s)) = found[s]
                    /\ found[s] <= Tokens[s]
    /\ ~ Opened(s) /\ sem[s] # Absent => sem[s] <= Tokens[s]

(***************************************************************************)
(* main() creates threads when it has opened the semaphores, and closes    *)
(* them when all threads have ended or something has failed.               *)
(***************************************************************************)
MainInv ==
  /\ mpc \in {"carbon", "hydrogen"} => \A t \in Threads : tpc[t] = "unborn"
  /\ \A s \in Names :
       handle[s] = "closed" => mpc \in {"close_carbon", "exit", "exited", "faulted"}
  /\ mpc \in {"close_hydrogen", "close_carbon", "exit", "exited"} /\ exit_code = 0 =>
       \A t \in Threads : tpc[t] = "done"
  /\ FaultsOnlyAfterFailure

(***************************************************************************)
(* num_of_water_molecules counts the oxygens that are done, and the rounds *)
(* of the barrier.                                                         *)
(***************************************************************************)
Reacted == {t \in Oxygen : tpc[t] = "done"}

MoleculeInv ==
  /\ num_of_water_molecules = Cardinality(Reacted)
  /\ (num_of_water_molecules + Cardinality(Uncounted)) % RoundMod
       = barrier_round[water_barrier]

(***************************************************************************)
(* With a semaphore that was short from the start no round is completed.   *)
(***************************************************************************)
ShortInv ==
  \A s \in Names : Opened(s) /\ found[s] < Tokens[s] =>
    /\ Released(water_barrier) = {}
    /\ \A t \in Threads : tpc[t] # "done" /\ ~ Leaving(t)

HInv ==
  TypeOK /\ BarrierInv /\ BodiesInv /\ TokensInv /\ MainInv /\ MoleculeInv /\ ShortInv

(***************************************************************************)
(* A process that starts with no more tokens than the initial values.      *)
(***************************************************************************)
Started ==
  /\ \A s \in Names : sem[s] = Absent \/ sem[s] \in 0 .. Tokens[s]
  /\ sem \in [Names -> Nat \cup {Absent}]
  /\ handle = [s \in Names |-> "unset"]
  /\ oxygen_mutex = NoThread
  /\ num_of_water_molecules = 0
  /\ tpc = [t \in Threads |-> "unborn"]
  /\ mpc = "carbon"
  /\ exit_code = 0
  /\ found = [s \in Names |-> 0]
  /\ BarrierInit

-----------------------------------------------------------------------------
(***************************************************************************)
(* Every thread is an oxygen or one of the atoms that a semaphore lets in. *)
(***************************************************************************)
LEMMA Kinds ==
  /\ Atoms["hydrogen"] = Hydrogen /\ Atoms["carbon"] = Carbon
  /\ Tokens["hydrogen"] = HydrogenTokens /\ Tokens["carbon"] = CarbonTokens
  /\ Names = {"hydrogen", "carbon"}
  /\ \A s \in Names : /\ Atoms[s] \subseteq Threads /\ Atoms[s] \cap Oxygen = {}
                      /\ Atoms[s] # {} /\ Tokens[s] \in Nat
  /\ \A s, r \in Names : s # r => Atoms[s] \cap Atoms[r] = {}
  /\ Oxygen \subseteq Threads
  /\ \A t \in Threads \ Oxygen : \E s \in Names : t \in Atoms[s]
  /\ water_barrier \in Barriers /\ \A b \in Barriers : b = water_barrier
BY H2OAssumption DEF Atoms, Tokens, Names

LEMMA Limit ==
  /\ barrier_thread_limit[water_barrier] = HydrogenTokens + CarbonTokens + 1
  /\ HydrogenTokens \in Nat /\ CarbonTokens \in Nat
  /\ RoundMod \in Nat \ {0} /\ NoThread \notin Threads /\ Absent \notin Nat
BY H2OAssumption, CvBarrierAssumption

LEMMA FiniteThreads ==
  ASSUME NEW S \in SUBSET Threads
  PROVE  IsFiniteSet(S) /\ Cardinality(S) \in Nat
BY FS_Subset, FS_CardinalityType, CvBarrierAssumption

LEMMA DisjointUnion ==
  ASSUME NEW A, NEW B, IsFiniteSet(A), IsFiniteSet(B), A \cap B = {}
  PROVE  Cardinality(A \cup B) = Cardinality(A) + Cardinality(B)
<1>1. Cardinality(A \cup B) = Cardinality(A) + Cardinality(B) - Cardinality(A \cap B)
  BY FS_Union
<1>2. Cardinality(A \cap B) = 0
  BY FS_EmptySet
<1>3. Cardinality(A) \in Nat /\ Cardinality(B) \in Nat
  BY FS_CardinalityType
<1>. QED  BY <1>1, <1>2, <1>3

(***************************************************************************)
(* Counting threads kind by kind.                                          *)
(***************************************************************************)
LEMMA CountByKind ==
  ASSUME NEW S \in SUBSET Threads
  PROVE  Cardinality(S) = Cardinality(S \cap Oxygen) + Cardinality(S \cap Hydrogen)
                            + Cardinality(S \cap Carbon)
<1>. DEFINE O == S \cap Oxygen
            H == S \cap Hydrogen
            C == S \cap Carbon
<1>1. /\ S = (O \cup H) \cup C /\ O \cap H = {} /\ (O \cup H) \cap C = {}
      /\ O \in SUBSET Threads /\ H \in SUBSET Threads /\ C \in SUBSET Threads
      /\ O \cup H \in SUBSET Threads
  BY H2OAssumption
<1>. HIDE DEF O, H, C
<1>2. /\ Cardinality(O) \in Nat /\ Cardinality(H) \in Nat /\ Cardinality(C) \in Nat
      /\ IsFiniteSet(O) /\ IsFiniteSet(H) /\ IsFiniteSet(C) /\ IsFiniteSet(O \cup H)
  BY <1>1, FiniteThreads
<1>3. Cardinality(O \cup H) = Cardinality(O) + Cardinality(H)
  BY <1>1, <1>2, DisjointUnion
<1>4. Cardinality(S) = Cardinality(O \cup H) + Cardinality(C)
  BY <1>1, <1>2, DisjointUnion
<1>5. Cardinality(S) = Cardinality(O) + Cardinality(H) + Cardinality(C)
  BY <1>2, <1>3, <1>4
<1>. QED  BY <1>5 DEF O, H, C

(***************************************************************************)
(* Among the threads at barrier_wait there is one oxygen at most, and no   *)
(* more atoms of a kind than hold a token.                                 *)
(***************************************************************************)
LEMMA EngagedCounted ==
  ASSUME HInv, NEW S \in SUBSET Engaged
  PROVE  /\ S \in SUBSET Threads
         /\ Cardinality(S \cap Oxygen) \in 0 .. 1
         /\ oxygen_mutex = NoThread => Cardinality(S \cap Oxygen) = 0
         /\ \A s \in Names :
              /\ Cardinality(Holders(s)) \in 0 .. Tokens[s]
              /\ Cardinality(S \cap Atoms[s]) \in 0 .. Cardinality(Holders(s))
<1>1. S \in SUBSET Threads
  BY DEF Engaged
<1>2. /\ Cardinality(S \cap Oxygen) \in 0 .. 1
      /\ oxygen_mutex = NoThread => Cardinality(S \cap Oxygen) = 0
  <2>1. \A t \in S \cap Oxygen : t = oxygen_mutex
    BY DEF Engaged, HInv, BodiesInv
  <2>2. oxygen_mutex = NoThread => S \cap Oxygen = {}
    BY <2>1, <1>1, Limit
  <2>3. S \cap Oxygen \subseteq {oxygen_mutex}
    BY <2>1
  <2>4. CASE S \cap Oxygen = {}
    BY <2>4, FS_EmptySet
  <2>5. CASE S \cap Oxygen # {}
    <3>1. S \cap Oxygen = {oxygen_mutex}
      BY <2>3, <2>5
    <3>2. Cardinality(S \cap Oxygen) = 1
      BY <3>1, FS_Singleton
    <3>. QED  BY <2>2, <2>5, <3>2
  <2>. QED  BY <2>4, <2>5
<1>3. ASSUME NEW s \in Names
      PROVE  /\ Cardinality(Holders(s)) \in 0 .. Tokens[s]
             /\ Cardinality(S \cap Atoms[s]) \in 0 .. Cardinality(Holders(s))
  <2>1. Holders(s) \in SUBSET Threads /\ S \cap Atoms[s] \in SUBSET Holders(s)
    BY Kinds DEF Holders, Engaged
  <2>2. /\ IsFiniteSet(Holders(s)) /\ Cardinality(Holders(s)) \in Nat
        /\ Cardinality(S \cap Atoms[s]) \in Nat
    BY <2>1, FiniteThreads
  <2>3. Cardinality(S \cap Atoms[s]) <= Cardinality(Holders(s))
    BY <2>1, <2>2, FS_Subset
  <2>4. Cardinality(Holders(s)) <= Tokens[s]
    <3>1. CASE Opened(s)
      <4>1. /\ sem[s] \in Nat /\ sem[s] + Cardinality(Holders(s)) = found[s]
            /\ found[s] <= Tokens[s]
        BY <3>1 DEF HInv, TokensInv
      <4>. QED  BY <2>2, <4>1, Kinds
    <3>2. CASE ~ Opened(s)
      <4>1. Holders(s) = {}
        BY <3>2, Kinds DEF HInv, BodiesInv, Holders
      <4>. QED  BY <4>1, FS_EmptySet, Kinds
    <3>. QED  BY <3>1, <3>2
  <2>. QED  BY <2>2, <2>3, <2>4, Kinds
<1>. QED  BY <1>1, <1>2, <1>3

LEMMA InsideEngaged ==
  ASSUME HInv
  PROVE  Inside(water_barrier) \in SUBSET Engaged
BY DEF HInv, BodiesInv, Inside, Engaged

(***************************************************************************)
(* Whoever takes a token or oxygen_mutex finds room in the barrier ...     *)
(***************************************************************************)
LEMMA RoomToEnter ==
  ASSUME HInv,
         \/ oxygen_mutex = NoThread
         \/ \E s \in Names : Opened(s) /\ HasToken(s)
  PROVE  Cardinality(Inside(water_barrier)) < barrier_thread_limit[water_barrier]
<1>. DEFINE I == Inside(water_barrier)
            o == Cardinality(I \cap Oxygen)
            h == Cardinality(I \cap Hydrogen)
            c == Cardinality(I \cap Carbon)
<1>1. I \in SUBSET Engaged /\ I \in SUBSET Threads
  BY InsideEngaged DEF Engaged
<1>2. Cardinality(I) = o + h + c
  BY <1>1, CountByKind
<1>3. /\ o \in 0 .. 1
      /\ oxygen_mutex = NoThread => o = 0
  BY <1>1, EngagedCounted
<1>4. ASSUME NEW s \in Names
      PROVE  /\ Cardinality(I \cap Atoms[s]) \in 0 .. Tokens[s]
             /\ Opened(s) /\ HasToken(s) => Cardinality(I \cap Atoms[s]) < Tokens[s]
  <2>1. /\ Cardinality(Holders(s)) \in 0 .. Tokens[s]
        /\ Cardinality(I \cap Atoms[s]) \in 0 .. Cardinality(Holders(s))
        /\ Tokens[s] \in Nat
    BY <1>1, EngagedCounted, Kinds
  <2>2. Opened(s) => /\ sem[s] \in Nat /\ sem[s] + Cardinality(Holders(s)) = found[s]
                     /\ found[s] <= Tokens[s]
    BY DEF HInv, TokensInv
  <2>. QED  BY <2>1, <2>2 DEF HasToken
<1>5. /\ h \in 0 .. HydrogenTokens
      /\ c \in 0 .. CarbonTokens
      /\ (\E s \in Names : Opened(s) /\ HasToken(s))
           => h < HydrogenTokens \/ c < CarbonTokens
  BY <1>4, Kinds
<1>. HIDE DEF I, o, h, c
<1>6. Cardinality(I) < HydrogenTokens + CarbonTokens + 1
  BY <1>2, <1>3, <1>5, Limit
<1>. QED  BY <1>6, Limit DEF I

(***************************************************************************)
(* ... and a full barrier holds one molecule.                              *)
(***************************************************************************)
LEMMA FullBarrier ==
  ASSUME HInv, Cardinality(Inside(water_barrier)) = barrier_thread_limit[water_barrier]
  PROVE  /\ Cardinality(Inside(water_barrier) \cap Oxygen) = 1
         /\ \A s \in Names :
              /\ Cardinality(Inside(water_barrier) \cap Atoms[s]) = Tokens[s]
              /\ Cardinality(Holders(s)) = Tokens[s]
<1>. DEFINE I == Inside(water_barrier)
            o == Cardinality(I \cap Oxygen)
            h == Cardinality(I \cap Hydrogen)
            c == Cardinality(I \cap Carbon)
<1>1. I \in SUBSET Engaged /\ I \in SUBSET Threads
  BY InsideEngaged DEF Engaged
<1>2. Cardinality(I) = o + h + c
  BY <1>1, CountByKind
<1>3. o \in 0 .. 1
  BY <1>1, EngagedCounted
<1>4. \A s \in Names :
        /\ Cardinality(Holders(s)) \in 0 .. Tokens[s]
        /\ Cardinality(I \cap Atoms[s]) \in 0 .. Cardinality(Holders(s))
  BY <1>1, EngagedCounted
<1>5. h \in 0 .. HydrogenTokens /\ c \in 0 .. CarbonTokens
  <2>1. \A s \in Names : Tokens[s] \in Nat
    BY Kinds
  <2>2. \A s \in Names : Cardinality(I \cap Atoms[s]) \in 0 .. Tokens[s]
    BY <1>4, <2>1
  <2>. QED  BY <2>2, Kinds
<1>6. Cardinality(I) = HydrogenTokens + CarbonTokens + 1
  BY Limit
<1>7. o = 1 /\ h = HydrogenTokens /\ c = CarbonTokens
  <2>. HIDE DEF I, o, h, c
  <2>. QED  BY <1>2, <1>3, <1>5, <1>6, Limit
<1>8. ASSUME NEW s \in Names
      PROVE  /\ Cardinality(I \cap Atoms[s]) = Tokens[s]
             /\ Cardinality(Holders(s)) = Tokens[s]
  <2>1. Cardinality(I \cap Atoms[s]) = Tokens[s]
    BY <1>7, Kinds
  <2>. QED  BY <1>4, <2>1, Kinds
<1>. QED  BY <1>7, <1>8

(***************************************************************************)
(* The program uses barrier_wait as CvBarrier allows.                      *)
(***************************************************************************)
LEMMA BarrierSteps ==
  ASSUME HInv, [Next]_vars
  PROVE  [BarrierNext]_bvars
<1>1. ASSUME NEW t \in Threads, NEW s \in Names, TakeToken(t, s)
      PROVE  Call(t, water_barrier)
  <2>1. Opened(s) /\ HasToken(s) /\ Enter(t, water_barrier)
    BY <1>1 DEF TakeToken, Opened
  <2>. QED  BY <2>1, RoomToEnter DEF Call
<1>2. ASSUME NEW t \in Threads, LockOxygen(t)
      PROVE  Call(t, water_barrier)
  <2>1. oxygen_mutex = NoThread /\ Enter(t, water_barrier)
    BY <1>2 DEF LockOxygen
  <2>. QED  BY <2>1, RoomToEnter DEF Call
<1>3. ASSUME NEW t \in Threads, InBarrier(t) \/ WokenInBarrier(t)
      PROVE  BarrierWait(t)
  BY <1>3 DEF InBarrier, WokenInBarrier, BarrierWait
<1>4. ASSUME NEW t \in Threads, NEW s \in Names, GiveToken(t, s) \/ Fault(t, s)
      PROVE  UNCHANGED bvars
  BY <1>4 DEF GiveToken, Fault
<1>5. ASSUME NEW t \in Threads, UnlockOxygen(t)
      PROVE  UNCHANGED bvars
  BY <1>5 DEF UnlockOxygen
<1>6. CASE Main
  <2>1. UNCHANGED bvars
    BY <1>6 DEF Main, semaphore_initial, CreateThread, CreateFails, AllCreated, JoinAll,
                Close, Exit
  <2>. QED  BY <2>1
<1>7. CASE UNCHANGED vars
  BY <1>7 DEF vars
<1>. QED
  BY <1>1, <1>2, <1>3, <1>4, <1>5, <1>6, <1>7, Kinds
     DEF Next, Thread, Terminated, BarrierNext

LEMMA StartInv == Started => HInv
<1>. SUFFICES ASSUME Started PROVE HInv
  OBVIOUS
<1>1. BarrierInv
  BY InitInv DEF Started
<1>2. TypeOK
  BY <1>1 DEF Started, TypeOK, BarrierInv
<1>3. /\ \A t \in Threads : tpc[t] = "unborn" /\ bpc[t] = "out"
      /\ \A s \in Names : handle[s] = "unset"
  BY DEF Started, BarrierInit
<1>4. BodiesInv
  BY <1>3, Kinds, Limit DEF BodiesInv, Started
<1>5. TokensInv
  BY <1>3, Kinds DEF TokensInv, Opened, Started
<1>6. MainInv
  BY <1>3 DEF MainInv, FaultsOnlyAfterFailure, Started
<1>7. MoleculeInv
  <2>1. Reacted = {} /\ Uncounted = {}
    BY <1>3, Kinds DEF Reacted, Uncounted, Leaving, Released, Waiting
  <2>2. barrier_round[water_barrier] = 0 /\ num_of_water_molecules = 0
    BY Kinds DEF Started, BarrierInit
  <2>3. (0 + 0) % RoundMod = 0
    BY Limit
  <2>. QED  BY <2>1, <2>2, <2>3, FS_EmptySet DEF MoleculeInv
<1>8. ShortInv
  BY <1>3 DEF ShortInv, Opened
<1>. QED  BY <1>1, <1>2, <1>4, <1>5, <1>6, <1>7, <1>8 DEF HInv

LEMMA InitStarted == Init => Started
<1>. SUFFICES ASSUME Init PROVE Started
  OBVIOUS
<1>1. PICK left \in SUBSET Names :
        sem = [s \in Names |-> IF s \in left THEN InitialValue(s) ELSE Absent]
  BY DEF Init
<1>2. \A s \in Names : InitialValue(s) \in 0 .. Tokens[s] /\ InitialValue(s) \in Nat
  BY Kinds DEF InitialValue
<1>3. /\ \A s \in Names : sem[s] = Absent \/ sem[s] \in 0 .. Tokens[s]
      /\ sem \in [Names -> Nat \cup {Absent}]
  BY <1>1, <1>2
<1>. QED  BY <1>3 DEF Init, Started

-----------------------------------------------------------------------------
(***************************************************************************)
(* Types.                                                                  *)
(***************************************************************************)
LEMMA TypesStep ==
  ASSUME HInv, [Next]_vars
  PROVE  TypeOK'
<1>0. TypeOK /\ BarrierTypeOK'
  BY BarrierSteps, BarrierInvStep DEF HInv, BarrierInv
<1>. USE <1>0 DEF TypeOK
<1>1. ASSUME NEW s \in Names, NEW next \in {"hydrogen", "create"},
             semaphore_initial(s, next)
      PROVE  TypeOK'
  <2>1. InitialValue(s) \in Nat
    BY Kinds DEF InitialValue
  <2>2. CASE OpenFails(s)
    BY <1>1, <2>2 DEF semaphore_initial, OpenFails
  <2>3. CASE Opens(s)
    <3>1. sem'[s] \in Nat /\ sem' \in [Names -> Nat \cup {Absent}]
      BY <2>1, <2>3 DEF Opens
    <3>. QED  BY <1>1, <2>3, <3>1 DEF semaphore_initial, Opens
  <2>. QED  BY <1>1, <2>2, <2>3 DEF semaphore_initial
<1>2. ASSUME NEW t \in Threads, CreateThread(t) PROVE TypeOK'
  BY <1>2 DEF CreateThread, mainvars
<1>3. CASE CreateFails \/ AllCreated \/ JoinAll \/ Exit
  BY <1>3 DEF CreateFails, AllCreated, JoinAll, Exit
<1>4. ASSUME NEW s \in Names, NEW here, NEW next \in {"close_carbon", "exit"},
             Close(s, here, next)
      PROVE  TypeOK'
  BY <1>4 DEF Close
<1>5. ASSUME NEW t \in Threads, NEW s \in Names, TakeToken(t, s) \/ GiveToken(t, s)
      PROVE  TypeOK'
  <2>1. sem[s] \in Nat
    BY <1>5, Kinds DEF TakeToken, GiveToken, Opened, HInv, TokensInv
  <2>2. TakeToken(t, s) => sem[s] - 1 \in Nat
    BY <2>1 DEF TakeToken, HasToken
  <2>. QED  BY <1>5, <2>1, <2>2 DEF TakeToken, GiveToken, AfterPost, mainvars
<1>6. ASSUME NEW t \in Threads, LockOxygen(t) \/ UnlockOxygen(t) PROVE TypeOK'
  BY <1>6 DEF LockOxygen, UnlockOxygen, Counted, mainvars
<1>7. ASSUME NEW t \in Threads, InBarrier(t) \/ WokenInBarrier(t) PROVE TypeOK'
  BY <1>7 DEF InBarrier, WokenInBarrier, mainvars
<1>8. ASSUME NEW t \in Threads, NEW s \in Names, Fault(t, s) PROVE TypeOK'
  BY <1>8 DEF Fault
<1>9. CASE UNCHANGED vars
  BY <1>9 DEF vars, mainvars
<1>. QED
  BY <1>1, <1>2, <1>3, <1>4, <1>5, <1>6, <1>7, <1>8, <1>9, Kinds
     DEF Next, Main, Thread, Terminated

LEMMA BodiesStep ==
  ASSUME HInv, [Next]_vars
  PROVE  BodiesInv'
<1>0. TypeOK /\ BarrierTypeOK /\ BodiesInv
  BY DEF HInv, TypeOK
<1>. USE <1>0 DEF BodiesInv, Opened
<1>1. ASSUME NEW s \in Names, NEW next, semaphore_initial(s, next) PROVE BodiesInv'
  <2>1. \A t \in Threads : tpc[t] = "unborn"
    BY <1>1, Kinds DEF semaphore_initial, HInv, MainInv
  <2>. QED  BY <1>1, <2>1, Kinds DEF semaphore_initial, bvars
<1>2. ASSUME NEW t \in Threads, CreateThread(t) PROVE BodiesInv'
  BY <1>2, Kinds DEF CreateThread, NextToCreate, mainvars, bvars, TypeOK
<1>3. CASE CreateFails \/ AllCreated \/ JoinAll \/ Exit
  BY <1>3 DEF CreateFails, AllCreated, JoinAll, Exit, bvars
<1>4. ASSUME NEW s \in Names, NEW here, NEW next, Close(s, here, next) PROVE BodiesInv'
  BY <1>4 DEF Close, bvars, TypeOK
<1>5. ASSUME NEW t \in Threads, NEW s \in Names, TakeToken(t, s) PROVE BodiesInv'
  BY <1>5, Kinds DEF TakeToken, Enter, mainvars, TypeOK, BarrierTypeOK
<1>6. ASSUME NEW t \in Threads, NEW s \in Names, GiveToken(t, s) PROVE BodiesInv'
  BY <1>6, Kinds DEF GiveToken, Leaving, mainvars, bvars, TypeOK
<1>7. ASSUME NEW t \in Threads, LockOxygen(t) PROVE BodiesInv'
  BY <1>7, Kinds, Limit DEF LockOxygen, Enter, mainvars, TypeOK, BarrierTypeOK
<1>8. ASSUME NEW t \in Threads, UnlockOxygen(t) PROVE BodiesInv'
  BY <1>8, Kinds, Limit DEF UnlockOxygen, Leaving, mainvars, bvars, TypeOK
<1>9. ASSUME NEW t \in Threads, InBarrier(t) \/ WokenInBarrier(t) PROVE BodiesInv'
  <2>1. \A s \in Threads : bpc'[s] # "out" => bpc[s] # "out"
    BY <1>9, InsideSteps DEF InBarrier, WokenInBarrier, BarrierWait
  <2>. QED  BY <1>9, <2>1 DEF InBarrier, WokenInBarrier, mainvars
<1>10. ASSUME NEW t \in Threads, NEW s \in Names, Fault(t, s) PROVE BodiesInv'
  BY <1>10 DEF Fault, bvars
<1>11. CASE UNCHANGED vars
  BY <1>11 DEF vars, mainvars, bvars
<1>. QED
  BY <1>1, <1>2, <1>3, <1>4, <1>5, <1>6, <1>7, <1>8, <1>9, <1>10, <1>11, Kinds
     DEF Next, Main, Thread, Terminated

(***************************************************************************)
(* sem_wait and sem_post move a token between the semaphore and a thread;  *)
(* no other step does.                                                     *)
(***************************************************************************)
LEMMA TokensStep ==
  ASSUME HInv, [Next]_vars
  PROVE  TokensInv'
<1>. DEFINE T(s) ==
        /\ Opened(s) => /\ sem[s] \in Nat
                        /\ sem[s] + Cardinality(Holders(s)) = found[s]
                        /\ found[s] <= Tokens[s]
        /\ ~ Opened(s) /\ sem[s] # Absent => sem[s] <= Tokens[s]
<1>0. TypeOK /\ BodiesInv /\ \A s \in Names : T(s)
  BY DEF HInv, TokensInv
<1>. SUFFICES ASSUME NEW s \in Names PROVE T(s)'
  BY DEF TokensInv
<1>a. /\ IsFiniteSet(Holders(s)) /\ Cardinality(Holders(s)) \in Nat
      /\ Tokens[s] \in Nat /\ T(s)
  <2>1. Holders(s) \in SUBSET Threads
    BY Kinds DEF Holders
  <2>. QED  BY <1>0, <2>1, FiniteThreads, Kinds
<1>b. ASSUME \A t \in Atoms[s] : tpc'[t] = "barrier" <=> tpc[t] = "barrier",
             Opened(s)' <=> Opened(s), sem'[s] = sem[s], found'[s] = found[s]
      PROVE  T(s)'
  <2>1. Holders(s)' = Holders(s)
    BY <1>b DEF Holders
  <2>. QED  BY <1>a, <1>b, <2>1
<1>1. ASSUME NEW r \in Names, NEW next, semaphore_initial(r, next) PROVE T(s)'
  <2>1. \A t \in Threads : tpc[t] = "unborn" /\ tpc'[t] = "unborn"
    BY <1>1, Kinds DEF semaphore_initial, HInv, MainInv
  <2>2. Holders(s) = {} /\ Holders(s)' = {}
    BY <2>1, Kinds DEF Holders
  <2>3. CASE r # s
    <3>1. sem'[s] = sem[s] /\ found'[s] = found[s] /\ handle'[s] = handle[s]
      BY <1>0, <1>1, <2>3 DEF semaphore_initial, Opens, OpenFails, TypeOK
    <3>. QED  BY <1>a, <2>2, <3>1 DEF Opened
  <2>4. Cardinality({}) = 0
    BY FS_EmptySet
  <2>5. sem[s] = Absent \/ sem[s] \in 0 .. Tokens[s]
    <3>1. CASE Opened(s)
      BY <1>a, <2>2, <2>4, <3>1
    <3>2. CASE ~ Opened(s)
      <4>1. sem[s] \in Nat \cup {Absent}
        BY <1>0 DEF TypeOK
      <4>. QED  BY <1>a, <3>2, <4>1
    <3>. QED  BY <3>1, <3>2
  <2>6. CASE r = s /\ OpenFails(r)
    <3>1. sem'[s] = sem[s] /\ ~ Opened(s)'
      BY <1>0, <2>6 DEF OpenFails, TypeOK, Opened
    <3>. QED  BY <1>a, <2>5, <3>1
  <2>7. CASE r = s /\ Opens(r)
    <3>1. InitialValue(s) \in 0 .. Tokens[s]
      BY Kinds DEF InitialValue
    <3>2. sem'[s] \in 0 .. Tokens[s] /\ found'[s] = sem'[s] /\ Opened(s)'
      BY <1>0, <2>5, <2>7, <3>1 DEF Opens, TypeOK, Opened
    <3>. QED  BY <1>a, <2>2, <2>4, <3>2
  <2>. QED  BY <1>1, <2>3, <2>6, <2>7 DEF semaphore_initial
<1>2. ASSUME NEW t \in Threads, CreateThread(t) PROVE T(s)'
  <2>1. \A u \in Atoms[s] : tpc'[u] = "barrier" <=> tpc[u] = "barrier"
    BY <1>0, <1>2, Kinds DEF CreateThread, NextToCreate, TypeOK
  <2>. QED  BY <1>b, <1>2, <2>1 DEF CreateThread, mainvars, Opened
<1>3. CASE CreateFails \/ AllCreated \/ JoinAll \/ Exit
  BY <1>b, <1>3 DEF CreateFails, AllCreated, JoinAll, Exit, Opened
<1>4. ASSUME NEW r \in Names, NEW here, NEW next, Close(r, here, next) PROVE T(s)'
  <2>1. Opened(s)' <=> Opened(s)
    BY <1>0, <1>4 DEF Close, Opened, TypeOK
  <2>. QED  BY <1>b, <1>4, <2>1 DEF Close
<1>5. ASSUME NEW t \in Threads, NEW r \in Names, TakeToken(t, r) PROVE T(s)'
  <2>1. CASE r # s
    <3>1. \A u \in Atoms[s] : tpc'[u] = "barrier" <=> tpc[u] = "barrier"
      BY <1>0, <1>5, <2>1, Kinds DEF TakeToken, TypeOK
    <3>2. sem'[s] = sem[s]
      BY <1>0, <1>5, <2>1 DEF TakeToken, TypeOK
    <3>. QED  BY <1>b, <1>5, <3>1, <3>2 DEF TakeToken, mainvars, Opened
  <2>2. CASE r = s
    <3>1. Holders(s)' = Holders(s) \cup {t} /\ t \notin Holders(s)
      BY <1>0, <1>5, <2>2, Kinds DEF TakeToken, TypeOK, Holders
    <3>2. Cardinality(Holders(s)') = Cardinality(Holders(s)) + 1
      BY <1>a, <3>1, FS_AddElement
    <3>3. Opened(s) /\ Opened(s)' /\ found'[s] = found[s]
      BY <1>5, <2>2 DEF TakeToken, mainvars, Opened
    <3>4. sem'[s] = sem[s] - 1 /\ sem[s] > 0
      BY <1>0, <1>5, <2>2 DEF TakeToken, HasToken, TypeOK
    <3>. QED  BY <1>a, <3>2, <3>3, <3>4
  <2>. QED  BY <2>1, <2>2
<1>6. ASSUME NEW t \in Threads, NEW r \in Names, GiveToken(t, r) PROVE T(s)'
  <2>1. CASE r # s
    <3>1. \A u \in Atoms[s] : tpc'[u] = "barrier" <=> tpc[u] = "barrier"
      BY <1>0, <1>6, <2>1, Kinds DEF GiveToken, TypeOK
    <3>2. sem'[s] = sem[s]
      BY <1>0, <1>6, <2>1 DEF GiveToken, TypeOK
    <3>. QED  BY <1>b, <1>6, <3>1, <3>2 DEF GiveToken, mainvars, Opened
  <2>2. CASE r = s
    <3>1. Holders(s)' = Holders(s) \ {t} /\ t \in Holders(s)
      BY <1>0, <1>6, <2>2, Kinds DEF GiveToken, Leaving, TypeOK, Holders
    <3>2. Cardinality(Holders(s)') = Cardinality(Holders(s)) - 1
      BY <1>a, <3>1, FS_RemoveElement
    <3>3. Opened(s) /\ Opened(s)' /\ found'[s] = found[s]
      BY <1>6, <2>2 DEF GiveToken, mainvars, Opened
    <3>4. sem'[s] = sem[s] + 1
      BY <1>0, <1>6, <2>2 DEF GiveToken, AfterPost, TypeOK
    <3>. QED  BY <1>a, <3>2, <3>3, <3>4
  <2>. QED  BY <2>1, <2>2
<1>7. ASSUME NEW t \in Threads, LockOxygen(t) \/ UnlockOxygen(t) PROVE T(s)'
  <2>1. t \in Oxygen /\ tpc' \in {[tpc EXCEPT ![t] = "barrier"], [tpc EXCEPT ![t] = "done"]}
    BY <1>7 DEF LockOxygen, UnlockOxygen
  <2>2. \A u \in Atoms[s] : tpc'[u] = tpc[u]
    BY <1>0, <2>1, Kinds DEF TypeOK
  <2>. QED  BY <1>b, <1>7, <2>2 DEF LockOxygen, UnlockOxygen, mainvars, Opened
<1>8. ASSUME NEW t \in Threads, InBarrier(t) \/ WokenInBarrier(t) PROVE T(s)'
  BY <1>b, <1>8 DEF InBarrier, WokenInBarrier, mainvars, Opened
<1>9. ASSUME NEW t \in Threads, NEW r \in Names, Fault(t, r) PROVE T(s)'
  BY <1>b, <1>9 DEF Fault, Opened
<1>10. CASE UNCHANGED vars
  BY <1>b, <1>10 DEF vars, mainvars, Opened
<1>. QED
  BY <1>1, <1>2, <1>3, <1>4, <1>5, <1>6, <1>7, <1>8, <1>9, <1>10, Kinds
     DEF Next, Main, Thread, Terminated

(***************************************************************************)
(* The process dies of a closed semaphore only when exit() has been called *)
(* because of an error: otherwise nobody is left to use it.                *)
(***************************************************************************)
LEMMA MainsStep ==
  ASSUME HInv, [Next]_vars
  PROVE  MainInv'
<1>0. TypeOK /\ MainInv
  BY DEF HInv
<1>. USE <1>0 DEF MainInv, FaultsOnlyAfterFailure
<1>1. CASE semaphore_initial("carbon", "hydrogen")
  BY <1>1, Kinds DEF semaphore_initial, Opens, OpenFails, TypeOK
<1>2. CASE semaphore_initial("hydrogen", "create")
  BY <1>2, Kinds DEF semaphore_initial, Opens, OpenFails, TypeOK
<1>3. ASSUME NEW t \in Threads, CreateThread(t) PROVE MainInv'
  BY <1>3 DEF CreateThread, mainvars
<1>4. CASE CreateFails \/ AllCreated \/ Exit
  BY <1>4 DEF CreateFails, AllCreated, Exit
<1>5. CASE JoinAll
  BY <1>5 DEF JoinAll, Joined
<1>6. CASE Close("hydrogen", "close_hydrogen", "close_carbon")
  BY <1>6 DEF Close, TypeOK
<1>7. CASE Close("carbon", "close_carbon", "exit")
  BY <1>7 DEF Close, TypeOK
<1>8. ASSUME NEW t \in Threads, Thread(t), mpc' = mpc, tpc[t] \in {"start", "barrier"},
             UNCHANGED mainvars
      PROVE  MainInv'
  BY <1>8 DEF mainvars
<1>9. ASSUME NEW t \in Threads, NEW s \in Names, TakeToken(t, s) \/ GiveToken(t, s)
      PROVE  MainInv'
  <2>1. tpc[t] \in {"start", "barrier"} /\ UNCHANGED mainvars /\ mpc' = mpc
    BY <1>9 DEF TakeToken, GiveToken, Leaving, mainvars
  <2>2. mpc \notin {"carbon", "hydrogen"}
    BY <2>1
  <2>3. ~ (mpc \in {"close_hydrogen", "close_carbon", "exit", "exited"} /\ exit_code = 0)
    BY <2>1
  <2>. QED  BY <2>1, <2>2, <2>3 DEF mainvars
<1>10. ASSUME NEW t \in Threads, LockOxygen(t) \/ UnlockOxygen(t) PROVE MainInv'
  <2>1. tpc[t] \in {"start", "barrier"} /\ UNCHANGED mainvars /\ mpc' = mpc
    BY <1>10 DEF LockOxygen, UnlockOxygen, Leaving, mainvars
  <2>2. mpc \notin {"carbon", "hydrogen"}
    BY <2>1
  <2>3. ~ (mpc \in {"close_hydrogen", "close_carbon", "exit", "exited"} /\ exit_code = 0)
    BY <2>1
  <2>. QED  BY <2>1, <2>2, <2>3 DEF mainvars
<1>11. ASSUME NEW t \in Threads, InBarrier(t) \/ WokenInBarrier(t) PROVE MainInv'
  BY <1>11 DEF InBarrier, WokenInBarrier, mainvars
<1>12. ASSUME NEW t \in Threads, NEW s \in Names, Fault(t, s), ~ Ended PROVE MainInv'
  <2>1. tpc[t] # "done"
    BY <1>12 DEF Fault, Leaving
  <2>2. handle[s] = "null" \/ mpc \in {"close_carbon", "exit"}
    BY <1>12 DEF Fault, Ended
  <2>3. handle[s] = "null" \/ exit_code = 1
    BY <2>1, <2>2 DEF TypeOK
  <2>. QED  BY <1>12, <2>3 DEF Fault
<1>13. CASE UNCHANGED vars
  BY <1>13 DEF vars, mainvars
<1>. QED
  BY <1>1, <1>2, <1>3, <1>4, <1>5, <1>6, <1>7, <1>9, <1>10, <1>11, <1>12, <1>13, Kinds
     DEF Next, Main, Thread, Terminated

(***************************************************************************)
(* A round is completed when the barrier is full and everybody of the one  *)
(* before is gone; it lets go of everybody inside.                         *)
(***************************************************************************)
LEMMA RoundCompletes ==
  ASSUME HInv, NEW t \in Threads, ArriveLast(t)
  PROVE  /\ Released(water_barrier) = {}
         /\ Released(water_barrier)' = Inside(water_barrier)
         /\ Cardinality(Inside(water_barrier)) = barrier_thread_limit[water_barrier]
         /\ barrier_round'[water_barrier] = NextRound(barrier_round[water_barrier])
<1>0. BarrierInv /\ BarrierTypeOK /\ at[t] = water_barrier /\ water_barrier \in Barriers
  BY Kinds DEF HInv, BarrierInv, BarrierTypeOK
<1>1. bpc[t] = "arrive" /\ CompletesRound(at[t])
  BY DEF ArriveLast
<1>2. /\ Inside(water_barrier) = Gathering(water_barrier) \cup {t}
      /\ t \notin Gathering(water_barrier)
      /\ Cardinality(Gathering(water_barrier)) + 1 = barrier_thread_limit[water_barrier]
  BY <1>0, <1>1, LastCallerMeetsAll
<1>3. Cardinality(Inside(water_barrier)) = Cardinality(Gathering(water_barrier)) + 1
  <2>1. IsFiniteSet(Gathering(water_barrier))
    BY <1>0, InsideFinite
  <2>2. Cardinality(Gathering(water_barrier) \cup {t})
          = Cardinality(Gathering(water_barrier)) + 1
    BY ONLY <1>2, <2>1, FS_AddElement
  <2>. QED  BY ONLY <1>2, <2>2
<1>4. /\ Released(water_barrier) = {}
      /\ Released(water_barrier)' = Gathering(water_barrier) \cup {t}
  BY <1>0, Kinds, ReleasedStep
<1>5. barrier_round'[water_barrier] = NextRound(barrier_round[water_barrier])
  BY <1>0, Kinds DEF ArriveLast, BarrierTypeOK
<1>. QED  BY <1>2, <1>3, <1>4, <1>5

(***************************************************************************)
(* No other step inside barrier_wait completes a round, and none but       *)
(* Unlock lets a thread out.                                               *)
(***************************************************************************)
LEMMA RoundGoesOn ==
  ASSUME HInv, NEW t \in Threads, BarrierWait(t), ~ ArriveLast(t)
  PROVE  /\ barrier_round' = barrier_round
         /\ \/ Released(water_barrier)' = Released(water_barrier) /\ ~ Unlock(t)
            \/ /\ Unlock(t) /\ t \in Released(water_barrier) /\ bpc'[t] = "out"
               /\ Released(water_barrier)' = Released(water_barrier) \ {t}
<1>0. BarrierInv /\ BarrierTypeOK /\ at[t] = water_barrier
  BY Kinds DEF HInv, BarrierInv, BarrierTypeOK
<1>1. barrier_round' = barrier_round
  BY DEF BarrierWait, BarrierStep, Lock, ArriveWait, Relock, WaitAgain, LeaveLoop,
         Unlock, SpuriousWakeup
<1>2. CASE Unlock(t)
  <2>1. bpc[t] = "unlock" /\ bpc'[t] = "out"
    BY <1>0, <1>2 DEF Unlock, BarrierTypeOK
  <2>2. t \in Released(water_barrier)
    BY <1>0, <2>1 DEF Released
  <2>. QED  BY <1>0, <1>1, <1>2, <2>1, <2>2, Kinds, ReleasedStep
<1>3. CASE ~ Unlock(t)
  BY <1>0, <1>1, <1>3, Kinds, ReleasedStep DEF BarrierWait, BarrierStep
<1>. QED  BY <1>2, <1>3

-----------------------------------------------------------------------------
(***************************************************************************)
(* The successor of a remainder.                                           *)
(***************************************************************************)
LEMMA QuotientRemainder ==
  ASSUME NEW R \in Nat \ {0}, NEW n \in Nat
  PROVE  /\ n % R \in 0 .. R - 1
         /\ n \div R \in Int
         /\ n = R * (n \div R) + (n % R)
OBVIOUS

LEMMA RemainderUnique ==
  ASSUME NEW R \in Nat \ {0}, NEW q \in Int, NEW r \in 0 .. R - 1
  PROVE  (R * q + r) % R = r
OBVIOUS

LEMMA NextRemainder ==
  ASSUME NEW R \in Nat \ {0}, NEW n \in Nat
  PROVE  (n + 1) % R = ((n % R) + 1) % R
<1>. DEFINE r == n % R
            q == n \div R
<1>1. r \in 0 .. R - 1 /\ q \in Int /\ n = R * q + r
  BY QuotientRemainder
<1>. HIDE DEF r, q
<1>2. CASE r + 1 < R
  <2>1. n + 1 = R * q + (r + 1) /\ r + 1 \in 0 .. R - 1
    BY <1>1, <1>2
  <2>2. (n + 1) % R = r + 1
    BY <1>1, <2>1, RemainderUnique
  <2>3. (R * 0 + (r + 1)) % R = r + 1
    BY <2>1, RemainderUnique
  <2>4. R * 0 + (r + 1) = r + 1
    BY <2>1
  <2>. QED  BY <2>2, <2>3, <2>4 DEF r
<1>3. CASE r + 1 = R
  <2>1. n + 1 = R * (q + 1) + 0 /\ q + 1 \in Int /\ 0 \in 0 .. R - 1
    BY <1>1, <1>3
  <2>2. (n + 1) % R = 0
    <3>1. (R * (q + 1) + 0) % R = 0
      BY <2>1, RemainderUnique
    <3>. QED  BY <2>1, <3>1
  <2>3. (R * 1 + 0) % R = 0
    BY RemainderUnique
  <2>4. R * 1 + 0 = r + 1
    BY <1>3
  <2>. QED  BY <2>2, <2>3, <2>4 DEF r
<1>. QED  BY <1>1, <1>2, <1>3

(***************************************************************************)
(* One oxygen at most has been let go and has not counted its molecule.    *)
(***************************************************************************)
LEMMA UncountedOne ==
  ASSUME HInv
  PROVE  /\ \A t \in Uncounted : t = oxygen_mutex
         /\ Uncounted = {} \/ Uncounted = {oxygen_mutex}
         /\ Cardinality(Uncounted) \in 0 .. 1
<1>1. \A t \in Uncounted : t = oxygen_mutex
  BY Kinds DEF HInv, BodiesInv, Uncounted, Leaving, Released, Waiting
<1>2. Uncounted = {} \/ Uncounted = {oxygen_mutex}
  BY <1>1
<1>3. Cardinality(Uncounted) \in 0 .. 1
  BY <1>2, FS_EmptySet, FS_Singleton
<1>. QED  BY <1>1, <1>2, <1>3

LEMMA ReactedFinite ==
  /\ Reacted \in SUBSET Threads
  /\ IsFiniteSet(Reacted) /\ Cardinality(Reacted) \in Nat
<1>1. Reacted \in SUBSET Threads
  BY Kinds DEF Reacted
<1>. QED  BY <1>1, FiniteThreads

(***************************************************************************)
(* A molecule is made when the barrier completes a round, waits to be      *)
(* counted while its oxygen is on the way out, and is counted under the    *)
(* oxygen mutex.                                                           *)
(***************************************************************************)
LEMMA MoleculeStep ==
  ASSUME HInv, [Next]_vars
  PROVE  MoleculeInv'
<1>. DEFINE n == num_of_water_molecules
            u == Cardinality(Uncounted)
            r == barrier_round[water_barrier]
<1>0. TypeOK /\ BarrierTypeOK /\ BodiesInv /\ MoleculeInv
  BY DEF HInv, TypeOK
<1>a. /\ n \in Nat /\ n = Cardinality(Reacted) /\ u \in 0 .. 1
      /\ (n + u) % RoundMod = r
  BY <1>0, UncountedOne DEF TypeOK, MoleculeInv
<1>b. ASSUME n' = n, Reacted' = Reacted, Uncounted' = Uncounted, r' = r
      PROVE  MoleculeInv'
  BY <1>a, <1>b DEF MoleculeInv
<1>c. ASSUME UNCHANGED bvars
      PROVE  r' = r /\ Released(water_barrier)' = Released(water_barrier)
  BY <1>c DEF bvars, Released
<1>d. ASSUME UNCHANGED <<bvars, tpc, num_of_water_molecules>>
      PROVE  MoleculeInv'
  <2>1. Reacted' = Reacted /\ Uncounted' = Uncounted
    BY <1>c, <1>d DEF Reacted, Uncounted, Leaving, bvars
  <2>. QED  BY <1>b, <1>c, <1>d, <2>1
<1>1. ASSUME NEW s \in Names, NEW next, semaphore_initial(s, next) PROVE MoleculeInv'
  BY <1>1, <1>d DEF semaphore_initial
<1>2. ASSUME NEW t \in Threads, CreateThread(t) PROVE MoleculeInv'
  <2>1. tpc[t] = "unborn" /\ tpc' = [tpc EXCEPT ![t] = "start"]
    BY <1>2 DEF CreateThread, NextToCreate
  <2>2. Reacted' = Reacted
    BY <1>0, <2>1, Kinds DEF Reacted, TypeOK
  <2>3. Released(water_barrier)' = Released(water_barrier) /\ r' = r
    BY <1>2, <1>c DEF CreateThread
  <2>4. Uncounted' = Uncounted
    BY <1>0, <1>2, <2>1, <2>3, Kinds DEF Uncounted, Leaving, TypeOK, CreateThread, bvars
  <2>. QED  BY <1>2, <1>b, <2>2, <2>3, <2>4 DEF CreateThread
<1>3. CASE CreateFails \/ AllCreated \/ JoinAll \/ Exit
  BY <1>3, <1>d DEF CreateFails, AllCreated, JoinAll, Exit
<1>4. ASSUME NEW s \in Names, NEW here, NEW next, Close(s, here, next) PROVE MoleculeInv'
  BY <1>4, <1>d DEF Close
<1>5. ASSUME NEW t \in Threads,
             \/ LockOxygen(t)
             \/ \E s \in Names : TakeToken(t, s)
      PROVE  MoleculeInv'
  <2>1. /\ tpc[t] = "start" /\ tpc' = [tpc EXCEPT ![t] = "barrier"]
        /\ Enter(t, water_barrier) /\ n' = n
    BY <1>5 DEF LockOxygen, TakeToken
  <2>2. Released(water_barrier)' = Released(water_barrier) /\ r' = r
    BY <1>0, <2>1 DEF Enter, Released, Waiting, BarrierTypeOK
  <2>3. Reacted' = Reacted
    BY <1>0, <2>1, Kinds DEF Reacted, TypeOK
  <2>4. Uncounted' = Uncounted
    BY <1>0, <2>1, <2>2, Kinds DEF Uncounted, Leaving, Enter, TypeOK, BarrierTypeOK
  <2>. QED  BY <1>b, <2>1, <2>2, <2>3, <2>4
<1>6. ASSUME NEW t \in Threads, NEW s \in Names, GiveToken(t, s) PROVE MoleculeInv'
  <2>1. t \notin Oxygen /\ tpc' = [tpc EXCEPT ![t] = "done"] /\ n' = n
    BY <1>6, Kinds DEF GiveToken
  <2>2. Released(water_barrier)' = Released(water_barrier) /\ r' = r
    BY <1>6, <1>c DEF GiveToken
  <2>3. Reacted' = Reacted
    BY <1>0, <2>1, Kinds DEF Reacted, TypeOK
  <2>4. Uncounted' = Uncounted
    BY <1>0, <1>6, <2>1, <2>2, Kinds DEF Uncounted, Leaving, GiveToken, TypeOK, bvars
  <2>. QED  BY <1>b, <2>1, <2>2, <2>3, <2>4
<1>7. ASSUME NEW t \in Threads, UnlockOxygen(t) PROVE MoleculeInv'
  <2>1. /\ t \in Oxygen /\ tpc[t] = "barrier" /\ bpc[t] = "out" /\ n' = n + 1
        /\ tpc' = [tpc EXCEPT ![t] = "done"] /\ UNCHANGED bvars
    BY <1>7 DEF UnlockOxygen, Leaving, Counted
  <2>2. Released(water_barrier)' = Released(water_barrier) /\ r' = r
    BY <2>1, <1>c
  <2>3. t \in Uncounted /\ Uncounted = {t}
    <3>1. t \in Uncounted
      BY <2>1 DEF Uncounted, Leaving
    <3>. QED  BY <3>1, UncountedOne
  <2>4. t \notin Released(water_barrier)
    BY <2>1 DEF Released, Waiting
  <2>5. Uncounted' = {}
    <3>1. ~ Leaving(t)' /\ \A w \in Threads \ {t} : Leaving(w)' <=> Leaving(w)
      BY <1>0, <2>1, Kinds DEF Leaving, TypeOK, bvars
    <3>. QED  BY <2>2, <2>3, <2>4, <3>1, Kinds DEF Uncounted
  <2>6. Reacted' = Reacted \cup {t} /\ t \notin Reacted
    BY <1>0, <2>1, Kinds DEF Reacted, TypeOK
  <2>7. Cardinality(Reacted') = Cardinality(Reacted) + 1
    BY <2>6, ReactedFinite, FS_AddElement
  <2>8. u = 1 /\ u' = 0
    BY <2>3, <2>5, FS_EmptySet, FS_Singleton
  <2>9. n' + u' = n + u
    BY <1>a, <2>1, <2>8
  <2>10. n' = Cardinality(Reacted')
    BY <1>a, <2>1, <2>7
  <2>. QED  BY <1>a, <2>2, <2>9, <2>10 DEF MoleculeInv
<1>8. ASSUME NEW t \in Threads, InBarrier(t) \/ WokenInBarrier(t) PROVE MoleculeInv'
  <2>0. BarrierWait(t) /\ tpc' = tpc /\ n' = n
    BY <1>8 DEF InBarrier, WokenInBarrier, BarrierWait
  <2>1. Reacted' = Reacted
    BY <2>0 DEF Reacted
  <2>2. CASE ArriveLast(t)
    <3>1. /\ Released(water_barrier) = {}
          /\ Released(water_barrier)' = Inside(water_barrier)
          /\ Cardinality(Inside(water_barrier)) = barrier_thread_limit[water_barrier]
          /\ r' = NextRound(r)
      BY <2>2, RoundCompletes
    <3>2. Cardinality(Inside(water_barrier) \cap Oxygen) = 1
      BY <3>1, FullBarrier
    <3>3. Inside(water_barrier) \cap Oxygen # {}
      BY <3>2, FS_EmptySet
    <3>4. PICK o \in Oxygen : o \in Inside(water_barrier)
      BY <3>3
    <3>5. tpc[o] = "barrier" /\ bpc[o] # "out" /\ o = oxygen_mutex
      BY <1>0, <3>4, Kinds DEF Inside, BodiesInv
    <3>6. Uncounted = {}
      <4>1. o \notin Uncounted
        BY <3>1, <3>5 DEF Uncounted, Leaving
      <4>. QED  BY <4>1, <3>5, UncountedOne
    <3>7. \A w \in Threads : ~ Leaving(w)' \/ w \notin Oxygen
      <4>1. \A w \in Threads : bpc'[w] = "out" => bpc[w] = "out"
        <5>1. ~ Unlock(t)
          BY <2>2 DEF ArriveLast, Unlock
        <5>. QED  BY <1>0, <2>0, <5>1, InsideSteps
      <4>. QED  BY <2>0, <3>6, <4>1 DEF Uncounted, Leaving
    <3>8. Uncounted' = Inside(water_barrier) \cap Oxygen
      BY <3>1, <3>7, Kinds DEF Uncounted, Inside
    <3>9. u = 0 /\ u' = 1
      BY <3>2, <3>6, <3>8, FS_EmptySet
    <3>10. n % RoundMod = r
      BY <1>a, <3>9
    <3>11. (n + 1) % RoundMod = (r + 1) % RoundMod
      BY <1>a, <3>10, NextRemainder, Limit
    <3>12. n' + u' = n + 1
      BY <2>0, <3>9
    <3>. QED  BY <1>a, <2>0, <2>1, <3>1, <3>11, <3>12 DEF MoleculeInv, NextRound
  <2>3. CASE ~ ArriveLast(t) /\ ~ Unlock(t)
    <3>1. Released(water_barrier)' = Released(water_barrier) /\ r' = r
      BY <2>0, <2>3, RoundGoesOn
    <3>2. \A w \in Threads : bpc'[w] = "out" <=> bpc[w] = "out"
      BY <1>0, <2>0, <2>3, InsideSteps
    <3>3. Uncounted' = Uncounted
      BY <2>0, <3>1, <3>2, Kinds DEF Uncounted, Leaving
    <3>. QED  BY <1>b, <2>0, <2>1, <3>1, <3>3
  <2>4. CASE Unlock(t)
    <3>0. ~ ArriveLast(t)
      BY <2>4 DEF ArriveLast, Unlock
    <3>1. /\ Released(water_barrier)' = Released(water_barrier) \ {t}
          /\ t \in Released(water_barrier) /\ bpc'[t] = "out" /\ r' = r
      BY <2>0, <2>4, <3>0, RoundGoesOn
    <3>2. tpc[t] = "barrier"
      BY <1>0, <2>4 DEF BodiesInv, Unlock
    <3>3. \A w \in Threads \ {t} : bpc'[w] = "out" <=> bpc[w] = "out"
      BY <1>0, <2>0, InsideSteps
    <3>4. Uncounted' = Uncounted
      BY <2>0, <3>1, <3>2, <3>3, Kinds DEF Uncounted, Leaving
    <3>. QED  BY <1>b, <2>0, <2>1, <3>1, <3>4
  <2>. QED  BY <2>2, <2>3, <2>4
<1>9. ASSUME NEW t \in Threads, NEW s \in Names, Fault(t, s) PROVE MoleculeInv'
  BY <1>9, <1>d DEF Fault
<1>10. CASE UNCHANGED vars
  BY <1>10, <1>d DEF vars
<1>. QED
  BY <1>1, <1>2, <1>3, <1>4, <1>5, <1>6, <1>7, <1>8, <1>9, <1>10, Kinds
     DEF Next, Main, Thread, Terminated

(***************************************************************************)
(* When a semaphore was opened with less than a molecule takes, the        *)
(* barrier cannot fill up, and nobody ever comes out of it.                *)
(***************************************************************************)
LEMMA ShortStep ==
  ASSUME HInv, [Next]_vars
  PROVE  ShortInv'
<1>. DEFINE Nobody == /\ Released(water_barrier) = {}
                      /\ \A t \in Threads : tpc[t] # "done" /\ ~ Leaving(t)
<1>0. TypeOK /\ BarrierTypeOK /\ BodiesInv /\ TokensInv
  BY DEF HInv, TypeOK
<1>. SUFFICES ASSUME NEW s \in Names, Opened(s)', found'[s] < Tokens[s]
              PROVE  Nobody'
  BY DEF ShortInv
<1>a. ASSUME Opened(s), found'[s] = found[s]
      PROVE  Nobody /\ Cardinality(Holders(s)) # Tokens[s]
  <2>1. Nobody
    BY <1>a DEF HInv, ShortInv
  <2>2. /\ sem[s] \in Nat /\ sem[s] + Cardinality(Holders(s)) = found[s]
        /\ found[s] < Tokens[s]
    BY <1>0, <1>a DEF TokensInv
  <2>3. Tokens[s] \in Nat /\ Cardinality(Holders(s)) \in Nat
    <3>1. Holders(s) \in SUBSET Threads
      BY Kinds DEF Holders
    <3>. QED  BY <3>1, FiniteThreads, Kinds
  <2>. QED  BY <2>1, <2>2, <2>3
<1>b. ASSUME Nobody, UNCHANGED <<bvars, tpc>> PROVE Nobody'
  <2>1. Released(water_barrier)' = Released(water_barrier)
    BY <1>b DEF bvars, Released
  <2>. QED  BY <1>b, <2>1 DEF Leaving, bvars
<1>c. ASSUME handle' = handle, found' = found
      PROVE  Nobody /\ Cardinality(Holders(s)) # Tokens[s]
  BY <1>a, <1>c DEF Opened
<1>1. ASSUME NEW r \in Names, NEW next, semaphore_initial(r, next) PROVE Nobody'
  <2>1. \A t \in Threads : tpc[t] = "unborn" /\ bpc[t] = "out"
    BY <1>0, <1>1, Kinds DEF semaphore_initial, HInv, MainInv, BodiesInv
  <2>2. Released(water_barrier) = {}
    BY <2>1 DEF Released, Waiting
  <2>3. Nobody
    BY <2>1, <2>2 DEF Leaving
  <2>. QED  BY <1>1, <1>b, <2>3 DEF semaphore_initial
<1>2. ASSUME NEW t \in Threads, CreateThread(t) PROVE Nobody'
  <2>1. Nobody /\ tpc' = [tpc EXCEPT ![t] = "start"] /\ UNCHANGED bvars
    BY <1>2, <1>c DEF CreateThread, mainvars
  <2>2. Released(water_barrier)' = Released(water_barrier)
    BY <2>1 DEF bvars, Released
  <2>. QED  BY <1>0, <2>1, <2>2 DEF Leaving, bvars, TypeOK
<1>3. CASE CreateFails \/ AllCreated \/ JoinAll \/ Exit
  BY <1>3, <1>b, <1>c DEF CreateFails, AllCreated, JoinAll, Exit
<1>4. ASSUME NEW r \in Names, NEW here, NEW next, Close(r, here, next) PROVE Nobody'
  <2>1. Opened(s) /\ found'[s] = found[s]
    BY <1>0, <1>4 DEF Close, Opened, TypeOK
  <2>. QED  BY <1>4, <1>a, <1>b, <2>1 DEF Close
<1>5. ASSUME NEW t \in Threads,
             \/ LockOxygen(t)
             \/ \E r \in Names : TakeToken(t, r)
      PROVE  Nobody'
  <2>1. /\ Nobody /\ tpc' = [tpc EXCEPT ![t] = "barrier"] /\ Enter(t, water_barrier)
    BY <1>5, <1>c DEF LockOxygen, TakeToken, mainvars
  <2>2. Released(water_barrier)' = Released(water_barrier)
    BY <1>0, <2>1 DEF Enter, Released, Waiting, BarrierTypeOK
  <2>3. bpc' = [bpc EXCEPT ![t] = "lock"]
    BY <2>1 DEF Enter
  <2>. QED  BY <1>0, <2>1, <2>2, <2>3 DEF Leaving, TypeOK, BarrierTypeOK
<1>6. ASSUME NEW t \in Threads,
             \/ UnlockOxygen(t)
             \/ \E r \in Names : GiveToken(t, r)
      PROVE  FALSE
  <2>1. Leaving(t) /\ handle' = handle /\ found' = found
    BY <1>6 DEF UnlockOxygen, GiveToken, mainvars
  <2>. QED  BY <1>c, <2>1
<1>7. ASSUME NEW t \in Threads, InBarrier(t) \/ WokenInBarrier(t) PROVE Nobody'
  <2>0. BarrierWait(t) /\ tpc' = tpc /\ Nobody /\ Cardinality(Holders(s)) # Tokens[s]
    BY <1>7, <1>c DEF InBarrier, WokenInBarrier, BarrierWait, mainvars
  <2>1. ~ ArriveLast(t)
    BY <2>0, RoundCompletes, FullBarrier
  <2>2. Released(water_barrier)' = Released(water_barrier) /\ ~ Unlock(t)
    BY <2>0, <2>1, RoundGoesOn
  <2>3. \A w \in Threads : bpc'[w] = "out" => bpc[w] = "out"
    BY <1>0, <2>0, <2>2, InsideSteps
  <2>. QED  BY <2>0, <2>2, <2>3 DEF Leaving
<1>8. ASSUME NEW t \in Threads, NEW r \in Names, Fault(t, r) PROVE Nobody'
  BY <1>8, <1>b, <1>c DEF Fault
<1>9. CASE UNCHANGED vars
  BY <1>9, <1>b, <1>c DEF vars, mainvars
<1>. QED
  BY <1>1, <1>2, <1>3, <1>4, <1>5, <1>6, <1>7, <1>8, <1>9, Kinds
     DEF Next, Main, Thread, Terminated

LEMMA HInvStep ==
  ASSUME HInv, [Next]_vars
  PROVE  HInv'
<1>1. BarrierInv'
  BY BarrierSteps, BarrierInvStep DEF HInv
<1>. QED
  BY <1>1, TypesStep, BodiesStep, TokensStep, MainsStep, MoleculeStep, ShortStep DEF HInv

(***************************************************************************)
(* The invariant holds of the program for any number of atoms.             *)
(***************************************************************************)
THEOREM H2OInvariant == SafetySpec => []HInv
<1>1. Init => HInv
  BY InitStarted, StartInv
<1>2. HInv /\ [Next]_vars => HInv'
  BY HInvStep
<1>. QED  BY <1>1, <1>2, PTL DEF SafetySpec

-----------------------------------------------------------------------------
(***************************************************************************)
(* The three counts of the program agree.                                  *)
(***************************************************************************)
LEMMA InvTally ==
  ASSUME HInv
  PROVE  Tally
<1>1. TokensConserved
  BY DEF HInv, TokensInv, TokensConserved, Opened
<1>2. Cardinality(Uncounted) <= 1
  BY UncountedOne
<1>. QED  BY <1>1, <1>2 DEF HInv, Tally, MoleculesCounted, MoleculeInv

(***************************************************************************)
(* A run that ends without an error has made as many molecules as there    *)
(* are oxygens, and given back all it took.                                *)
(***************************************************************************)
LEMMA InvFinishesClean ==
  ASSUME HInv
  PROVE  FinishesClean
<1>. SUFFICES ASSUME mpc = "exited", exit_code = 0
              PROVE  /\ \A t \in Threads : tpc[t] = "done"
                     /\ num_of_water_molecules = Cardinality(Oxygen)
                     /\ \A s \in Names : sem[s] = found[s]
  BY DEF FinishesClean
<1>1. \A t \in Threads : tpc[t] = "done"
  BY DEF HInv, MainInv
<1>2. num_of_water_molecules = Cardinality(Oxygen)
  <2>1. Reacted = Oxygen
    BY <1>1, Kinds DEF Reacted
  <2>. QED  BY <2>1 DEF HInv, MoleculeInv
<1>3. ASSUME NEW s \in Names PROVE sem[s] = found[s]
  <2>1. Opened(s)
    BY <1>1, Kinds DEF HInv, BodiesInv
  <2>2. Holders(s) = {}
    BY <1>1, Kinds DEF Holders
  <2>3. sem[s] \in Nat /\ sem[s] + Cardinality(Holders(s)) = found[s]
    BY <2>1 DEF HInv, TokensInv
  <2>. QED  BY <2>2, <2>3, FS_EmptySet
<1>. QED  BY <1>1, <1>2, <1>3

(***************************************************************************)
(* The tokens, the molecules and the rounds of the barrier are counted     *)
(* right at every point where another thread can run (h2o.c:49-123).       *)
(***************************************************************************)
THEOREM AtomsTally == SafetySpec => []Tally
<1>1. HInv => Tally
  BY InvTally
<1>. QED  BY <1>1, H2OInvariant, PTL

(***************************************************************************)
(* A run that ends well used up every atom and leaves the semaphores as it *)
(* found them (h2o.c:205-217).                                             *)
(***************************************************************************)
THEOREM CleanFinish == SafetySpec => []FinishesClean
<1>1. HInv => FinishesClean
  BY InvFinishesClean
<1>. QED  BY <1>1, H2OInvariant, PTL

(***************************************************************************)
(* No thread meets a closed or missing semaphore unless something failed   *)
(* before (h2o.c:49-97, 125-148).                                          *)
(***************************************************************************)
THEOREM FaultsFollowFailure == SafetySpec => []FaultsOnlyAfterFailure
<1>1. HInv => FaultsOnlyAfterFailure
  BY DEF HInv, MainInv
<1>. QED  BY <1>1, H2OInvariant, PTL

(***************************************************************************)
(* The atoms call barrier_wait only as the barrier allows: their program   *)
(* implements the barrier with its most general caller, and with it the    *)
(* abstract barrier.                                                       *)
(***************************************************************************)
THEOREM AtomsKeepDiscipline == SafetySpec => BarrierSafetySpec /\ ImplementsRendezvous
<1>1. Init => BarrierInit
  BY DEF Init
<1>2. HInv /\ [Next]_vars => [BarrierNext]_bvars
  BY BarrierSteps
<1>3. SafetySpec => BarrierSafetySpec
  BY <1>1, <1>2, H2OInvariant, PTL DEF SafetySpec, BarrierSafetySpec
<1>. QED  BY <1>3, BarrierRefinement

-----------------------------------------------------------------------------
(***************************************************************************)
(* Runs of the program one after the other: the invariant of H2O is one of *)
(* every process, however few tokens those before it have left.            *)
(***************************************************************************)
RestartInv == HInv /\ runs \in Nat

-----------------------------------------------------------------------------
(***************************************************************************)
(* A process that is killed leaves no semaphore with more than its initial *)
(* value.                                                                  *)
(***************************************************************************)
LEMMA NoTokenMade ==
  ASSUME HInv, NEW s \in Names
  PROVE  /\ sem[s] = Absent \/ sem[s] \in 0 .. Tokens[s]
         /\ sem[s] # Absent =>
              sem[s] + (IF handle[s] = "unset" THEN 0 ELSE Cardinality(Holders(s)))
                <= Tokens[s]
<1>1. /\ Holders(s) \in SUBSET Threads /\ Cardinality(Holders(s)) \in Nat
      /\ Tokens[s] \in Nat
  <2>1. Holders(s) \in SUBSET Threads
    BY Kinds DEF Holders
  <2>. QED  BY <2>1, FiniteThreads, Kinds
<1>2. sem[s] \in Nat \cup {Absent}
  BY DEF HInv, TypeOK
<1>3. CASE Opened(s)
  <2>1. /\ sem[s] \in Nat /\ sem[s] + Cardinality(Holders(s)) = found[s]
        /\ found[s] <= Tokens[s]
    BY <1>3 DEF HInv, TokensInv
  <2>. QED  BY <1>1, <2>1
<1>4. CASE ~ Opened(s)
  <2>1. Holders(s) = {}
    BY <1>4, Kinds DEF HInv, BodiesInv, Holders
  <2>2. Cardinality(Holders(s)) = 0
    BY <2>1, FS_EmptySet
  <2>3. sem[s] # Absent => sem[s] <= Tokens[s]
    BY <1>4 DEF HInv, TokensInv
  <2>. QED  BY <1>1, <1>2, <2>2, <2>3
<1>. QED  BY <1>3, <1>4

LEMMA RerunStarts ==
  ASSUME HInv, Rerun
  PROVE  Started'
<1>1. /\ \A s \in Names : sem[s] = Absent \/ sem[s] \in 0 .. Tokens[s]
      /\ sem \in [Names -> Nat \cup {Absent}] /\ sem' = sem
  BY NoTokenMade DEF HInv, TypeOK, Rerun
<1>2. BarrierInit'
  BY Kinds DEF Rerun, BarrierInit
<1>. QED  BY <1>1, <1>2 DEF Rerun, Started

(***************************************************************************)
(* The invariant of a process holds of every run.                          *)
(***************************************************************************)
THEOREM RestartInvariant == RestartSafetySpec => []RestartInv
<1>1. RestartInit => RestartInv
  BY InitStarted, StartInv DEF RestartInit, RestartInv
<1>2. RestartInv /\ [RestartNext]_rvars => RestartInv'
  <2>. SUFFICES ASSUME RestartInv, [RestartNext]_rvars PROVE RestartInv'
    OBVIOUS
  <2>1. CASE Next /\ UNCHANGED runs
    BY <2>1, HInvStep DEF RestartInv
  <2>2. CASE Rerun
    <3>1. Started'
      BY <2>2, RerunStarts DEF RestartInv
    <3>2. HInv'
      BY <3>1, StartInv, PTL
    <3>. QED  BY <2>2, <3>2 DEF RestartInv, Rerun
  <2>3. CASE UNCHANGED rvars
    <3>1. UNCHANGED vars /\ runs' = runs
      BY <2>3 DEF rvars
    <3>. QED  BY <3>1, HInvStep DEF RestartInv
  <2>. QED  BY <2>1, <2>2, <2>3 DEF RestartNext
<1>. QED  BY <1>1, <1>2, PTL DEF RestartSafetySpec

-----------------------------------------------------------------------------
(***************************************************************************)
(* The counts agree in every run, on whatever semaphores it was started.   *)
(***************************************************************************)
THEOREM RestartTally == RestartSafetySpec => []Tally
<1>1. RestartInv => Tally
  BY InvTally DEF RestartInv
<1>. QED  BY <1>1, RestartInvariant, PTL

(***************************************************************************)
(* Every run that ends well has used up its atoms and leaves the           *)
(* semaphores as it found them, even if it found them short.               *)
(***************************************************************************)
THEOREM RestartFinishesClean ==
  RestartSafetySpec => [](FinishesClean /\ FaultsOnlyAfterFailure)
<1>1. RestartInv => FinishesClean /\ FaultsOnlyAfterFailure
  BY InvFinishesClean DEF RestartInv, HInv, MainInv
<1>. QED  BY <1>1, RestartInvariant, PTL

(***************************************************************************)
(* However many processes are killed, a semaphore never lets in more atoms *)
(* than a molecule takes (h2o.c:125-138: O_CREAT keeps an old value).      *)
(***************************************************************************)
THEOREM KillsMakeNoTokens == RestartSafetySpec => []TokensNeverGained
<1>1. RestartInv => TokensNeverGained
  BY NoTokenMade DEF RestartInv, TokensNeverGained
<1>. QED  BY <1>1, RestartInvariant, PTL

(***************************************************************************)
(* A run that found too few tokens makes no molecule, nor lets any thread  *)
(* out of the barrier.                                                     *)
(***************************************************************************)
THEOREM ShortRuns == RestartSafetySpec => []ShortRunsMakeNothing
<1>1. RestartInv => ShortRunsMakeNothing
  <2>. SUFFICES ASSUME RestartInv, Short
                PROVE  /\ num_of_water_molecules = 0
                       /\ Released(water_barrier) = {}
                       /\ \A t \in Threads : tpc[t] # "done"
    BY DEF ShortRunsMakeNothing
  <2>1. Released(water_barrier) = {} /\ \A t \in Threads : tpc[t] # "done"
    BY DEF Short, RestartInv, HInv, ShortInv, Opened
  <2>2. Reacted = {}
    BY <2>1, Kinds DEF Reacted
  <2>. QED  BY <2>1, <2>2, FS_EmptySet DEF RestartInv, HInv, MoleculeInv
<1>. QED  BY <1>1, RestartInvariant, PTL

(***************************************************************************)
(* Every round of water_barrier lets go of exactly one molecule (h2o.c:    *)
(* 33-47), whatever tokens an earlier run has taken along.                 *)
(***************************************************************************)
LEMMA RoundsAreMolecules ==
  ASSUME HInv, [Next]_vars, barrier_round' # barrier_round
  PROVE  Molecule'
<1>1. PICK t \in Threads : ArriveLast(t)
  <2>1. UNCHANGED bvars \/ BarrierNext
    BY BarrierSteps
  <2>2. BarrierNext
    BY <2>1 DEF bvars
  <2>3. PICK t \in Threads : BarrierWait(t) \/ \E b \in Barriers : Call(t, b)
    BY <2>2 DEF BarrierNext
  <2>4. BarrierWait(t)
    BY <2>3 DEF Call, Enter
  <2>. QED  BY <2>4, RoundGoesOn
<1>2. /\ Released(water_barrier)' = Inside(water_barrier)
      /\ Cardinality(Inside(water_barrier)) = barrier_thread_limit[water_barrier]
  BY <1>1, RoundCompletes
<1>3. /\ Cardinality(Inside(water_barrier) \cap Oxygen) = 1
      /\ \A s \in Names : Cardinality(Inside(water_barrier) \cap Atoms[s]) = Tokens[s]
  BY <1>2, FullBarrier
<1>. QED  BY <1>2, <1>3 DEF Molecule

THEOREM EveryRoundAMolecule == RestartSafetySpec => MoleculeComposition
<1>1. RestartInv /\ [RestartNext]_rvars =>
        [runs' = runs /\ barrier_round' # barrier_round => Molecule']_rvars
  <2>. SUFFICES ASSUME RestartInv, [RestartNext]_rvars, runs' = runs,
                       barrier_round' # barrier_round
                PROVE  Molecule'
    OBVIOUS
  <2>1. ~ Rerun
    BY DEF RestartInv, Rerun
  <2>2. [Next]_vars
    BY <2>1 DEF RestartNext, rvars
  <2>. QED  BY <2>2, RoundsAreMolecules DEF RestartInv
<1>. QED  BY <1>1, RestartInvariant, PTL DEF RestartSafetySpec, MoleculeComposition

(***************************************************************************)
(* Within a run the atoms use the barrier as CvBarrier allows.             *)
(***************************************************************************)
THEOREM RestartKeepsDiscipline == RestartSafetySpec => UsesBarrier
<1>1. RestartInit => BarrierInit
  BY DEF RestartInit, Init
<1>2. RestartInv /\ [RestartNext]_rvars => [runs' = runs => [BarrierNext]_bvars]_rvars
  <2>. SUFFICES ASSUME RestartInv, [RestartNext]_rvars, runs' = runs
                PROVE  [BarrierNext]_bvars
    OBVIOUS
  <2>1. ~ Rerun
    BY DEF RestartInv, Rerun
  <2>2. [Next]_vars
    BY <2>1 DEF RestartNext, rvars
  <2>. QED  BY <2>2, BarrierSteps DEF RestartInv
<1>. QED  BY <1>1, <1>2, RestartInvariant, PTL DEF RestartSafetySpec, UsesBarrier
=============================================================================
