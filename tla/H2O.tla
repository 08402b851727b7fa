--------------------------------- MODULE H2O ---------------------------------
(***************************************************************************)
(* ch16/h2o.c on Linux: threads that stand for atoms combine into          *)
(* molecules at water_barrier.  Two named semaphores let a number of       *)
(* hydrogens and carbons in, a mutex one oxygen, and the barrier lets go   *)
(* of as many threads as can be in.                                        *)
(*                                                                         *)
(* The module extends CvBarrier with the threads' bodies, main() and what  *)
(* the C library promises about named semaphores: they outlive the         *)
(* process, opening a name may fail, and using a semaphore that is not     *)
(* open is a fault.                                                        *)
(***************************************************************************)
EXTENDS CvBarrier

CONSTANTS
  Oxygen, Hydrogen, Carbon,       \* the threads of each kind
  HydrogenTokens, CarbonTokens,   \* initial values of the semaphores
  water_barrier,                  \* the only barrier
  Absent                          \* "value" of a name that does not exist

Names == {"hydrogen", "carbon"}

Atoms == [hydrogen |-> Hydrogen, carbon |-> Carbon]

Tokens == [hydrogen |-> HydrogenTokens, carbon |-> CarbonTokens]

ASSUME H2OAssumption ==
  /\ Threads = Oxygen \cup Hydrogen \cup Carbon
  /\ Oxygen \cap Hydrogen = {} /\ Oxygen \cap Carbon = {} /\ Hydrogen \cap Carbon = {}
  /\ Hydrogen # {} /\ Carbon # {}
  /\ Barriers = {water_barrier}
  /\ HydrogenTokens \in Nat
  /\ CarbonTokens \in Nat
  /\ barrier_thread_limit[water_barrier] = HydrogenTokens + CarbonTokens + 1
  /\ Absent \notin Nat

VARIABLES
  sem,             \* value of each named semaphore; it outlives the process
  handle,          \* hydrogen_sem and carbon_sem: unset, null, open or closed
  oxygen_mutex,    \* owner of oxygen_mutex
  num_of_water_molecules,
  tpc,             \* where each thread is in its body
  mpc,             \* where main() is
  exit_code,       \* argument of exit()
  found            \* history: value of each semaphore when it was opened

mainvars == <<handle, mpc, exit_code, found>>
vars == <<sem, oxygen_mutex, num_of_water_molecules, tpc, mainvars, bvars>>

Ended == mpc \in {"exited", "faulted"}

\* Threads that hold a token of a semaphore.
Holders(s) == {t \in Atoms[s] : tpc[t] = "barrier"}

\* The thread has returned from barrier_wait and is about to give back what
\* it holds.
Leaving(t) == tpc[t] = "barrier" /\ bpc[t] = "out"

-----------------------------------------------------------------------------
(***************************************************************************)
(* The choices and updates of the code that the actions are built from,    *)
(* with mutated forms that no specification uses.                          *)
(***************************************************************************)

\* Mutated form of InitialValue: the values of the two names are exchanged.
InitialValueSwapped(s) == IF s = "hydrogen" THEN CarbonTokens ELSE HydrogenTokens

\* Mutated form of InitialValue: one token too many.
InitialValueOneMore(s) == Tokens[s] + 1

InitialValue(s) == Tokens[s]

HasToken(s) == sem[s] > 0

\* Mutated form of AfterPost: the post is forgotten.
AfterPostLost(s) == sem[s]

AfterPost(s) == sem[s] + 1

\* Mutated form of Counted: the molecule is not counted.
CountedNot(n) == n

Counted(n) == n + 1

\* Mutated form of Joined: main() waits for the oxygens and hydrogens only.
JoinedNoCarbon == Oxygen \cup Hydrogen

Joined == Threads

-----------------------------------------------------------------------------
\* A process starts, with no thread but main().  A name may be left over from
\* an earlier run, which gave back all it took.
Init ==
  /\ \E left \in SUBSET Names :
       sem = [s \in Names |-> IF s \in left THEN InitialValue(s) ELSE Absent]
  /\ handle = [s \in Names |-> "unset"]
  /\ oxygen_mutex = NoThread
  /\ num_of_water_molecules = 0
  /\ tpc = [t \in Threads |-> "unborn"]
  /\ mpc = "carbon"
  /\ exit_code = 0
  /\ found = [s \in Names |-> 0]
  /\ BarrierInit

\* semaphore_initial: O_CREAT takes the value only when the name is new ...
Opens(s) ==
  /\ sem' = [sem EXCEPT ![s] = IF @ = Absent THEN InitialValue(s) ELSE @]
  /\ found' = [found EXCEPT ![s] = sem'[s]]
  /\ handle' = [handle EXCEPT ![s] = "open"]

\* ... and when both attempts fail the program goes on with SEM_FAILED, which
\* is a null pointer.
OpenFails(s) ==
  /\ handle' = [handle EXCEPT ![s] = "null"]
  /\ UNCHANGED <<sem, found>>

semaphore_initial(s, next) ==
  /\ mpc = s
  /\ mpc' = next
  /\ Opens(s) \/ OpenFails(s)
  /\ UNCHANGED <<oxygen_mutex, num_of_water_molecules, tpc, exit_code, bvars>>

\* create_threads starts the oxygens, then the hydrogens, then the carbons.
Born(T) == \A t \in T : tpc[t] # "unborn"

NextToCreate ==
  {t \in Threads : /\ tpc[t] = "unborn"
                   /\ t \in Hydrogen \cup Carbon => Born(Oxygen)
                   /\ t \in Carbon => Born(Hydrogen)}

CreateThread(t) ==
  /\ mpc = "create"
  /\ t \in NextToCreate
  /\ tpc' = [tpc EXCEPT ![t] = "start"]
  /\ UNCHANGED <<sem, oxygen_mutex, num_of_water_molecules, mainvars, bvars>>

\* pthread_create fails: exit(1), with the threads created so far running.
CreateFails ==
  /\ mpc = "create"
  /\ NextToCreate # {}
  /\ mpc' = "close_hydrogen"
  /\ exit_code' = 1
  /\ UNCHANGED <<sem, handle, found, oxygen_mutex, num_of_water_molecules, tpc, bvars>>

AllCreated ==
  /\ mpc = "create"
  /\ NextToCreate = {}
  /\ mpc' = "join"
  /\ UNCHANGED <<sem, handle, exit_code, found, oxygen_mutex,
                 num_of_water_molecules, tpc, bvars>>

\* The joins are over, the result is reported and main() returns.
JoinAll ==
  /\ mpc = "join"
  /\ \A t \in Joined : tpc[t] = "done"
  /\ mpc' = "close_hydrogen"
  /\ UNCHANGED <<sem, handle, exit_code, found, oxygen_mutex,
                 num_of_water_molecules, tpc, bvars>>

\* semaphore_close, run by exit(): the pointers keep their values.
Close(s, here, next) ==
  /\ mpc = here
  /\ mpc' = next
  /\ handle' = [handle EXCEPT ![s] = IF @ = "open" THEN "closed" ELSE @]
  /\ UNCHANGED <<sem, exit_code, found, oxygen_mutex,
                 num_of_water_molecules, tpc, bvars>>

\* The other threads run until the process has ended.
Exit ==
  /\ mpc = "exit"
  /\ mpc' = "exited"
  /\ UNCHANGED <<sem, handle, exit_code, found, oxygen_mutex,
                 num_of_water_molecules, tpc, bvars>>

Main ==
  \/ semaphore_initial("carbon", "hydrogen")
  \/ semaphore_initial("hydrogen", "create")
  \/ \E t \in Threads : CreateThread(t)
  \/ CreateFails
  \/ AllCreated
  \/ JoinAll
  \/ Close("hydrogen", "close_hydrogen", "close_carbon")
  \/ Close("carbon", "close_carbon", "exit")
  \/ Exit

-----------------------------------------------------------------------------
\* sem_wait, and the call of barrier_wait.
TakeToken(t, s) ==
  /\ t \in Atoms[s]
  /\ tpc[t] = "start"
  /\ handle[s] = "open"
  /\ HasToken(s)
  /\ sem' = [sem EXCEPT ![s] = @ - 1]
  /\ tpc' = [tpc EXCEPT ![t] = "barrier"]
  /\ Enter(t, water_barrier)
  /\ UNCHANGED <<oxygen_mutex, num_of_water_molecules, mainvars>>

\* sem_post; the thread returns.
GiveToken(t, s) ==
  /\ t \in Atoms[s]
  /\ Leaving(t)
  /\ handle[s] = "open"
  /\ sem' = [sem EXCEPT ![s] = AfterPost(s)]
  /\ tpc' = [tpc EXCEPT ![t] = "done"]
  /\ UNCHANGED <<oxygen_mutex, num_of_water_molecules, mainvars, bvars>>

LockOxygen(t) ==
  /\ t \in Oxygen
  /\ tpc[t] = "start"
  /\ oxygen_mutex = NoThread
  /\ oxygen_mutex' = t
  /\ tpc' = [tpc EXCEPT ![t] = "barrier"]
  /\ Enter(t, water_barrier)
  /\ UNCHANGED <<sem, num_of_water_molecules, mainvars>>

UnlockOxygen(t) ==
  /\ t \in Oxygen
  /\ Leaving(t)
  /\ num_of_water_molecules' = Counted(num_of_water_molecules)
  /\ oxygen_mutex' = NoThread
  /\ tpc' = [tpc EXCEPT ![t] = "done"]
  /\ UNCHANGED <<sem, mainvars, bvars>>

\* A step inside barrier_wait.
InBarrier(t) ==
  BarrierStep(t) /\ UNCHANGED <<sem, oxygen_mutex, num_of_water_molecules, tpc, mainvars>>

WokenInBarrier(t) ==
  SpuriousWakeup(t) /\ UNCHANGED <<sem, oxygen_mutex, num_of_water_molecules, tpc, mainvars>>

\* sem_wait or sem_post on a semaphore that is not open: the process dies.
Fault(t, s) ==
  /\ t \in Atoms[s]
  /\ tpc[t] = "start" \/ Leaving(t)
  /\ handle[s] \in {"null", "closed"}
  /\ mpc' = "faulted"
  /\ UNCHANGED <<sem, handle, exit_code, found, oxygen_mutex,
                 num_of_water_molecules, tpc, bvars>>

Thread(t) ==
  \/ LockOxygen(t) \/ UnlockOxygen(t) \/ InBarrier(t)
  \/ \E s \in Names : TakeToken(t, s) \/ GiveToken(t, s) \/ Fault(t, s)

\* The process has ended.
Terminated == Ended /\ UNCHANGED vars

Next ==
  \/ ~ Ended /\ (Main \/ \E t \in Threads : Thread(t) \/ WokenInBarrier(t))
  \/ Terminated

SafetySpec == Init /\ [][Next]_vars

(***************************************************************************)
(* main() and every thread keep running while the process lives, and       *)
(* spurious wakeups come to an end.                                        *)
(***************************************************************************)
Fairness ==
  /\ WF_vars(~ Ended /\ Main)
  /\ \A t \in Threads : WF_vars(~ Ended /\ Thread(t))
  /\ <>[][~ \E t \in Threads : SpuriousWakeup(t)]_vars

Spec == SafetySpec /\ Fairness

-----------------------------------------------------------------------------
TypeOK ==
  /\ BarrierTypeOK
  /\ sem \in [Names -> Nat \cup {Absent}]
  /\ handle \in [Names -> {"unset", "null", "open", "closed"}]
  /\ oxygen_mutex \in Oxygen \cup {NoThread}
  /\ num_of_water_molecules \in Nat
  /\ tpc \in [Threads -> {"unborn", "start", "barrier", "done"}]
  /\ mpc \in {"carbon", "hydrogen", "create", "join",
              "close_hydrogen", "close_carbon", "exit", "exited", "faulted"}
  /\ exit_code \in {0, 1}
  /\ found \in [Names -> Nat]

(***************************************************************************)
(* No token is lost or made: what a semaphore holds and what its atoms     *)
(* hold is what main() found when it opened it.  This is what bounds the   *)
(* number of threads in barrier_wait.                                      *)
(***************************************************************************)
TokensConserved ==
  \A s \in Names :
    handle[s] \in {"open", "closed"} => sem[s] + Cardinality(Holders(s)) = found[s]

\* The threads that the barrier has let go of are one molecule.
Molecule ==
  /\ Cardinality(Released(water_barrier) \cap Oxygen) = 1
  /\ \A s \in Names : Cardinality(Released(water_barrier) \cap Atoms[s]) = Tokens[s]

(***************************************************************************)
(* num_of_water_molecules is the number of completed rounds, less the one  *)
(* whose oxygen has not come round to counting it; there is at most one.   *)
(***************************************************************************)
Uncounted ==
  {t \in Oxygen : t \in Released(water_barrier) \/ Leaving(t)}

MoleculesCounted ==
  /\ Cardinality(Uncounted) <= 1
  /\ (num_of_water_molecules + Cardinality(Uncounted)) % RoundMod
       = barrier_round[water_barrier]

(***************************************************************************)
(* The three counts of the program agree: tokens with the threads that     *)
(* hold them, molecules with the rounds of the barrier, and every variable *)
(* keeps its type.                                                         *)
(***************************************************************************)
Tally == TypeOK /\ TokensConserved /\ MoleculesCounted

(***************************************************************************)
(* When main() reports its result every atom has reacted, the number it    *)
(* reports is that of the oxygens, and the semaphores, which the next run  *)
(* will find, hold what this run found.                                    *)
(***************************************************************************)
FinishesClean ==
  mpc = "exited" /\ exit_code = 0 =>
    /\ \A t \in Threads : tpc[t] = "done"
    /\ num_of_water_molecules = Cardinality(Oxygen)
    /\ \A s \in Names : sem[s] = found[s]

(***************************************************************************)
(* A thread never uses a semaphore that is closed or was never opened,     *)
(* unless sem_open or pthread_create failed.                               *)
(***************************************************************************)
FaultsOnlyAfterFailure ==
  mpc = "faulted" => exit_code = 1 \/ \E s \in Names : handle[s] = "null"

(***************************************************************************)
(* Once all threads exist and both semaphores are open, all atoms react    *)
(* and the program ends.                                                   *)
(***************************************************************************)
AllAtomsReact ==
  (mpc = "join" /\ \A s \in Names : handle[s] = "open")
    ~> (mpc = "exited" /\ exit_code = 0)

=============================================================================
