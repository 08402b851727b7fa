------------------------------ MODULE H2ORestart ------------------------------
(***************************************************************************)
(* h2o.c run again and again.  The handler of SIGINT is commented out      *)
(* (h2o.c:182) and nothing unlinks the names of the semaphores, so that a  *)
(* process that is killed leaves the semaphores as they are, less the      *)
(* tokens its threads held, and sem_open(O_CREAT) of the next run takes    *)
(* them as it finds them.                                                  *)
(***************************************************************************)
EXTENDS H2O

CONSTANT MaxRuns   \* bound on the number of times the program is started

ASSUME H2ORestartAssumption == MaxRuns \in Nat \ {0}

VARIABLE runs      \* times the program has been started

rvars == <<runs, vars>>

RestartInit == Init /\ runs = 1

\* The process ends, by itself or killed at any point, and a new one starts.
Rerun ==
  /\ runs < MaxRuns
  /\ runs' = runs + 1
  /\ handle' = [s \in Names |-> "unset"]
  /\ oxygen_mutex' = NoThread
  /\ num_of_water_molecules' = 0
  /\ tpc' = [t \in Threads |-> "unborn"]
  /\ mpc' = "carbon"
  /\ exit_code' = 0
  /\ found' = [s \in Names |-> 0]
  /\ barrier_mutex' = [b \in Barriers |-> NoThread]
  /\ barrier_thread_count' = [b \in Barriers |-> 0]
  /\ barrier_round' = [b \in Barriers |-> 0]
  /\ bpc' = [t \in Threads |-> "out"]
  /\ at' = [t \in Threads |-> water_barrier]
  /\ my_round' = [t \in Threads |-> 0]
  /\ UNCHANGED sem

RestartNext == (Next /\ UNCHANGED runs) \/ Rerun

RestartSafetySpec == RestartInit /\ [][RestartNext]_rvars

(***************************************************************************)
(* As in H2O; nothing makes a process be killed or started again.          *)
(***************************************************************************)
RestartSpec ==
  /\ RestartSafetySpec
  /\ WF_rvars(~ Ended /\ Main /\ UNCHANGED runs)
  /\ \A t \in Threads : WF_rvars(~ Ended /\ Thread(t) /\ UNCHANGED runs)
  /\ <>[][~ \E t \in Threads : SpuriousWakeup(t)]_rvars

-----------------------------------------------------------------------------
(***************************************************************************)
(* Every molecule has the right composition: within a run the round of     *)
(* water_barrier never advances without letting go of one oxygen and as    *)
(* many hydrogens and carbons as there are tokens, whatever order the      *)
(* threads come in and whatever tokens an earlier run has taken along.     *)
(***************************************************************************)
MoleculeComposition ==
  [][runs' = runs /\ barrier_round' # barrier_round => Molecule']_rvars

(***************************************************************************)
(* The threads use the barrier with the discipline it needs: never more    *)
(* of them inside than its limit, although tokens are given back while     *)
(* other threads of the same molecule are still on their way out.  A new   *)
(* process has a new barrier.                                              *)
(***************************************************************************)
UsesBarrier == BarrierInit /\ [][runs' = runs => [BarrierNext]_bvars]_rvars

(***************************************************************************)
(* Killing processes never makes tokens: in every run the threads in       *)
(* barrier_wait are at most as many of each kind as a molecule takes.      *)
(***************************************************************************)
TokensNeverGained ==
  \A s \in Names :
    sem[s] # Absent =>
      sem[s] + (IF handle[s] = "unset" THEN 0 ELSE Cardinality(Holders(s))) <= Tokens[s]

(***************************************************************************)
(* A run that was started with less than the initial values never makes a  *)
(* molecule: the barrier waits for atoms that the semaphores keep out.  It *)
(* never makes a wrong one either.                                         *)
(***************************************************************************)
Short == \E s \in Names : handle[s] = "open" /\ found[s] < Tokens[s]

ShortRunsMakeNothing ==
  Short => /\ num_of_water_molecules = 0
           /\ Released(water_barrier) = {}
           /\ \A t \in Threads : tpc[t] # "done"

(***************************************************************************)
(* What main() says it does at h2o.c:213: it waits for all threads to end. *)
(***************************************************************************)
ThreadsEnd ==
  (mpc = "join" /\ \A s \in Names : handle[s] = "open") ~> mpc # "join"
=============================================================================
