CONSTANTS
  Oxygen = {o1, o2}
  Hydrogen = {h1, h2, h3, h4}
  Carbon = {c1, c2}
  Threads = {o1, o2, h1, h2, h3, h4, c1, c2}
  HydrogenTokens = 2
  CarbonTokens = 1
  water_barrier = water_barrier
  Barriers = {water_barrier}
  barrier_thread_limit <- Limits
  RoundMod = 2
  NoThread = NoThread
  Absent = Absent
  MaxRuns = 2
SPECIFICATION RestartSafetySpec
SYMMETRY Symmetry
INVARIANTS Tally FinishesClean FaultsOnlyAfterFailure
  TokensNeverGained ShortRunsMakeNothing
PROPERTIES MoleculeComposition UsesBarrier
CHECK_DEADLOCK FALSE
