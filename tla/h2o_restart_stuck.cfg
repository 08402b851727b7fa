CONSTANTS
  Oxygen = {o1}
  Hydrogen = {h1}
  Carbon = {c1}
  Threads = {o1, h1, c1}
  HydrogenTokens = 1
  CarbonTokens = 1
  water_barrier = water_barrier
  Barriers = {water_barrier}
  barrier_thread_limit <- Limits
  RoundMod = 2
  NoThread = NoThread
  Absent = Absent
  MaxRuns = 2
SPECIFICATION RestartSpec
PROPERTIES ThreadsEnd
CHECK_DEADLOCK FALSE
