CONSTANTS
  Oxygen = {o1, o2}
  Hydrogen = {h1, h2}
  Carbon = {c1, c2}
  Threads = {o1, o2, h1, h2, c1, c2}
  HydrogenTokens = 1
  CarbonTokens = 1
  water_barrier = water_barrier
  Barriers = {water_barrier}
  barrier_thread_limit <- Limits
  RoundMod = 2
  NoThread = NoThread
  Absent = Absent
SPECIFICATION Spec
PROPERTIES AllAtomsReact
