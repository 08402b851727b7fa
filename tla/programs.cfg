CONSTANTS
  Threads <- ThreadSet
  Barriers <- BarrierSet
  barrier_thread_limit <- Limits
  Length = 4
  MaxRuns = 2
  Absent = Absent
SPECIFICATION ProgramsSpec
INVARIANTS TouchesTheLiving OrderedArrayIsWhole AdditionsKept LockKept
  SuccessMeansDone
PROPERTIES EndsOnceStarted
CHECK_DEADLOCK FALSE
