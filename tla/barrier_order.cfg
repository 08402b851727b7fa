CONSTANTS
  N = 5
  Order <- Letters
  CreationOrder <- Created
  Threads <- ThreadSet
  Barriers <- BarrierSet
  barrier_thread_limit <- Limits
SPECIFICATION BOSpec
INVARIANTS BarriersInTurn
PROPERTIES PrintsInOrder AllPrint
