CONSTANTS
  Threads = {t1, t2, t3, t4}
  Barriers = {b1}
  Limit = 3
  barrier_thread_limit <- Limits
  RoundMod = 3
  NoThread = NoThread
SPECIFICATION BarrierSpec
INVARIANTS BarrierInv
PROPERTIES ImplementsRendezvous ReleasedReturn
