CONSTANTS
  alloc_thread = alloc_thread
  even_filler_thread = even_filler_thread
  odd_filler_thread = odd_filler_thread
  Printers = {p1, p2}
  dealloc_thread = dealloc_thread
  Threads = {alloc_thread, even_filler_thread, odd_filler_thread,
             p1, p2, dealloc_thread}
  alloc_barrier = alloc_barrier
  fill_barrier = fill_barrier
  done_barrier = done_barrier
  Barriers = {alloc_barrier, fill_barrier, done_barrier}
  barrier_thread_limit <- Limits
  Len = 4
  RoundMod = 2
  NoThread = NoThread
SPECIFICATION SafetySpec
SYMMETRY Symmetry
INVARIANTS DestroysUnused
