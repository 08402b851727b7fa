CONSTANTS
  Pushers = {push1, push2}
  Poppers = {pop1, pop2}
  max_size = 2
  NoThread = NoThread
  Nothing = Nothing
SPECIFICATION Spec
INVARIANTS MutexBalanced FaultsOnlyOutOfMemory
PROPERTY ImplementsBoundedStack
