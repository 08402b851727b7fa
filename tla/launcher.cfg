CONSTANTS
  LLONG_MAX = 2047
  INT_MAX = 1023
  Calls <- MainCalls
  TestCounts <- Counts
SPECIFICATION Spec
INVARIANTS SuccessIsReal StopsAtFailure StringsOwned MessageIsRight
