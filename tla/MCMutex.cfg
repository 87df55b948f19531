CONSTANTS
  Threads = {t1, t2, t3, t4}
  NULL = NULL
  Recursive = TRUE
  MaxDepth = 2
  Rounds = 3
SPECIFICATION FairSpec
INVARIANTS OwnerAgrees NoLostWakeup WakesOnlyBlocked
PROPERTIES LockContract LockReturns
