CONSTANTS
  Threads = {t0, t1, t2}
  Main = t0
  NULL = NULL
  MaxVCores = 2
  MaxSpin = 0
  SetNums = {2}
  MaxWaiting = 1
  ClientOps = {"create", "yield", "block", "wake", "set_num", "set_steal"}
SPECIFICATION FairSpec
INVARIANTS OnePlacePerThread NoneForgotten
PROPERTIES ReadyRuns
