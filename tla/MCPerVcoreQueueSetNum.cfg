CONSTANTS
  Threads = {t0, t1, t2}
  Main = t0
  NULL = NULL
  MaxVCores = 3
  MaxSpin = 0
  SetNums = {2, 3}
  MaxWaiting = 1
  ClientOps = {"create", "set_num"}
SPECIFICATION Spec
INVARIANTS NextQueueInRange
