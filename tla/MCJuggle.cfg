CONSTANTS
  Threads = {t0, t1, t2}
  Main = t0
  NULL = NULL
  MaxVCores = 2
  MaxSpin = 1
  SetNums = {2}
  MaxWaiting = 1
  Periods = {1, 2}
  Data = {d1, d2, d3, d4, d5, d6, d7, d8}
  MaxTimers = 1
  ClientOps = {"create", "yield", "exit"}
SPECIFICATION JuggleSpec
VIEW UpToNames
INVARIANTS FreedOnlyUnlocked
PROPERTIES SchedContract
