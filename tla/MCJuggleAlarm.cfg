CONSTANTS
  Threads = {t0, t1}
  Main = t0
  NULL = NULL
  MaxVCores = 2
  MaxSpin = 0
  SetNums = {2}
  MaxWaiting = 1
  Periods = {1}
  Data = {d1, d2, d3, d4, d5, d6, d7, d8}
  MaxTimers = 1
  ClientOps = {"create", "yield", "exit"}
SPECIFICATION JuggleSpec
INVARIANTS RunsUnderAlarm
