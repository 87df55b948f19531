CONSTANTS
  Threads = {t0, t1}
  Main = t0
  NULL = NULL
  MaxVCores = 2
  MaxSpin = 0
  SetNums = {2}
  MaxWaiting = 2
  ClientOps = {"create", "yield", "exit", "pause", "syscall", "block", "wake",
               "set_short_circuit", "set_adjust"}
SPECIFICATION Spec
PROPERTIES SchedContract
