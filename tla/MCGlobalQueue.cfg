CONSTANTS
  Threads = {t0, t1, t2}
  Main = t0
  VCores = {v1, v2}
  NULL = NULL
  MaxSpin = 1
  ClientOps = {"create", "create_detached", "join", "yield", "exit", "block", "wake", "syscall", "notify", "pause", "adjust"}
SPECIFICATION Spec
SYMMETRY FullSymmetry
INVARIANTS OnePlacePerThread NoOddWake NoUseAfterFree JoinSeesExit Accounting SomeVCoreWillLook
PROPERTIES SchedContract
