CONSTANTS
  Threads = {t0, t1, t2}
  Main = t0
  VCores = {v1, v2}
  NULL = NULL
  MaxSpin = 0
  ClientOps = {"create", "yield", "exit", "syscall"}
SPECIFICATION FairSpec
PROPERTIES ReadyRuns SyscallReturns
