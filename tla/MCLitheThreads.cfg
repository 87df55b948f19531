CONSTANTS
  Threads = {t0, t1, t2, t3}
  Main = t0
  Slots = {s0, s1, s2}
  MainSlot = s0
  NULL = NULL
  MaxZombies = 1
  NumVCores = 2
SPECIFICATION LitheFairSpec
INVARIANTS NoStaleTcb JoinGetsResult MemoryAccounted HartsCounted
PROPERTIES JoinReturns
