CONSTANTS
  Waiters = {w1, w2}
  Posters = {p1, p2}
  InitialValue = 0
  MaxWaits = 2
  MaxPosts = 2
SPECIFICATION FairSpec
INVARIANTS CountKept ElementsAlive NoLostPost
PROPERTIES WaitReturns
