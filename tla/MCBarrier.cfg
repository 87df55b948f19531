CONSTANTS
  Threads = {t1, t2, t3}
  NULL = NULL
  Rounds = 3
SPECIFICATION FairSpec
INVARIANTS BarrierSync ArraysFit WakesOnlyBlocked NobodyLeftBlocked
PROPERTIES AllPass
