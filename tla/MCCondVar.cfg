CONSTANTS
  Consumers = {c1, c2}
  Producers = {p1, p2}
  NULL = NULL
SPECIFICATION FairSpec
INVARIANTS MonitorExclusion WokenOnce CallbackUsesOwnNode
PROPERTIES MonitorContract ConsumersServed BroadcastReturns
