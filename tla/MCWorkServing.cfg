CONSTANTS
  WorkQueueMin = 2
  UintMod = 8
  MaxCalls = 4
  MaxFailures = 1
  Conn = {c1, c2, c3}
  MaxSources = 2
SPECIFICATION WorkServingSpec
INVARIANTS
  WorkServingTypeOK
  CounterBalanced
  CacheConserved
  HeldOnce
  HandlersFollowLists
  NoLostWakeup
PROPERTY QueuedIsServed
