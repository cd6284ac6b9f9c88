CONSTANTS
  WorkQueueMin = 1
  UintMod = 4
  MaxCalls = 2
  MaxFailures = 0
  Conn = {c1}
  MaxSources = 1
  Root = {r1}
  User = {u1}
  NonceMax = 1
  Nonce = {1}
  Threads = 1
  MaxBlocks = 2
  MaxShares = 1
  MaxHashFailures = 1
SPECIFICATION DanceSpec
CHECK_DEADLOCK FALSE
INVARIANT HonestIsJudged
PROPERTIES EveryPutworkAnswered EveryShareDecided HashIsResolved
