CONSTANTS
  WorkQueueMin = 1
  UintMod = 4
  MaxCalls = 1
  MaxFailures = 0
  Conn = {c1}
  MaxSources = 1
  Root = {r1}
  User = {u1, u2}
  NonceMax = 2
  Nonce = {1}
  Threads = 1
  MaxBlocks = 2
  MaxShares = 2
  MaxHashFailures = 0
SPECIFICATION DanceSpec
CHECK_DEADLOCK FALSE
SYMMETRY UserSymmetry
INVARIANTS DanceTypeOK HonestIsJudged ResultIsAlive ResultStory CreditIsEarned WaitingMinerIsOwed
