CONSTANTS
  Root = {r1}
  User = {u1}
  NonceMax = 1
  Nonce = {1}
  Threads = 1
  MaxBlocks = 3
  MaxShares = 1
  MaxHashFailures = 0
SPECIFICATION ValidatorSpec
CHECK_DEADLOCK FALSE
INVARIANT HashesLive
