CONSTANTS
  Root = {r1}
  User = {u1}
  NonceMax = 1
  Nonce = {0, 1}
  Threads = 2
  MaxBlocks = 2
  MaxShares = 2
  MaxHashFailures = 0
SPECIFICATION ValidatorSpec
CHECK_DEADLOCK FALSE
INVARIANT AcceptedOnBlock
