CONSTANTS
  Root = {r1}
  User = {u1, u2}
  NonceMax = 1
  Nonce = {0, 1}
  Threads = 2
  MaxBlocks = 2
  MaxShares = 3
  MaxHashFailures = 1
SPECIFICATION ValidatorSpec
CHECK_DEADLOCK FALSE
SYMMETRY RootUserSymmetry
INVARIANTS ValidatorTypeOK TablesFollowBlocks AcceptedIsCurrent NoDoubleAccept
  HeaderNamesBlock
  TargetComparedAsNumber
PROPERTY KeepsLedger
