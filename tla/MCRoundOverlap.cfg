CONSTANTS
  NoCopy = NoCopy
  MaxOverlaps = 1
  MaxShares = 1
  MaxBlocks = 2
  MaxWriteFaults = 0
  MaxCopyFaults = 0
  MaxRestarts = 0
SPECIFICATION RoundSpec
CHECK_DEADLOCK FALSE
PROPERTY EventuallyLogged
