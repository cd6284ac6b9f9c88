CONSTANTS
  NoCopy = NoCopy
  MaxOverlaps = 0
  MaxShares = 1
  MaxBlocks = 1
  MaxWriteFaults = 0
  MaxCopyFaults = 0
  MaxRestarts = 0
SPECIFICATION RoundSpec
CHECK_DEADLOCK FALSE
INVARIANT RoundCopied
