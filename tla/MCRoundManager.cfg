CONSTANTS
  NoCopy = NoCopy
  MaxShares = 2
  MaxBlocks = 2
  MaxWriteFaults = 2
  MaxCopyFaults = 1
  MaxRestarts = 1
  MaxOverlaps = 2
SPECIFICATION RoundSpec
CHECK_DEADLOCK FALSE
INVARIANTS RoundTypeOK LogConserved QuietRoundCopied NothingIsStranded
PROPERTIES SpacedIsLogged SpacedIsArchived KeepsPromise
