CONSTANTS
  MaxHeight = 4
  MaxFailures = 3
SPECIFICATION MonitorSpec
CHECK_DEADLOCK FALSE
INVARIANTS MonitorTypeOK OneChain
PROPERTY BlockIsNoticed
