CONSTANTS
  WorkQueueMin = 3
  UintMod = 16
  MaxCalls = 9
  MaxFailures = 3
SPECIFICATION UpstreamSpec
INVARIANT CacheProvisioned
