SPECIFICATION TSSpec
CONSTANTS
  EntropyTypes <- MCZstd
  Intervals = 65536
  Types <- MCFewTypes
  MaxLen = 3
CHECK_DEADLOCK FALSE
INVARIANTS RoundTrip
