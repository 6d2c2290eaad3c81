SPECIFICATION TSSpec
CONSTANTS
  EntropyTypes <- MCAllCoders
  Intervals = 32768
  Types <- MCTypes
  MaxLen = 3
CHECK_DEADLOCK FALSE
INVARIANTS RoundTripIfCoded OffsetsFit BitsUsedUp
