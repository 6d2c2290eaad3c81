SPECIFICATION TSSpec
CONSTANTS
  EntropyTypes <- MCAdtFse
  Intervals = 131072
  Types <- MCFewTypes
  MaxLen = 3
CHECK_DEADLOCK FALSE
INVARIANTS RoundTripIfCoded
