SPECIFICATION Spec
CONSTANTS
  Values <- MCStepValues
  HistValues <- MCNoHist
  Eb = 1
  Radius = 4
  MaxLen = 5
  Predictor = "last"
  Width = 2
  Inclusive = FALSE
  Mantissa = 4
  Ulp = 2
  RoundOff = 1
CHECK_DEADLOCK FALSE
INVARIANT StreamsAligned
