SPECIFICATION Spec
CONSTANTS
  Values <- MCTemporalValues
  HistValues <- MCTemporalHist
  Eb = 1
  Radius = 4
  MaxLen = 4
  Predictor = "hist"
  Width = 2
  Inclusive = TRUE
  Mantissa = 4
  Ulp = 2
  RoundOff = 1
CHECK_DEADLOCK FALSE
INVARIANT SoundUnlessEdge
