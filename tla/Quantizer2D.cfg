SPECIFICATION Spec
CONSTANTS
  Values <- MCValues
  HistValues <- MCNoHist
  Eb = 1
  Radius = 4
  MaxLen = 5
  Predictor = "lorenzo2D"
  Width = 3
  Inclusive = FALSE
  Mantissa = 4
  Ulp = 2
  RoundOff = 1
CHECK_DEADLOCK FALSE
INVARIANTS TypeOK CodesInAlphabet StreamsAligned InSync BoundKept
PROPERTY PromiseKept
