SPECIFICATION Spec
CONSTANTS
  Modes <- MCAllModes
  AbsBounds <- MCAbsBounds
  Percents <- MCPercents
  PsnrPercent = 10
  Intervals <- MCIntervals
  MaxIntervals = 65536
  Ranges <- MCRanges
  Streams <- MCStreams
CHECK_DEADLOCK FALSE
INVARIANTS TypeOK BoundNotLooser OwnIntervals CrashesOnlyAfterTimeStep
