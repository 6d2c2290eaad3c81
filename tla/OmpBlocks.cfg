SPECIFICATION FairSpec
CONSTANTS
  MaxThreads = {5}
  Types = {"float"}
  Shapes <- MCShapes
  Teams = {2, 4}
  Static = TRUE
  Loads <- MCLoads
  SizeMax = 255
CHECK_DEADLOCK FALSE
INVARIANTS RoundTripIfRegular CountedOnce
PROPERTY Returns
