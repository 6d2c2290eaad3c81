SPECIFICATION Spec
CONSTANTS
  MaxThreads = {5}
  Types = {"float"}
  Shapes <- MCThin
  Teams = {4}
  Static = TRUE
  Loads <- MCLoad
  SizeMax = 255
CHECK_DEADLOCK FALSE
INVARIANT RoundTripIfFull
