SPECIFICATION Spec
CONSTANTS
  MaxThreads = {2}
  Types = {"float"}
  Shapes <- MCOne
  Teams = {4}
  Static = FALSE
  Loads <- MCLoad
  SizeMax = 255
CHECK_DEADLOCK FALSE
INVARIANT RoundTripIfRegular
