SPECIFICATION Spec
CONSTANTS
  MaxThreads = {5}
  Types = {"double"}
  Shapes <- MCOne
  Teams = {4}
  Static = TRUE
  Loads <- MCLoad
  SizeMax = 255
CHECK_DEADLOCK FALSE
INVARIANT RoundTripIfRegular
