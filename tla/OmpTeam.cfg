SPECIFICATION Spec
CONSTANTS
  MaxThreads = {5}
  Types = {"float"}
  Shapes <- MCOne
  Teams = {1, 4}
  Static = TRUE
  Loads <- MCLoad
  SizeMax = 255
CHECK_DEADLOCK FALSE
INVARIANT RoundTrip
