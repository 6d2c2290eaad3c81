SPECIFICATION Spec
CONSTANTS
  MaxThreads = {8}
  Types = {"float"}
  Shapes <- MCShortLast
  Teams = {8}
  Static = TRUE
  Loads <- MCLoad
  SizeMax = 255
CHECK_DEADLOCK FALSE
INVARIANT CountedOnce
