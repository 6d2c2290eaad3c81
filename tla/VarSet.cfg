SPECIFICATION Spec
CONSTANTS
  Ids <- MCIds
  Names = {"n1", "n2"}
  a1 = a1
  a2 = a2
  a3 = a3
  header = header
  null = null
  Slots <- MCSlots
  Header = header
  Null = null
  CountValues = 3
CHECK_DEADLOCK FALSE
SYMMETRY MCSymmetry
INVARIANTS TypeOK WalkSafe CountMatches LastIsLast AllReachable
PROPERTY RegistryImplemented
