SPECIFICATION Spec
CONSTANTS
  Arrays <- MCArrays
  BlockSize = 2
  Planes <- MCPlanes
  Eb = 1
  Capacity = 16
  Precision <- MCPrecision
  CoeffCapacity = 8
  Mantissa = 8
  Ulp = 2
CHECK_DEADLOCK FALSE
INVARIANTS InSync BoundKept UsedUp
