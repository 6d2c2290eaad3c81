SPECIFICATION Spec
CONSTANTS
  Inputs <- MCInputs
  Nums <- MCNums
  Den = 4
  Capacity = 4
  ByteBits = 2
  Behind <- MCBehind
CHECK_DEADLOCK FALSE
INVARIANTS CodesInAlphabet InSync BoundKeptUnlessNarrow
