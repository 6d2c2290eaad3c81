SPECIFICATION Spec
CONSTANTS
  Inputs <- MCInputs
  ByteNodes = 4
  ShortNodes = 8
  LongBits = 64
  TableBits = 2
INVARIANTS Optimal SizeRight FitsBuffer RoundTripUnlessShort
