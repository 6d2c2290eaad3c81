SPECIFICATION CSpec
CONSTANTS
  EntropyTypeValues <- MCHuffman
  Protect <- MCNoProtect
  Leftover <- MCLeftover
INVARIANTS ReadAsWritten
