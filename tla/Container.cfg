SPECIFICATION CSpec
CONSTANTS
  EntropyTypeValues <- MCAllEntropyTypes
  Protect <- MCProtect
  Leftover <- MCLeftover
INVARIANT ReadAsWrittenUnlessAltered
