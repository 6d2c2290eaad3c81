SPECIFICATION Spec
CONSTANTS
  Vars <- MCOneVar
  DecoderVars <- MCOneVar
  CmprTypes <- MCAllTypes
  snapshotCmprStep = 2
  EntropyType = "zstd"
  MaxFrames = 4
  MaxDecoded = 4
  MaxBreaks = 0
INVARIANTS ChainSufficesUnlessStored
