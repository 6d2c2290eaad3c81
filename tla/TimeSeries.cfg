SPECIFICATION Spec
CONSTANTS
  Vars <- MCOneVar
  DecoderVars <- MCOneVar
  CmprTypes <- MCAllTypes
  snapshotCmprStep = 2
  EntropyType = "huffman"
  MaxFrames = 3
  MaxDecoded = 3
  MaxBreaks = 2
INVARIANTS TypeOK ChainSufficesUnlessStored RightWithinPeriod
