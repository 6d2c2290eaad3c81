SPECIFICATION Spec
CONSTANTS
  Vars <- MCTwoVars
  DecoderVars <- MCOneVar
  CmprTypes <- MCAllTypes
  snapshotCmprStep = 2
  EntropyType = "huffman"
  MaxFrames = 4
  MaxDecoded = 4
  MaxBreaks = 0
INVARIANTS SurvivesUnknownVariable
