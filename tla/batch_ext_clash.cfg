SPECIFICATION Spec
CONSTANTS
  Inputs <- Clashing
  Ids <- IdsMC
  Codes <- OneCode
  Stem <- AllStems
  ChunkSize = 2
INVARIANTS NeverUnmapped
