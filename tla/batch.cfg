SPECIFICATION FairSpec
CONSTANTS
  Inputs <- AllBatches
  Ids <- IdsMC
  Codes <- OneCode
  Stem <- AllStems
  ChunkSize = 2
INVARIANTS TypeOK UnmappedOnlyByExtension Accounted OnlyOpenRetried OneResultPerCase
PROPERTIES LedgerSpec BatchEnds
