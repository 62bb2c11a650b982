SPECIFICATION FairSpec
CONSTANTS
  Requests = {r1, r2}
  i1 = i1  i2 = i2
  dA = dA  dB = dB  dC = dC  dD = dD
  JobIds = {i1}
  Dirs = {dA, dC}
  WorkDir <- Distinct1
  Kinds = {"submit", "sync", "repo"}
  Launcher = "docker"
  RemovalFails = FALSE
  MaxChunks = 2
  MaxCrashes = 1
  NoFile = NoFile
  BadFile = BadFile
INVARIANTS RegistryExact NoOrphanEngine OwnResult
PROPERTIES RequestsEnd SubmitSettles
