SPECIFICATION Spec
CONSTANTS
  Requests = {r1, r2}
  i1 = i1  i2 = i2
  dA = dA  dB = dB  dC = dC  dD = dD
  JobIds = {i1, i2}
  Dirs = {dA, dC}
  WorkDir <- Colliding
  Kinds = {"repo"}
  Launcher = "docker"
  RemovalFails = FALSE
  MaxChunks = 1
  MaxCrashes = 0
  NoFile = NoFile
  BadFile = BadFile
INVARIANTS RegistryRunning
