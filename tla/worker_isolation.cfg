SPECIFICATION Spec
CONSTANTS
  Requests = {r1, r2, r3}
  i1 = i1  i2 = i2
  dA = dA  dB = dB  dC = dC  dD = dD
  JobIds = {i1, i2}
  Dirs = {dA, dC}
  WorkDir <- Colliding
  Kinds = {"submit", "sync", "repo"}
  Launcher = "native"
  RemovalFails = FALSE
  MaxChunks = 1
  MaxCrashes = 1
  NoFile = NoFile
  BadFile = BadFile
SYMMETRY CollidingSymmetry
INVARIANTS TypeOK OneJobPerId WorkDirExclusive WorkDirPresent Registered
