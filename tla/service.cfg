SPECIFICATION FairSpec
CONSTANTS
  c1 = c1  c2 = c2  r1 = r1  r2 = r2  r3 = r3
  i1 = i1  i2 = i2  i3 = i3  dA = dA  dB = dB  dC = dC
  Clients = {c1, c2}
  Requests = {r1, r2, r3}
  JobIds = {i1, i2, i3}
  Dirs = {dA, dB, dC}
  WorkDir <- ApartPaths
  Kinds = {"repo", "sync"}
  Launcher = "docker"
  RemovalFails = FALSE
  MaxChunks = 1
  MaxCrashes = 1
  NoFile = NoFile  BadFile = BadFile  NoCall = NoCall
  Slots = 1
  WithContext = TRUE
  Policy = "TRUST-JOERN"
  Loads <- AllLoads
INVARIANTS TypeOK JoernBounded SlotsExact FailureNotClean
PROPERTIES AdmittedAnswered
