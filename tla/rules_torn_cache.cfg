SPECIFICATION Spec
CONSTANTS
  r1 = r1  r2 = r2
  Requests = {r1, r2}
  Candidates <- Small
  BatchSize = 2
  MaxFresh = 0
  MaxCrashes = 0
  Absent = Absent  Empty = Empty  Broken = Broken
INVARIANTS FixedRulesReachTaint
