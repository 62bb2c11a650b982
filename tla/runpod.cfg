SPECIFICATION FairSpec
CONSTANTS
  Calls = {c1, c2}
  Workers = 1
INVARIANTS TypeOK NoAbandonedJob
PROPERTIES CallsEnd
