SPECIFICATION FairSpec
CONSTANTS
  r1 = r1  r2 = r2
  Requests = {r1, r2}
  Candidates <- Sharing
  BatchSize = 2
  MaxFresh = 0
  MaxCrashes = 1
  Absent = Absent  Empty = Empty  Broken = Broken
INVARIANTS TypeOK RulesOfOwnPrompt MissingWasRetried NoRuleLost
PROPERTIES FirstLabelStays RulesEnd
