SPECIFICATION Spec
CONSTANTS
  FlowLists <- Reports
  CriticBatch = 1
  Methods = {1, 2, 3, 4}
  CallSets <- SomeCalls
  Constructors <- SomeConstructors
  Roots <- SomeRoots
  MethodLimit = 2
  SizeLimit = 3
  Lengths = {3, 6}
  MaxChars = 4
  Overlap = 4
  Scores = {0, 1, 2}
  Delta = 1
  Tau = 2
  NoScore = NoScore
INVARIANT RemovedOnShownLine
