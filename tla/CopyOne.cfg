\* What copyOne loses.
SPECIFICATION GSpec
CONSTANTS
  Concurrency = 1
  MaxOps = 3
  LatestStart = 2
  MaxTime = 3
  Size = 8
  MaxBehind = 0
  Outcomes <- OneOutcome
  ClientThrows = FALSE
  Plans <- StaggerPlans
INVARIANTS
  CopyIsIdentical
