\* One client thread and the nemesis, at most three operations; clients return,
\*  threads are scheduled fairly, time passes, and the clock may be set back.
SPECIFICATION GFairSpec
CONSTANTS
  Concurrency = 1
  MaxOps = 3
  LatestStart = 2
  MaxTime = 3
  Size = 8
  MaxBehind = 1
  Outcomes <- OneOutcome
  ClientThrows = FALSE
  Plans <- AllPlans
INVARIANTS
  RightThread
  WithinTimeLimit
  ListInOrder
  SteadyNeverCrashes
PROPERTIES
  ImplementsRunCases
  GTermination
