\* Two client threads and the nemesis, two calls of up to two operations;
\* clients return, and threads are scheduled fairly.
SPECIFICATION SFairSpec
CONSTANTS
  Concurrency = 2
  MaxOps = 2
  Outcomes <- TwoOutcomes
  ClientThrows = FALSE
INVARIANTS
  NothingComesBack
  CrashesOnFirstProcess
PROPERTIES
  Answered
  Termination
