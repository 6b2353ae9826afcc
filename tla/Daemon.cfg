\* Three tear-downs and set-ups on a node with three process numbers.
SPECIFICATION Spec
CONSTANTS
  Pids <- ThreePids
  Options <- SomeOptions
  Fallible <- AllCommands
  MaxRounds = 3
INVARIANTS
  TornDown
  FromScratch
  SomeDatabaseRuns
