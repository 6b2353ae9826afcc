\* Two nodes, calls may fail and throw; then the Runner runs again, or the
\* program is killed and started again.
SPECIFICATION Spec
CONSTANTS
  NodeCount = 2
  LeaveDB = {TRUE, FALSE}
  FailingRuns = 1
  MaxAgain = 1
INVARIANTS
  ReadyForClients
  NemesisApart
  EverythingTakenDown
PROPERTIES
  InLockstep
