\* Two client threads and the nemesis, three operations, clients may throw.
SPECIFICATION Spec
CONSTANTS
  Concurrency = 2
  MaxOps = 3
  Outcomes <- TwoOutcomes
  ClientThrows = TRUE
INVARIANTS
  TypeOK
  OneOpInFlight
  ProcessIdentity
  FreshClient
  DoneMeansDrained
  LostOperationBlocksExit
PROPERTIES
  DrainedBeforeExit
  RecordsHistory
