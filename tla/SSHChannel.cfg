\* A command that writes up to two chunks to each stream.
SPECIFICATION FairSpec
CONSTANTS
  MaxChunks = 2
  Faults = {"reset", "hangup", "silent", "unreported"}
INVARIANTS
  TrueMeansSuccess
  ExactWhenUp
PROPERTIES
  ReturnsUnlessSilent
