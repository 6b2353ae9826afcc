\* One installation on a node where nothing fails.
SPECIFICATION Spec
CONSTANTS
  Urls <- EtcdUrl
  TmpNames = {t1, t2}
  Fallible = {}
  MaxCalls = 1
INVARIANTS
  AssertionHolds
