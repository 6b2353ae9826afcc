\* Five archives at one destination, every command may fail.
SPECIFICATION Spec
CONSTANTS
  Urls <- AllUrls
  TmpNames = {t1, t2}
  Fallible <- AllCommands
  MaxCalls = 2
SYMMETRY Names
INVARIANTS
  InstalledTree
  FreshTmp
PROPERTIES
  CacheKept
