\* Two processes, three operations on one key, one of which may be given up on;
\* the value "x" is not a number.
SPECIFICATION Spec
CONSTANTS
  Processes = {p1, p2}
  Texts = {"1", "2", "x"}
  MaxOps = 3
  MaxLost = 1
SYMMETRY Symmetry
INVARIANTS
  HistoryExplained
