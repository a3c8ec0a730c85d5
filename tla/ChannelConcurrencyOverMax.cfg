CONSTANTS
  Goroutines = {g1, g2, g3}
  Counters = {c1, c2, c3, c4}
  Missing = Missing
  Limits = {1}
  ConfigChanges = FALSE
SPECIFICATION CcSpec
INVARIANT NeverOverMax
SYMMETRY Symmetry
