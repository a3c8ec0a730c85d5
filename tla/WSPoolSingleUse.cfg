CONSTANTS
  Goroutines = {g1, g2, g3}
  Conns = {c1, c2, c3}
  Entries = {e1, e2, e3}
  None = None
  MaxConns = 2
  MaxIdle = 1
SPECIFICATION Spec
INVARIANT SingleUse
SYMMETRY Symmetry
