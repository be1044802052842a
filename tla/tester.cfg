SPECIFICATION Spec
CONSTANTS
  None = None
  t1 = t1
  t2 = t2
  Test = {t1, t2}
  Skip <- MCSkip
  MaxChains = 2
  MaxWork = 6
  Path = {p1, p2}
  Chunk = {x, y}
  MaxFiles = 3
  MaxLength = 2
 
INVARIANT FilesAreTheTests
SYMMETRY Sym
CHECK_DEADLOCK FALSE
