SPECIFICATION MCSpec
CONSTANTS
  Hook <- MCHook
  Query <- MCQuery
  Null = Null
  Hastiness = {TRUE, FALSE}
  MaxVersion = 4
  MaxRenders = 2
  Socket = {s1, s2, s3, s4, s5}
  None = None
  MaxLost = 4
INVARIANTS HearsOnce  StaysDown
PROPERTY SettlesDown
CHECK_DEADLOCK FALSE
