SPECIFICATION MCSpec
CONSTANTS
  EosioBlock <- MCEosioBlock
  MaxUInt = 5
  Null = Null
  SaveAfter = 1
  MaxNumber = 3
  MaxMessages = 3
  MaxStops = 2
  MaxCompletes = 1
  Socket = {s1, s2, s3, s4}
  Prompt = TRUE
  MaxLost = 3
INVARIANTS BoxFollowsProvider StateFileNotAhead  
PROPERTY DeliversInTheEnd
CHECK_DEADLOCK FALSE
