SPECIFICATION Spec
CONSTANTS
  MaxUInt = 4
  Account = {"x", "y"}
  Message = {"m", "n"}
  NoMessage = NoMessage
  Null = Null
  NoId <- MCNoId
  EosioBlock <- FourHeights
  Block <- MCBlock
  Hash <- MCHash
INVARIANTS InstancesAgree HistoryIsInert StateFileServes
PROPERTY ImplementsEosioChain
