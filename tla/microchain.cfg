SPECIFICATION MicroSpec
CONSTANTS
  MaxUInt = 4
  Account = {"x", "y"}
  Message = {"m", "n"}
  NoMessage = NoMessage
  NoId <- MCNoId
  EosioBlock <- FourHeights
  Block <- MCBlock
  Hash <- MCHash
INVARIANTS TypeOK ChainLinked IrreversibleInLog SessionsMatchLog StateIsReplay TrapsOnlyOnBadBlock
PROPERTIES FinalityIsForever ImplementsForkChain
CHECK_DEADLOCK FALSE
