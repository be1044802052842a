SPECIFICATION Spec
CONSTANTS
  MaxUInt = 3
  Account = {"x"}
  Message = {"m"}
  NoMessage = NoMessage
  Null = Null
  NoId <- MCNoId
  EosioBlock <- BareBlocks
  Block <- MCBlock
  Hash <- MCHash
  MaxBlocksToSend = 2
  BlobMessages = TRUE
  Scenarios <- MCScenarios
INVARIANTS BoxKnowsClient ClientStaysSound
PROPERTY Converges
CHECK_DEADLOCK FALSE
