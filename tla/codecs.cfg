SPECIFICATION Spec
CONSTANTS
  MaxDepth = 32
  MaxStackSize = 3
  NameLength = 4
  CodeLength = 3
  AmountBits = 8
  Interval = 5
  Epoch = 8
  TimeBits = 6
  UsPerMs = 2
  MsPerSecond = 10
  ByteValues = 3
  Types <- AbiMap
  Documents <- MCDocuments
  Inputs <- MCInputs
INVARIANT AbiRoundTrips
PROPERTIES  ReflectedReadsBack ChainTypesHold  BacktraceIsRight
CHECK_DEADLOCK FALSE
