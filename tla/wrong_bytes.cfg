SPECIFICATION Spec
CONSTANTS
  Appenders = {a1}
  Readers = {}
  PerPayload = 2
  PerRerank = 1
  PayloadBlocks = 5
  RerankBlocks = 10
  BuiltN = 1
  BatchSizes = {2}
  MaxOps = 4
  MaxKills = 0
  MaxPowerLoss = 1
INVARIANT NoWrongBytes
CHECK_DEADLOCK FALSE
