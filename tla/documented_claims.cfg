SPECIFICATION MCSpec
CONSTANTS
  Appenders = {a1}
  Readers = {}
  PerPayload = 1
  PerRerank = 1
  PayloadBlocks = 3
  RerankBlocks = 3
  BuiltN = 1
  BatchSizes = {1}
  MaxOps = 2
  MaxKills = 1
  MaxPowerLoss = 1
INVARIANT SomeClaimStands
CHECK_DEADLOCK FALSE
