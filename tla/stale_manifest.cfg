SPECIFICATION Spec
CONSTANTS
  Appenders = {a1, a2}
  Readers = {}
  PerPayload = 2
  PerRerank = 1
  PayloadBlocks = 4
  RerankBlocks = 8
  BuiltN = 1
  BatchSizes = {2}
  MaxOps = 2
  MaxKills = 0
  MaxPowerLoss = 0
INVARIANT AckedDurable
CHECK_DEADLOCK FALSE
