SPECIFICATION Spec
CONSTANTS
  Appenders = {a1}
  Readers = {}
  PerPayload = 2
  PerRerank = 2
  PayloadBlocks = 4
  RerankBlocks = 4
  BuiltN = 1
  BatchSizes = {2, 4}
  MaxOps = 3
  MaxKills = 0
  MaxPowerLoss = 1
INVARIANTS LiveManifestExists
PROPERTIES ImplementsStore
CHECK_DEADLOCK FALSE
