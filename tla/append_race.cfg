SPECIFICATION Spec
CONSTANTS
  Appenders = {a1, a2}
  Readers = {r1}
  PerPayload = 2
  PerRerank = 1
  PayloadBlocks = 5
  RerankBlocks = 8
  BuiltN = 1
  BatchSizes = {1, 2, 4}
  MaxOps = 3
  MaxKills = 0
  MaxPowerLoss = 0
SYMMETRY Symmetry
INVARIANTS HeldIntact NeverRefused
PROPERTIES ReadersUndisturbed
CHECK_DEADLOCK FALSE
