SPECIFICATION FairSpec
CONSTANTS
  Appenders = {a1}
  Readers = {r1}
  PerPayload = 2
  PerRerank = 1
  PayloadBlocks = 6
  RerankBlocks = 10
  BuiltN = 1
  BatchSizes = {2, 4}
  MaxOps = 4
  MaxKills = 2
  MaxPowerLoss = 0
INVARIANTS TypeOK NoCrossedRecords AckedDurable MountRecent Appendable
PROPERTIES LiveNeverRegresses LockReleased ImplementsStore
CHECK_DEADLOCK FALSE
