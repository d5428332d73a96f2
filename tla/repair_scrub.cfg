SPECIFICATION Spec
CONSTANTS
  Copies = 2
  Blocks = 4
  PerSector = 2
  Budgets = {1, 3}
  FailedOut = 2
  Protections = {"replicate", "detect"}
  MaxRots = 3
  MaxFaults = 1
INVARIANTS TypeOK PassFindsDamage
PROPERTIES OnlySectorAtRisk ErasesJustified
CHECK_DEADLOCK FALSE
