SPECIFICATION Spec
CONSTANTS
  Copies = 2
  Blocks = 2
  PerSector = 2
  Budgets = {2}
  FailedOut = 2
  Protections = {"replicate"}
  MaxRots = 2
  MaxFaults = 0
PROPERTIES RecoverableKept
CHECK_DEADLOCK FALSE
