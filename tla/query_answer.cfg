SPECIFICATION Spec
CONSTANTS
  Volumes <- MCVolumes
  PerBlock = 2
  Chunk = 2
  R = 4
  K = 2
  Score = {0, 1, 2}
  Exact = {0, 1}
  MaxIntruders = 2
INVARIANTS HeapKeepsBest ScansHeldOnce AnswerExact IncumbentSurvives StatsAgree
CHECK_DEADLOCK FALSE
