SPECIFICATION Spec
CONSTANTS
  c1 = c1
  c2 = c2
  c3 = c3
  Workers = {w1, w2}
  Connections = {c1, c2}
  Transport <- MCTransport
  Wake = wake
  Kinds = {"search", "badBody", "read", "stats", "other", "malformed"}
  MaxBatch = 2
  MaxRequests = 2
  MaxOpenFailures = 1
SYMMETRY Symmetry
INVARIANTS TypeOK StorageConserved StatsExact StopsWhenAsked
PROPERTY InFlightAnswered
CHECK_DEADLOCK FALSE
