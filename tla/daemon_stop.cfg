SPECIFICATION FairSpec
CONSTANTS
  c1 = c1
  c2 = c2
  c3 = c3
  Workers = {w1, w2}
  Connections = {c1, c2, c3}
  Transport <- MCTransport
  Wake = wake
  Kinds = {"read"}
  MaxBatch = 1
  MaxRequests = 1
  MaxOpenFailures = 0
PROPERTIES ShutdownStops QueuedServed
CHECK_DEADLOCK FALSE
