SPECIFICATION SimSpec
CONSTANTS
  b1 = b1
  b2 = b2
  s1 = s1
  s2 = s2
  Report = {b1, b2, s1}
  Contents <- MCContents
  Worker = {w1}
  Simulated <- MCSimulated1
  MaxAttempts = 2
  MaxRestarts = 1
  FaultSets = {{"write", "timeout"}, {"network"}, {"crash", "restart"}}
  BatchSize = 2
  BufferPercent = 50
INVARIANTS
  TypeOK
  AcceptedIsKept
  FilesPaired
  DebugBatchesAgree
  RejectedNeverStored
  BatchesFill
  StoredOncePerRequest
  DoneWhenAllSent
PROPERTIES
  RequestsEnd
  ShutdownEnds
  SimulatorEnds
CHECK_DEADLOCK FALSE
