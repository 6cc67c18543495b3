SPECIFICATION SimSpec
CONSTANTS
  b1 = b1
  b2 = b2
  s1 = s1
  s2 = s2
  Report = {b1, b2, s1, s2}
  Contents <- MCContents
  Worker = {w1, w2}
  Simulated <- MCSimulated2
  MaxAttempts = 2
  MaxRestarts = 0
  FaultSets = {{}}
  BatchSize = 2
  BufferPercent = 50
INVARIANTS
  SimulatedReportsCollected
CHECK_DEADLOCK FALSE
