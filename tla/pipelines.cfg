SPECIFICATION JobSpec
CONSTANTS
  r1 = r1
  r2 = r2
  r3 = r3
  Report = {r1, r2, r3}
  Raw <- MCRaw
  Worker = {w1, w2}
  Queries <- MCQueries
  KeyCount = 1
  MaxRuns = 2
  MaxFailures = 2
  MaxFaults = 2
  MaxJobRuns = 2
  Mask <- MCMask
  ReachMask <- MCReachMask
  Noise <- MCNoise
  PrefixLengths <- MCPrefixLengths
  ExpansionThresholdPerPrefix <- MCThresholds
  BucketIDs = {5, 6}
  KeyBitSize = 3
  Modulus = 8
  DpfVectors <- MCDpfVectors
  NoiseVectors <- MCNoiseVectors
INVARIANTS
  TypeOK
  PublishedReadable
  DpfJobImplementsQuery
  MergedIsPlainHistogram
  ReachVerifies
  OnePartySums
  DecryptedOnce
  EveryReportPassedOn
  FailureExplained
CHECK_DEADLOCK FALSE
