SPECIFICATION FairSpec
CONSTANTS
  w1 = w1
  w2 = w2
  w3 = w3
  Worker = {w1, w2}
  HelperOf <- MCOneEach
  Kinds = {"hierarchical"}
  PipelineRunner <- MCDataflow
  Faults = {}
  DeadLetter = FALSE
  MaxDeliveryAttempts = 2
  MaxCopies = 1
  MaxRuns = 2
  PrefixLengths <- MCPrefixLengths3
  ExpansionThresholdPerPrefix <- MCThresholds3
  BucketIDs <- MCBucketIDs
  KeyBitSize = 3
  Modulus = 8
  DpfVectors <- MCDpfVectors
  NoiseVectors <- MCNegativeNoise
PROPERTIES
  BothComplete
CHECK_DEADLOCK FALSE
