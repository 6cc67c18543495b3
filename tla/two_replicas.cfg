SPECIFICATION Spec
CONSTANTS
  w1 = w1
  w2 = w2
  w3 = w3
  Worker = {w1, w2, w3}
  HelperOf <- MCTwoAndOne
  Kinds = {"hierarchical"}
  PipelineRunner <- MCDataflow
  Faults = {"lease"}
  DeadLetter = TRUE
  MaxDeliveryAttempts = 2
  MaxCopies = 1
  MaxRuns = 2
  PrefixLengths <- MCPrefixLengths2
  ExpansionThresholdPerPrefix <- MCThresholds2
  BucketIDs <- MCBucketIDs
  KeyBitSize = 2
  Modulus = 8
  DpfVectors <- MCDpfVectors
  NoiseVectors <- NoNoise
INVARIANTS
  NoSilentLoss
  LevelsInOrder
CHECK_DEADLOCK FALSE
