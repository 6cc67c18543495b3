SPECIFICATION FairSpec
CONSTANTS
  w1 = w1
  w2 = w2
  w3 = w3
  Worker = {w1, w2}
  HelperOf <- MCOneEach
  Kinds = {"direct", "reach", "oneparty"}
  PipelineRunner <- MCOneDirect
  Faults = {"run", "job", "page", "crash", "ack"}
  DeadLetter = TRUE
  MaxDeliveryAttempts = 2
  MaxCopies = 1
  MaxRuns = 3
  PrefixLengths <- MCPrefixLengths2
  ExpansionThresholdPerPrefix <- MCThresholds2
  BucketIDs <- MCBucketIDs
  KeyBitSize = 2
  Modulus = 8
  DpfVectors <- MCDpfVectors
  NoiseVectors <- NoNoise
INVARIANTS
  NoSilentLoss
PROPERTIES
  EventuallySettled
CHECK_DEADLOCK FALSE
