\* A host that ends its transfers, and waits for the main loop after a STALL only.
CONSTANTS
  ByteSize = 2
  TimeoutHigh = 1
  TimeoutLow = 1
  LedSharesPort = FALSE
  Used <- Sampling
  Hasty <- NotRefused
  Abort = FALSE
  Careless = FALSE
SPECIFICATION FairSpec
INVARIANTS
  NoEarlyAck
  ActsOnOwnData
  EngineFeedsSelected
PROPERTIES
  ControlCompletes
