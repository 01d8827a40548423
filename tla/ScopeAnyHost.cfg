\* A host that gives up transfers, never waits and selects settings at any time.
CONSTANTS
  ByteSize = 2
  TimeoutHigh = 1
  TimeoutLow = 1
  LedSharesPort = FALSE
  Used <- Restarts
  Hasty <- Anything
  Abort = TRUE
  Careless = TRUE
SPECIFICATION Spec
INVARIANTS
  TypeOK
  FreshSession
  RedIsTimed
