SPECIFICATION Spec
CONSTANTS
  slow8 = slow8
  fast16 = fast16
  long = long
  NoCmd = NoCmd
  Cmds <- NarrowAndLong
  Wide <- NoCmds
  Fast <- NoCmds
  LongDelay <- MCLongDelay
  Buffers = 1
  LedPeriod = 2
  WarmBoot = TRUE
  StartWhen = {"STOPPED", "PREPARED", "RUNNING"}
  BackToBack = TRUE
  Abort = TRUE
INVARIANTS
  TypeOK
  CommandStable
  QuiescentReset
  LedCounterLive
  NeverUntracked
  NoReadInManualMode
