SPECIFICATION Spec
CONSTANTS
  slow8 = slow8
  fast16 = fast16
  long = long
  NoCmd = NoCmd
  Cmds <- MCCmds
  Wide <- MCWide
  Fast <- MCFast
  LongDelay <- MCLongDelay
  Buffers = 2
  LedPeriod = 1
  WarmBoot = FALSE
  StartWhen = {"STOPPED", "PREPARED"}
  BackToBack = FALSE
  Abort = FALSE
INVARIANT ReconfigureOnlyWhenIdle
