\* The waveform programs of the logic analyzer, two commands in a row.
CONSTANTS
  DelayHigh <- MCDelayHigh
  DelayLow <- MCDelayLow
SPECIFICATION Spec
INVARIANTS
  TypeOK
  PeriodAsRequested
  OwnProgram
  OnePulsePerSample
