\* Faults in any step but the bytes that the EEPROM sends.
CONSTANTS
  Base = 2
  Sizes <- OneAndTwoBytes
  Lengths <- OneOrTwo
  MaxFaults = 2
  ReadErrors = FALSE
  Prompt = TRUE
SPECIFICATION Spec
INVARIANTS
  TypeOK
  BusReleased
  FailsForCause
PROPERTIES
  ImplementsEeprom
