\* Reset, suspend, resume and wakeup against the main loop and its handlers.
CONSTANTS
  Alternates <- Some
  Recovers = TRUE
  MaxEvents = 3
SPECIFICATION Spec
INVARIANTS
  TypeOK
  NothingLost
  PacketsFit
PROPERTIES
  SleepsAndWakes
