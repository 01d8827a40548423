\* All requests, bus resets and speed changes at any time.
CONSTANTS
  Indices <- SomeIndices
  StringNumbers <- SomeStrings
  Asked <- Varied
  Reconfigures = FALSE
  ResetsBusy = TRUE
SPECIFICATION FairSpec
INVARIANTS
  TypeOK
  PictureTrue
  ToggleAgrees
  AnswersTrue
PROPERTIES
  RequestCompletes
