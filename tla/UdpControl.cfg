SPECIFICATION CtlFairSpec
CONSTANTS
  PktSize = 2
  MaxLength = 4
  Aborts = TRUE
INVARIANTS
  DataComplete
  PhaseEndsTogether
  StallsOnlyItsRequest
  CallbackOnceAfterHandshake
PROPERTY TransfersEnd
