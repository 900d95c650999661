SPECIFICATION FairSpec
CONSTANTS
  Height = 2
  w1 = w1
  w2 = w2
  Writers = {w1, w2}
  MaxVersion = 2
  SpiFails = TRUE
INVARIANTS
  TypeOK
  NoForgottenLine
PROPERTIES
  ImplementsDisplay
  EventuallyShown
CHECK_DEADLOCK FALSE
