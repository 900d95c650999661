SPECIFICATION FairSpec
CONSTANTS
  Height = 2
  Pages <- MCPages
  PageOf <- MCPageOf
  w1 = w1
  w2 = w2
  Writers = {w1}
  MaxVersion = 2
  MaxUrbs = 2
  Faults = {"alloc", "submit", "status"}
INVARIANTS
  NoForgottenLine
  BuffersAccounted
PROPERTIES
  ImplementsDisplay
  EventuallyShown
CHECK_DEADLOCK FALSE
