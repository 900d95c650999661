SPECIFICATION Spec
CONSTANTS
  Height = 2
  Pages <- MCPages
  PageOf <- MCPageOf
  w1 = w1
  w2 = w2
  Writers = {w1}
  MaxVersion = 2
  MaxUrbs = 2
  Faults = {}
INVARIANT DisconnectDeallocates
CHECK_DEADLOCK FALSE
