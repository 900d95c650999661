SPECIFICATION FairSpec
CONSTANTS
  PktSize = 2
  MaxSize = 5
  Uses <- MCUses
  Reconfigure = FALSE
INVARIANTS
  TypeOK
  BankCounts
  StreamInOrder
PROPERTY TransfersEnd
