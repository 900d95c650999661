SPECIFICATION RxFairSpec
CONSTANTS
  RxBufSize = 2
  Banks = 2
  ReadSizes = {3}
  MaxSent = 3
  MaxRead = 1
PROPERTIES
  ReceivesInOrder
  ReceivesInTheEnd
CHECK_DEADLOCK FALSE
