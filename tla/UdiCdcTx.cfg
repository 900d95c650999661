SPECIFICATION TxFairSpec
CONSTANTS
  TxBufSize = 2
  WriteSizes = {1, 3}
  Frames = 2
  ZlpDelay = 2
  Spills = FALSE
  MaxWritten = 5
PROPERTIES
  SendsInOrder
  SendsInTheEnd
CHECK_DEADLOCK FALSE
