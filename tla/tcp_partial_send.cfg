CONSTANTS
  None = None
  Capacity = 2
  SendSize = {1, 2}
  ReceiveSize = {2, None}
  MaxBytes <- MCMaxBytes
SPECIFICATION ReadingSpec
CHECK_DEADLOCK FALSE
PROPERTY SendEnds
