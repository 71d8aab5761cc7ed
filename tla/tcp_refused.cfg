CONSTANTS
  None = None
  Capacity = 2
  SendSize = {1, 2}
  ReceiveSize = {2, None}
  MaxBytes <- MCMaxBytes
SPECIFICATION Spec
CHECK_DEADLOCK FALSE
INVARIANT ConnectedIsConnected
