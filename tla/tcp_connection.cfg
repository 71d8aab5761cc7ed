CONSTANTS
  None = None
  Capacity = 2
  SendSize = {1, 2}
  ReceiveSize = {2, None}
  MaxBytes <- MCMaxBytes
SPECIFICATION FairSpec
INVARIANT SlotsSound
INVARIANT StreamSound
PROPERTY SilentOnceClosed
PROPERTY ConnectAndReceiveEnd
CHECK_DEADLOCK FALSE
