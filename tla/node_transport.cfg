CONSTANTS
  e1 = e1
  e2 = e2
  m1 = m1
  m2 = m2
  None = None
  EndPoint = {e1, e2}
  Message = {m1, m2}
  Batches <- MCBatches
  BufferSize = 2
  MaxOffered = 4
  MaxFaults = 2
SPECIFICATION FairSpec
INVARIANT TypeOK
INVARIANT NeverTrapped
INVARIANT NeverStranded
INVARIANT SenderInSync
PROPERTY FifoDelivery
PROPERTY QuietWhenTerminated
PROPERTY KeepsGoing
