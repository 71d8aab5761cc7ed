CONSTANTS
  None = None
  Network = {main, test}
  Kind = {plain, sendOnGenesis}
  Fatal = {sendOnGenesis}
  BlockQueueSize = 2
  MaxPushed = 3
  MaxErrors = 2
  MaxCrashes = 2
SPECIFICATION FairSpec
INVARIANT TypeOK
INVARIANT StorageSound
INVARIANT OneRunLoop
INVARIANT NoLostWakeup
INVARIANT InOrder
PROPERTY Drains
