CONSTANTS
  Never = Never
  EndPoint = {a, b}
  Invalid = {x}
  ListSize = 2
  RefreshInterval = 2
  OfflineInterval = 5
  KeepaliveSize = 1
SPECIFICATION FairSpec
INVARIANT TableSound
INVARIANT KeepsAlive
PROPERTY PingsSpaced
PROPERTY NeverAlone
