CONSTANTS
  None = None
  MaxEntries = 10
SPECIFICATION Spec
INVARIANT CallerKnowsEnough
PROPERTY SilentOnceTerminated
CHECK_DEADLOCK FALSE
