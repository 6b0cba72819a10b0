SPECIFICATION FairSpec
CONSTANTS
  FlushThreshold = 2
  MaxText = 2
  MaxBytes = 4
  MaxQueue = 1
INVARIANTS LineAtomic SyncReaches
PROPERTIES Implements CallsReturn LineVisible
