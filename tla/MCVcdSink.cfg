SPECIFICATION FairSpec
CONSTANTS
  BatchFlush = 2
  CommitThreshold = 2
  MaxWrite = 1
  MaxItems = 5
  MaxQueue = 1
INVARIANTS TypeOK StreamOrder StreamIntact FlushReaches
PROPERTIES FlushCompletes DropReturns Implements
