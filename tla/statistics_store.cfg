SPECIFICATION Spec
CONSTANTS
  kMinuteBucketCount = 2
  W = 2
  MaxGeneration = 3
  MaxSequence = 2
  MaxRecords = 2
  MaxTime = 4
  MaxFaults = 1
  MaxStarts = 2
CHECK_DEADLOCK FALSE
INVARIANTS UnmarkedIsWritten NothingLost WindowIsSum ShutdownWrites
