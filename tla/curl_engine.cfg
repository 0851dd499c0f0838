SPECIFICATION FairSpec
CONSTANTS
  Transfers <- MCTransfers
  Cancellable <- MCCancellable
  Requesters <- MCRequesters
  Window = 1
  RetryLimit = 1
INVARIANTS
  TransfersAccounted
  NothingOutlivesShutdown
  CancellationNoticed
PROPERTY EverythingEnds
CHECK_DEADLOCK FALSE
