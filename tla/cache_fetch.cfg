SPECIFICATION FairSpec
CONSTANTS
  Consumers = {c1, c2}
  Cancellable = {c1, c2}
  MaxOps = 3
CHECK_DEADLOCK FALSE
INVARIANTS Consistent
PROPERTIES ConsumerAnswered ImplementsCoalescing
