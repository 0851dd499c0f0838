SPECIFICATION FairSpec
CONSTANTS
  Flows = {f1, f2, f3}
  MaxLimit = 2
INVARIANTS PermitsMatch RunsWithPermit NeverOverdrawn
PROPERTIES AcquireReturns
