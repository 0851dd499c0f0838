SPECIFICATION ExecutorFairSpec
CONSTANTS
  Tasks = {t1, t2, i1, i2}
  Inner = {i1, i2}
  Workers = {w1, w2}
  Stoppers = {s1}
  Joiners = {s1}
  NoTask = NoTask
  queue_capacity_ = 1
CHECK_DEADLOCK FALSE
INVARIANTS Consistent JoinedMeansOver
PROPERTIES EveryCallReturns
