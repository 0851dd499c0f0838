SPECIFICATION FairSpec
CONSTANTS
  t1 = t1  t2 = t2  t3 = t3
  Tasks = {t1, t2, t3}
  Workers = {w1, w2}
  Stoppers = {s1}
  NoTask = NoTask
  max_entries_ = 2
  max_bytes_ = 3
  Cost <- MCCost
  Bytes <- MCBytes
  Deadline <- MCDeadline
  Never = 2
  Cancellable = {t1}
  AgeLimit = 1
  MaxTime = 1
CHECK_DEADLOCK FALSE
INVARIANTS Accounted WithinLimits
PROPERTIES SettledOnce EveryTaskSettled ShutdownTerminates
