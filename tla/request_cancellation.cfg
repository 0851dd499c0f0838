SPECIFICATION FairSpec
CONSTANTS
  Cancellers = {t1}
  Finalizers = {f1}
  Registrants = {r1, r2}
CHECK_DEADLOCK FALSE
INVARIANTS Consistent 
PROPERTIES SendingIsSpared CallbacksDelivered
