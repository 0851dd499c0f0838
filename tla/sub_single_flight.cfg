SPECIFICATION ThreadSpec
CONSTANTS
  k = k
  Requests = {a, b}
  Keys = {k}
  Cacheable = {k}
  NoCall = NoCall
  Key <- OneKey
INVARIANTS Consistent WorkIsWanted
PROPERTIES AnsweredUnlessWorking ImplementsCoalescing
