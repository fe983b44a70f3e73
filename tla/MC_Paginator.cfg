\* A for-loop caller over pages that each keep at least one object.
CONSTANTS
  PerPage <- MC_PerPage
  MaxItems <- MC_MaxItems
  MaxFailures <- MC_MaxFailures
  EmptyPagesPossible = FALSE
  RetryNextAfterError = FALSE
  ConvertMayRaise = FALSE
SPECIFICATION Spec
INVARIANTS
  TypeOK
  CacheIsServerPrefix
  YieldedInOrder
  StopMeansExhausted
  GetItemAgrees
PROPERTIES
  ImplementsLazyList
