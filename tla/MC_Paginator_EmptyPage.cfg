\* A for-loop caller over pages of which one may convert to no objects
\* (Artifacts with a tags filter, or edges with null nodes).
CONSTANTS
  PerPage <- MC_PerPage
  MaxItems <- MC_MaxItems
  MaxFailures <- MC_MaxFailures
  EmptyPagesPossible = TRUE
  RetryNextAfterError = FALSE
  ConvertMayRaise = FALSE
SPECIFICATION Spec
INVARIANT StopMeansExhausted
