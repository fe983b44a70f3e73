\* ArtifactCollections: convert_objects may raise while building an
\* ArtifactCollection (its load() finds no such collection); the caller
\* starts a new for loop after the error.
CONSTANTS
  PerPage <- MC_PerPage
  MaxItems <- MC_MaxItems
  MaxFailures <- MC_MaxFailures
  EmptyPagesPossible = FALSE
  RetryNextAfterError = FALSE
  ConvertMayRaise = TRUE
SPECIFICATION Spec
INVARIANT YieldedInOrder
