\* Modules in which no redundant class derives from another redundant class.
CONSTANTS
  ClassNames <- MC_ClassNames
  GQLResult <- MC_GQLResult
  ExternalBases <- MC_ExternalBases
  MaxBases <- MC_MaxBases
  Chains = FALSE
SPECIFICATION Spec
INVARIANTS
  NoDanglingReference
