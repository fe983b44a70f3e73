\* Modules in which a redundant class may derive from another redundant class.
CONSTANTS
  ClassNames <- MC_ClassNames
  GQLResult <- MC_GQLResult
  ExternalBases <- MC_ExternalBases
  MaxBases <- MC_MaxBases
  Chains = TRUE
SPECIFICATION Spec
INVARIANT NoDanglingReference
