\* Every fragments module of up to three classes with one or two bases.
CONSTANTS
  ClassNames <- MC_ClassNames
  ExternalBases <- MC_ExternalBases
  MaxBases <- MC_MaxBases
SPECIFICATION Spec
INVARIANTS
  ParentsFirst
