\* The class order against the name-ordered topological sort of spec.md 4.1.
CONSTANTS
  ClassNames <- MC_ClassNames
  ExternalBases <- MC_ExternalBases
  MaxBases <- MC_MaxBases
SPECIFICATION Spec
INVARIANT TiesBrokenByName
