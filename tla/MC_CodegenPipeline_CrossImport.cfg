\* One fragments module and one result module sharing up to three classes;
\* generation ends once generate_init_code has run.
CONSTANTS
  Fragments = "fragments"
  Results <- MC_Results
  DroppedModules <- MC_DroppedModules
  ClassNames <- MC_ClassNames
  GQLResult <- MC_GQLResult
  ExternalBases <- MC_ExternalBases
  MaxBases <- MC_MaxBases
SPECIFICATION Spec
CHECK_DEADLOCK FALSE
INVARIANT ModuleImportsResolve
