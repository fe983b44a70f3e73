------------------------ MODULE MC_CodegenPipeline ------------------------
EXTENDS CodegenPipeline

MC_Results == {"get_artifact"}
MC_DroppedModules == {"client"}
MC_ClassNames == 1 .. 3
MC_GQLResult == 11
MC_ExternalBases == {11, 12}
MC_MaxBases == 1
=============================================================================
