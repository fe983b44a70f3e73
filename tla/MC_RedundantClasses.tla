------------------------ MODULE MC_RedundantClasses ------------------------
(* Model-checking instance of RedundantClasses: up to three classes named  *)
(* 1..3 with one base each, the external bases GQLResult (11) and an      *)
(* imported type (12).                                                     *)
EXTENDS RedundantClasses

MC_ClassNames == 1 .. 3
MC_GQLResult == 11
MC_ExternalBases == {11, 12}
MC_MaxBases == 1
=============================================================================
