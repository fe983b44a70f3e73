------------------------- MODULE MC_FragmentOrder -------------------------
(* Model-checking instance of FragmentOrder: up to three classes named 1..3 *)
(* with one or two bases each, among them the external bases 11 and 12     *)
(* (GQLResult and an imported fragment type).                              *)
EXTENDS FragmentOrder

MC_ClassNames == 1 .. 3
MC_ExternalBases == {11, 12}
MC_MaxBases == 2
=============================================================================
