---------------------------- MODULE MC_Paginator ----------------------------
(* Model-checking instance of Paginator: pages of two edges, at most five  *)
(* edges (three pages, the last one short), two fetches that raise.        *)
EXTENDS Paginator

MC_PerPage == 2
MC_MaxItems == 5
MC_MaxFailures == 2
=============================================================================
