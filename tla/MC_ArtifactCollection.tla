------------------------ MODULE MC_ArtifactCollection ------------------------
(* Model-checking instance of ArtifactCollection: two names, two           *)
(* descriptions, two ordinary types and one reserved type, two tags.       *)
EXTENDS ArtifactCollection, TLC

CONSTANTS n1, n2, d1, d2, dataset, model, wandbHistory, tagA, tagB

MC_Names == {n1, n2}
MC_Descriptions == {d1, d2}
MC_Types == {dataset, model, wandbHistory}
MC_Reserved == {wandbHistory}
MC_Tags == {tagA, tagB}
MC_MaxFailures == 2
MC_Symmetry == Permutations(MC_Names) \cup Permutations(MC_Descriptions)
                 \cup Permutations(MC_Tags)
=============================================================================
