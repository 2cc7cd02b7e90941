------------------------------- MODULE MCPages -------------------------------
(* Pages for one instance in two clusters, and for two repositories that share *)
(* an app.                                                                     *)
EXTENDS Pages, TLC

CONSTANTS c1, c2, i1, k1, g1, g2, r1, r2, here

OneInstance == {i1}
TwoClusters == {c1, c2}
InFirstCluster == i1 :> c1
OneKey == i1 :> k1
TwoSlugs == {g1, g2}
TwoRepos == {r1, r2}
OneSuseSlug == {g1}
SharedApp == r1 :> {g1, g2} @@ r2 :> {g2}
\* An app in the second cluster; a release named like the current cluster may follow.
FirstDeployments == {c1 :> {} @@ c2 :> {g2}}
=============================================================================
