------------------------------ MODULE MCServices ------------------------------
(* Services on a small instance; the inputs of the functions without state are  *)
(* those of MCLaws.                                                            *)
EXTENDS Services, TLC

CONSTANTS a1, a2, k1, k2, c1, c2, w1, w2, w3, t1, t2, r1, r2, i1, i2, s1, s2, d, x1, x2

I == INSTANCE MCLaws

EveryInput == I!EveryInput
SomeVersions == I!SomeVersions
TwoApps == {a1, a2}
TwoKeys == {k1, k2}
TwoClusters == {c1, c2}
AKeyEach == k1 :> c1 @@ k2 :> c2
ThreeWords == {w1, w2, w3}
IndexedWords == a1 :> {w1} @@ a2 :> {w2}
ShortWords == a1 :> {} @@ a2 :> {w3}
TwoTerms == {t1, t2}
TermHits == t1 :> {w1, w3} @@ t2 :> {w2}
TwoRepos == {r1, r2}
OneBuiltIn == {r1}
OneCluster == {c1}
TwoInstalls == {i1, i2}
TwoSecrets == {s1, s2}
ThreeAccounts == {d, x1, x2}
OwnAccounts == i1 :> x1 @@ i2 :> x2
===============================================================================
