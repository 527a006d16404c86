--------------------------- MODULE MC_ModelServing ---------------------------
EXTENDS ModelServing, TLC

CONSTANTS m1, m2, p1, p2

\* m1 is served through both providers, m2 through the second only.
SharedProvider == {<<m1, p1>>, <<m1, p2>>, <<m2, p2>>}
\* One model that can switch between two providers.
OneModel == {<<m1, p1>>, <<m1, p2>>}
\* Each model has a provider to itself, the first with weight zero.
TwoPairs == {<<m1, p1>>, <<m2, p2>>}
SecondPair == {<<m2, p2>>}
\* Clients of one candidate: the one whose provider the other model shares.
SharedTraffic == {<<m1, p2>>}

PodSymmetry == Permutations(Pods)
=============================================================================
