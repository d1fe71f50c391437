--------------------------- MODULE MCFootballSync ---------------------------
EXTENDS FootballSync
CONSTANTS l1, c1, c2, t1, t2, p1, p2, w1, w2
TheHome == [t \in Teams |-> l1]
TheRequests == {Leagues, {c1}}
Symmetry == Permutations(Workers)
=============================================================================
