---------------------------- MODULE MCWaveManager ----------------------------
(* Three children with every way of blocking one another, but for renaming *)
(* them, in both trackers.                                                 *)
EXTENDS WaveManager, TLC

CONSTANTS c1, c2, c3, o1

Graphs == {b \in [Child -> SUBSET Child] : \A c \in Child : c \notin b[c]}

\* b and whatever differs from it by the children's names.
Same(b) ==
    {h \in Graphs : \E f \in Permutations(Child) :
        \A c \in Child : h[f[c]] = {f[d] : d \in b[c]}}

Shapes == {CHOOSE h \in Same(b) : TRUE : b \in Graphs}
=============================================================================
