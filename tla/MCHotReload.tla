----------------------------- MODULE MCHotReload -----------------------------
EXTENDS HotReload

CONSTANTS l1, l2, l3, p1, p2

\* l2 is l1 re-targeted: both bind p1.
MCPortOf == [l \in Label |-> IF l = l3 THEN p2 ELSE p1]
=============================================================================
