------------------------- MODULE MC_RouterGetSamples -------------------------
EXTENDS RouterGetSamples, TLC

CONSTANTS k1, k2, v1, v2, g1, g2, s1, s2

\* each comm group has one server
MCCommList == [g \in CommIDs |-> IF g = g1 THEN {v1} ELSE {v2}]

\* comm group g2 spans both servers
MCCommListShared == [g \in CommIDs |-> IF g = g1 THEN {v1} ELSE {v1, v2}]
====
