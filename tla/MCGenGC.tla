------------------------------- MODULE MCGenGC -------------------------------
EXTENDS GenGC, Naturals, FiniteSets

CONSTANTS n1, n2, s1

MCObj == {n1, n2, s1}
MCStr == {s1}
MCRefSets == {R \in SUBSET MCObj : Cardinality(R) <= 2}
=============================================================================
