------------------------------ MODULE MCTable -------------------------------
EXTENDS Table, TLC

CONSTANTS k1, k2, k3, k4

MCKey == {k1, k2, k3, k4}
MCValue == {TRUE}

MCSymmetry == Permutations(MCKey)
=============================================================================
