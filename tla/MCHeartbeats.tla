----------------------------- MODULE MCHeartbeats -----------------------------
EXTENDS Heartbeats, TLC

CONSTANTS i1, i2

TwoInstances == {i1, i2}

SlowOrFast == {-1, 1}
Symmetric == Permutations(TwoInstances)
=============================================================================
