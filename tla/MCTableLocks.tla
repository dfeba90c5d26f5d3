----------------------------- MODULE MCTableLocks -----------------------------
EXTENDS TableLocks

CONSTANTS s1, s2, k1, k2, buy, r1

TwoSessions == {s1, s2}
TwoKeys == {k1, k2}
OneRequest == {buy}
OneReader == {r1}
=============================================================================
