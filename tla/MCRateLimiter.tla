---------------------------- MODULE MCRateLimiter ----------------------------
EXTENDS RateLimiter, TLC

CONSTANTS c1, c2, c3

ThreeClients == {c1, c2, c3}
Symmetric == Permutations(ThreeClients)
=============================================================================
