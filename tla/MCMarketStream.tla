---------------------------- MODULE MCMarketStream ----------------------------
EXTENDS MarketStream, TLC

CONSTANTS h1, h2

TwoHandlers == {h1, h2}
Symmetric == Permutations(TwoHandlers)
=============================================================================
