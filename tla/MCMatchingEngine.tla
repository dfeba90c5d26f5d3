-------------------------- MODULE MCMatchingEngine --------------------------
EXTENDS EngineRefinement

CONSTANTS o1, o2, o3

ThreeIds == {o1, o2, o3}
TwoPrices == {1, 2}
OneOrThree == {1, 3}
=============================================================================
