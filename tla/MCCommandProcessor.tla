------------------------- MODULE MCCommandProcessor -------------------------
EXTENDS CommandProcessor

CONSTANTS p1, p2, k1, k2, k3, nova, orbit

TwoProcessors == {p1, p2}
TwoKeys == {k1, k2}
ThreeKeys == {k1, k2, k3}
OneSymbol == {nova}
TwoSymbols == {nova, orbit}

Order(symbol, side, price, quantity) ==
    [kind |-> "submit", symbol |-> symbol, side |-> side, price |-> price,
     quantity |-> quantity]
Cancel(symbol, target) ==
    [kind |-> "cancel", symbol |-> symbol, target |-> target]

TwoMarketRequests ==
    {Order(nova, "buy", 1, 2), Order(nova, "buy", 2, 2),
     Order(nova, "sell", 1, 1), Order(nova, "sell", 2, 2),
     Order(orbit, "buy", 1, 1), Order(orbit, "sell", 1, 1),
     Cancel(nova, 1), Cancel(orbit, 2)}

FewRequests == {Order(nova, "buy", 1, 1), Order(nova, "sell", 1, 1), Cancel(nova, 1)}

Symmetric == Permutations(TwoProcessors) \cup Permutations(ThreeKeys)
=============================================================================
