SPECIFICATION Spec
CONSTANTS
    p1 = p1
    p2 = p2
    k1 = k1
    k2 = k2
    k3 = k3
    nova = nova
    orbit = orbit
    Processor <- TwoProcessors
    NoProcessor = NoProcessor
    Symbol <- TwoSymbols
    Key <- ThreeKeys
    Request <- TwoMarketRequests
    MaxSequence = 3
    MaxFaults = 1
SYMMETRY Symmetric
CHECK_DEADLOCK FALSE
INVARIANTS
    MarketIsReplay
    AppliedInOrder
    LedgerBalances
PROPERTIES
    BroadcastCommitted
    ImplementsMarketLog
