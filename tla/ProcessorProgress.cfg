SPECIFICATION FairSpec
CONSTANTS
    p1 = p1
    p2 = p2
    k1 = k1
    k2 = k2
    k3 = k3
    nova = nova
    orbit = orbit
    Processor <- TwoProcessors
    NoProcessor = NoProcessor
    Symbol <- OneSymbol
    Key <- TwoKeys
    Request <- FewRequests
    MaxSequence = 2
    MaxFaults = 1
CHECK_DEADLOCK FALSE
PROPERTIES
    QueueAdvances
