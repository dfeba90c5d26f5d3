SPECIFICATION Spec
CONSTANTS
    h1 = h1
    h2 = h2
    Handler <- TwoHandlers
    NoHandler = NoHandler
    Deployment = {"worker", "embedded"}
    Disturbance = {"rest", "link", "relay", "reopen", "restart", "reset"}
    QueueSize = 1
    RelaySize = 1
    MaxConnections = 2
    ReplayLimit = 1
    ChannelSize = 1
    MaxEvent = 3
    MaxSequence = 3
    MaxDisturbances = 2
SYMMETRY Symmetric
INVARIANTS
    SequenceOfBook
    OutcomesTold
PROPERTIES
    NeverBack
