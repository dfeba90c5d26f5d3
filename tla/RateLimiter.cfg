SPECIFICATION Spec
CONSTANTS
    c1 = c1
    c2 = c2
    c3 = c3
    Client <- ThreeClients
    Overflow = Overflow
    Limit = 2
    Window = 4
    TicksPerSecond = 2
    MaxKeys = 1
    MaxTime = 13
SYMMETRY Symmetric
\* the clock stops at its bound
CHECK_DEADLOCK FALSE
INVARIANTS
    WindowHolds
    SharedWhenCrowded
PROPERTIES
    RefusalJustified
    RetryAfterHonest
