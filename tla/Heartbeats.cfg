SPECIFICATION Spec
CONSTANTS
    i1 = i1
    i2 = i2
    Instance <- TwoInstances
    Interval = 2
    Stale = 6
    Poll = 0
    Backoff = 1
    MaxWork = 1
    Skew <- SlowOrFast
    MaxSkew = 1
    MaxFaults = 2
SYMMETRY Symmetric
INVARIANTS
    OnlineIsRecent
    NoFlap
