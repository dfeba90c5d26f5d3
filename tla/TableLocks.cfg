SPECIFICATION FairTablesSpec
CONSTANTS
    s1 = s1
    s2 = s2
    k1 = k1
    k2 = k2
    buy = buy
    r1 = r1
    Session <- TwoSessions
    NoSession = NoSession
    NoCall = NoCall
    Key <- TwoKeys
    Request <- OneRequest
    Postgres = TRUE
    MaxQueued = 1
    MaxTotal = 1
    MaxSequence = 2
    Reader <- OneReader
CHECK_DEADLOCK FALSE
INVARIANTS
    ViewIsWhole
    CapacityHolds
PROPERTIES
    TransactionsEnd
    ImplementsCommandJournal
