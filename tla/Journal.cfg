SPECIFICATION EitherSpec
CONSTANTS
    s1 = s1
    s2 = s2
    k1 = k1
    k2 = k2
    buy = buy
    sell = sell
    Session <- TwoSessions
    NoSession = NoSession
    NoCall = NoCall
    Key <- TwoKeys
    Request <- TwoRequests
    Postgres = TRUE
    MaxQueued = 1
    MaxTotal = 2
    MaxSequence = 4
SYMMETRY Symmetric
CHECK_DEADLOCK FALSE
INVARIANTS
    AnswersAgree
    OneCommandPerKey
    ConflictIsExplained
PROPERTIES
    VisibleInOrder
    ImplementsJournal
