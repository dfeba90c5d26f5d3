SPECIFICATION FairSpec
CONSTANTS
    o1 = o1
    o2 = o2
    o3 = o3
    NoOrder = NoOrder
    OrderId <- ThreeIds
    Price <- TwoPrices
    Quantity <- OneOrThree
    MaxSequence = 3
\* every id and sequence may have been used up
CHECK_DEADLOCK FALSE
INVARIANTS
    QuantityConserved
    SnapshotAgreesWithQuery
    NeverBookInvariantError
PROPERTIES
    CallsReturn
    PriceTimePriority
    ImplementsOrderBook
