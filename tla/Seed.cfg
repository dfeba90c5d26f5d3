SPECIFICATION SeedSpec
CONSTANTS
    p1 = p1
    d1 = d1
    nova = nova
    guest = guest
    Processor <- OneProcessor
    NoProcessor = NoProcessor
    Symbol <- Markets
    Key <- Keys
    Request <- Requests
    MaxSequence = 6
    MaxFaults = 0
    Seeder <- OneSeeder
    Starter = nova
    Pairs <- TwoPairs
    Rest <- OneOffer
    Visitor <- OneVisitor
    VisitorRequest <- VisitorRequests
CHECK_DEADLOCK FALSE
INVARIANTS
    VerifiedIsThere
    OthersSpoil
PROPERTIES
    VerifiedAgain
