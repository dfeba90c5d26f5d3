SPECIFICATION FairSpec
CONSTANTS
    MaxKeys = 3
    MaxFaults = 2
INVARIANTS
    NothingLeftOpen
    OneBuyer
PROPERTIES
    EndingCreatesNothing
    LessonEnds
