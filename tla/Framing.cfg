CONSTANTS
    Base = 4
    S = 3
    C = 2
    M = 1
    n = 2
    Feeds <- MCFeeds
SPECIFICATION FairSpec
INVARIANTS TypeOK InSync NothingMadeUp
PROPERTY AllReturned
CHECK_DEADLOCK FALSE
