CONSTANTS
    m1 = m1
    m2 = m2
    m3 = m3
    ann = ann
    Messages = {m1, m2, m3}
    ChatOf <- OneChat
    Sort <- Sorts
    Batches <- TwoPosts
    Via <- MetaAndLegacy
    Copies = 2
    RateLimit = 2
    MaxTries = 3
    MaxPosts = 3
    MaxFaults = 2
SPECIFICATION FairSpec
CHECK_DEADLOCK FALSE
INVARIANTS
    TypeOK
    Accounted
    HandledOnce
    OneJobPerChat
    DroppedBehindAnother
PROPERTIES
    BacklogDrains
    ShieldLifts
