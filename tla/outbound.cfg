CONSTANTS
    ConfirmTtl = 3
    PauseTtl = 3
    Threshold = 2
    Realert = 3
    MaxFaults = 2
    MaxDeploys = 1
    Bodies <- SomeTexts
    TextLimit = 2
    MaxSends = 1
    MaxWrites = 1
SPECIFICATION FairSpec
CHECK_DEADLOCK FALSE
INVARIANTS
    TypeOK
    NoticeAfterPage
    StatusStands
PROPERTIES
    PanelTruth
    SparesDownAccount
    BlockedOnlyIfClosed
    BreakerReopens
    OutageIsPaged
    RejectionIsPaged
