SPECIFICATION FairBSpec
CONSTANTS
    MaximumRetry = 3
    QueueSize = 3
    Names = {"home", "other"}
    Words = {"right", "wrong"}
    HomeName = "home"
    HomeWord = "right"
    MaxRestarts = 2
CHECK_DEADLOCK FALSE
INVARIANTS
    BTypeOK
    FallsBackOnlyAfterRetries
    NeverIdleUnnoticed
    ShowsAddress
    WrongIsCorrectable
PROPERTIES
    GivesUpOnlyAfterRetries
    ComesUp
    ScreenCatchesUp
