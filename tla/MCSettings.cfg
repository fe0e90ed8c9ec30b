SPECIFICATION FairSpec
CONSTANTS
    Forms <- MCForms
    Levels = {20, 60}
    Ages = {30}
    MaxRequests = 2
    MaxFaults = 1
CHECK_DEADLOCK FALSE
INVARIANTS
    TypeOK
    SavedTogether
    CacheIsStored
    DecisionsAgree
PROPERTIES
    NotBlocked
