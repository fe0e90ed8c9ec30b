SPECIFICATION HFairSpec
CONSTANTS
    Forms <- MCForms
    PM <- MCPM
    NaN = NaN
    MaxAge = 2
INVARIANTS
    TypeOK
    RelaysFollowStatus
    ModeCached
PROPERTIES
    KeepsPromise
    MinimumRunTime
    
    
