SPECIFICATION HSpec
CONSTANTS
    Forms <- MCForms
    PM <- MCPM
    NaN = NaN
    MaxAge = 3
PROPERTIES
    AfterrunFollowsPollution
