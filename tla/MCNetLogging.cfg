SPECIFICATION FairSpec
CONSTANTS
    Loggers = {httpd, zigbee}
    MaxLines = 2
    Slots = 3
CHECK_DEADLOCK FALSE
INVARIANTS
    TypeOK
    ParametersAlive
    HookedToClient
    InOrder
PROPERTIES
    KeepsChannel
    InitReturns
    
