SPECIFICATION Spec
CONSTANTS
    Serial = FALSE
    Active = {"timer", "httpd", "zigbee"}
    Requested = {0, 1}
    Reported = {0, 2}
INVARIANTS
    TypeOK
    OnlyRacesDisagree
    OnlyRacesLoseMode
PROPERTIES
    PressWins
