SPECIFICATION OSpec
CONSTANTS
    Serial = TRUE
    Active = {"timer", "httpd", "zigbee", "main"}
    Requested = {0, 1, 2}
    Reported = {0, 1, 2}
PROPERTIES
    KeepsPromiseAtRest
