SPECIFICATION OSpec
CONSTANTS
    Serial = FALSE
    Active = {"httpd", "zigbee"}
    Requested = {0, 1, 2}
    Reported = {0, 1, 2}
INVARIANTS
    ManualOverrideHolds
