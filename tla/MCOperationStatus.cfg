SPECIFICATION Spec
CONSTANTS
    Serial = FALSE
    Active = {"timer", "zigbee"}
    Requested = {0, 1, 2}
    Reported = {0, 1, 2}
INVARIANTS
    OperationStatusIsMotorSpeed
