SPECIFICATION Spec
CONSTANTS
    d1 = d1
    d2 = d2
    Devices <- MCDevices
    MaxAnnounce <- MCMaxAnnounce
CHECK_DEADLOCK FALSE
PROPERTIES
    AllEndpointsBound
