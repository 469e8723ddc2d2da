SPECIFICATION Spec
CONSTANTS
    MAX_THREAD = 2
    MonitorType = {sock}
    Off = Off
    TermHandler = TermHandler
    MaxDepth = 6
PROPERTIES
    ThrowReachesInnermost
CHECK_DEADLOCK FALSE
