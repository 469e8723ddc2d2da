SPECIFICATION Spec
CONSTANTS
    Usec = 4
    Hz = 2
    Slack = 2
    Era = 0
    UInt = 16
    ULong = 256
    Boot = 5
    Start = 40
    Delay <- Delays
    Steps <- NoChange
    MaxSteps = 0
    MaxTimers = 2
    Horizon = 20
    ALL = ALL
CHECK_DEADLOCK FALSE
INVARIANTS
    NotBeforeGivenTime
