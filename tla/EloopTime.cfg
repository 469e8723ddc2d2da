SPECIFICATION SpecAll
CONSTANTS
    Usec = 4
    Horizon = 2
    Ptr = {p1, p2, p3}
    Handler = {h}
    WDTHandler = eloop_timeout_handler_for_WDT
    Ctx = {c1, c2}
    ALL = ALL
    NoEntry = NoEntry
    Present <- Now
    Delay <- DelaySmall
    Hz = 2
    Slack = 2
    Era = 50
    UInt = 16
    ULong = 16
    Boot = 5
    Start = 8
    Given <- Delays
    Steps <- BootBackSmall
    MaxSteps = 2
    MaxTimers = 2
    Latest = 6
SYMMETRY Blocks
INVARIANTS
    CurrentIsNearest
    WatchdogGuardsNearest
    NotBeforeGivenTime
    
    StaysSorted
CHECK_DEADLOCK FALSE
