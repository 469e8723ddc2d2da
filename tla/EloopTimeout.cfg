SPECIFICATION FairSpec
CONSTANTS
    Usec = 2
    Horizon = 1
    Ptr = {p1, p2, p3}
    Handler = {h}
    c1 = c1
    c2 = c2
    Ctx = {c1, c2}
    Data <- DataSmall
    ALL = ALL
    NoEntry = NoEntry
    Delay <- DelaySmall
INVARIANTS
    TypeOK
    ServiceOrder
    NoDoubleUse
    NoOversleep
PROPERTIES
    NoneDueWhenNoneFires
    ImplementsTimerSet
    NoStarvation
