CHECK_DEADLOCK FALSE
SPECIFICATION FairSpec
CONSTANTS
    Sig = {SIGHUP, SIGTERM}
    TermSig = {SIGTERM}
    MaxPerSig = 2
    OtherEvents = TRUE
    NoReg = NoReg
INVARIANTS
    NoMarkLost
    AlarmTracksPending
PROPERTIES
    NotedIsCalled
