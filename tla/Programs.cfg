SPECIFICATION SpecAll
CONSTANTS
    Main = main
    Server = server
    Ptr = {p1, p2}
    Handler = {h}
    Delay <- DelayNs
    NoEntry = NoEntry
    ALL = ALL
    Usec = 4
    Milli = 2
    UInt = 3
    Far = 2
    Sig = {SIGTERM}
    TermSig = {SIGTERM}
    Horizon = 1
    MaxSigs = 1
    MAX_THREAD = 2
    MonitorType = {sock, timer}
    Off = Off
    TermHandler = TermHandler
    MaxDepth = 6
    Pid = {c1, c2, c3}
    File = {f1, f2}
    Absent = Absent
    NoPid = NoPid
    PoolSlots = 2
    Unit = 3
    PoolSize <- PoolSizes
    MadeFor <- MadeFors
    Size = {1, 2, 3, 4}
    HeapBlock = {b1, b2}
    Ref = {r1, r2, r3}
    NULL = NULL
    Objects = {o1, o2}
    Pairs = {q1, q2}
    Keys = {k1}
    NoPair = NoPair
    KeepSignals = TRUE
    DATA_SIZE = 7
    BULK_BUF_SIZE = 9
    Sector = 2
    MAX_LOGLINE_SIZE = 5
    Stamp = 1
    Beyond = 100
    Writes <- LfsWrites
    Times = {1, 2, 4, 5, 8}
    Offsets = {1}
    MaxLines = 5
    MaxSize = 40
SYMMETRY Symmetry
INVARIANTS
    SleepsInTime
    MarkedIsNoticed
    MonitorGuardsHandlers
    PidFilesNameChildren
    BlocksHaveOneOwner
    PairsOwned
    RangesFound
    RangesInWholeLines
    TextsSurvive
    AddressesSurvive
    StreamSurvives
PROPERTIES
    ImplementsTimerSets
    InnermostUntilNestedEnds
    ImplementsRegistry
CHECK_DEADLOCK FALSE
