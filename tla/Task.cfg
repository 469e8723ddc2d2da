SPECIFICATION FairSpec
CONSTANTS
    Tasks = {t1, t2}
    Default = Default
    Null = Null
    UserData = {0, 4}
    Word = 4
    MaxFrames = 2
INVARIANTS
    NothingLeftBehind
PROPERTIES
    ImplementsCoroutine
    SleepEnds
CHECK_DEADLOCK FALSE
