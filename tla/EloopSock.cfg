SPECIFICATION FairSpec
CONSTANTS
    Sock = {1, 2}
    Used <- UsedSmall
    MaxPerSock = 2
    MaxChanges = 2
    MaxNested = 1
    CloseRegistered = TRUE
INVARIANTS
    MaxSockCovers
    NotCalledInOwnDispatch
    WalkStaysInTable
PROPERTIES
    TerminateEndsRun
    ReadySocketServed
