SPECIFICATION FairSpec
CONSTANTS
    Sig = {SIGHUP}
    TermSig = {}
    MaxPerSig = 2
    OtherEvents = TRUE
    NoReg = NoReg
PROPERTIES
    SignalCalled
