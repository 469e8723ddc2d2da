SPECIFICATION Spec
CONSTANTS
    Objects = {o1}
    Pairs = {p1, p2}
    Keys = {k1}
    None = None
    KeepSignals = FALSE
PROPERTY
    ImplementsRegistry
