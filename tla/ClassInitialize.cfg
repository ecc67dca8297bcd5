CONSTANTS
    root = root
    a = a
    b = b
    c = c
    d = d
    Classes = {root, a, b, c, d}
    NoClass = NoClass
    Threads = {t1, t2}
    Super <- Hierarchy
    Touches <- Downwards
    Trivial = {root, d}
    MayFork = TRUE
    MayThrow = TRUE
SPECIFICATION FairSpec
INVARIANTS TypeOK NeverFatal ContiguousFromRoot OneInitializer
PROPERTIES ReturnsReady MessageReturns
CHECK_DEADLOCK FALSE
