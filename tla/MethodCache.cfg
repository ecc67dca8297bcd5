CONSTANTS
    t1 = t1
    t2 = t2
    A = A
    B = B
    s1 = s1
    s2 = s2
    Threads = {t1, t2}
    NoThread = NoThread
    Classes = {A, B}
    NoClass = NoClass
    Super <- TwoClasses
    Sels = {s1, s2}
    NoSel = NoSel
    Hash <- Addresses
    Sends <- Messages
    Implements <- HaveMethods
    Resolves <- Resolved
    INIT_CACHE_SIZE = 4
    Quarters = 1
    Buffers = {1, 2, 3, 4}
    GarbageMax = 1
    MaxVersion <- OneEach
SPECIFICATION Spec
INVARIANTS ReadsLiveBuckets ReturnsCurrent CachesAreCurrent
CHECK_DEADLOCK FALSE
SYMMETRY Symmetry
