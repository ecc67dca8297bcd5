CONSTANTS
    m1 = m1
    m2 = m2
    b1 = b1
    Modes = {m1, m2}
    NoMode = NoMode
    TimerModes = {m1}
    Sources0 = {}
    Sources1 = {}
    Blocks = {b1, b2}
    BlockModes <- BlocksMixed
    Watched = {"BeforeWaiting"}
    Clients = {c1}
    TimerQueue = TimerQueue
    MaxRuns = 2
    Limits = {"never", "later"}
    Onces = {FALSE}
    NestIn <- LateCallouts
SPECIFICATION Spec
INVARIANTS NoLostWakeUp
PROPERTIES NoBlockLost
CHECK_DEADLOCK FALSE
