CONSTANTS
    m1 = m1
    m2 = m2
    b1 = b1
    Modes = {m1}
    NoMode = NoMode
    TimerModes = {m1}
    Sources0 = {s1}
    Sources1 = {}
    Blocks = {b1}
    BlockModes <- BlockInM1
    Watched = {"BeforeWaiting"}
    Clients = {c1}
    TimerQueue = TimerQueue
    MaxRuns = 2
    Limits = {"never"}
    Onces = {FALSE}
    NestIn <- EarlyCallouts
SPECIFICATION Spec
INVARIANTS NoLostWakeUp
CHECK_DEADLOCK FALSE
