CONSTANTS
    m1 = m1
    m2 = m2
    b1 = b1
    Modes = {m1}
    NoMode = NoMode
    TimerModes = {}
    Sources0 = {s1}
    Sources1 = {}
    Blocks = {b1}
    BlockModes <- BlockInM1
    Watched = {"BeforeWaiting"}
    Clients = {c1}
    TimerQueue = TimerQueue
    MaxRuns = 1
    Limits = {"never", "later"}
    Onces = {TRUE, FALSE}
    NestIn = {}
SPECIFICATION FairSpec
PROPERTIES StopReturns TimeoutReturns SourceServed BlockRuns
CHECK_DEADLOCK FALSE
