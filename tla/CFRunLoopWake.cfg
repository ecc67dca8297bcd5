CONSTANTS
    m1 = m1
    m2 = m2
    b1 = b1
    Modes = {m1}
    NoMode = NoMode
    TimerModes = {m1}
    Sources0 = {s1, s2}
    Sources1 = {p1}
    Blocks = {}
    BlockModes <- BlockInM1
    Watched = {"BeforeWaiting", "AfterWaiting"}
    Clients = {c1}
    TimerQueue = TimerQueue
    MaxRuns = 1
    Limits = {"later", "zero"}
    Onces = {TRUE, FALSE}
    NestIn = {}
SPECIFICATION Spec
INVARIANTS TypeOK NoLostWakeUp OnceServesOnce
SYMMETRY Symmetry
CHECK_DEADLOCK FALSE
