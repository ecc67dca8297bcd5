CONSTANTS
    t1 = t1
    t2 = t2
    t3 = t3
    Threads = {t1, t2, t3}
    NoThread = NoThread
    RC_HALF = 2
    MaxOwned = 2
SPECIFICATION Spec
INVARIANTS TypeOK OwnedIsAlive FreedIsForgotten
PROPERTIES ImplementsCounter
CHECK_DEADLOCK FALSE
