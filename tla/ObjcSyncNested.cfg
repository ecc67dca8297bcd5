CONSTANTS
    Threads = {t1, t2}
    Objects = {a, b}
    Data = {d1, d2}
    Stripes = {s1}
    StripeOf <- OneStripe
    FirstSlots = 1
    None = None
    MaxDepth = 2
    MaxBadExits = 1
    MayNest = TRUE
SPECIFICATION Spec
INVARIANTS
    TypeOK NeverFatal ReleaseOwnsMutex CountCoversUsers OneBlockPerObject WaitIsJustified
CHECK_DEADLOCK FALSE
PROPERTIES RetargetUnusedOnly ImplementsMonitors
