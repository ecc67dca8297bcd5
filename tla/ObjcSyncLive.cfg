CONSTANTS
    Threads = {t1, t2}
    Objects = {a, b}
    Data = {d1, d2}
    Stripes = {s1}
    StripeOf <- OneStripe
    FirstSlots = 1
    None = None
    MaxDepth = 2
    MaxBadExits = 1
    MayNest = FALSE
SPECIFICATION FairSpec
PROPERTIES CallReturns
