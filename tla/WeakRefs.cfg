CONSTANTS
    t1 = t1
    t2 = t2
    o1 = o1
    o2 = o2
    c1 = c1
    c2 = c2
    l1 = l1
    l2 = l2
    Threads = {t1, t2}
    NoThread = NoThread
    Objects = {o1, o2}
    Nil = Nil
    Locations = {l1, l2}
    Tables = {1, 2}
    TableOf <- TwoTables
    Classes = {c1, c2}
    NoClass = NoClass
    ClassOf <- OwnClass
    Lazy = {c1}
    Overriding = {c1}
    MaxOwned = 1
SPECIFICATION Spec
INVARIANTS TablesMatchVariables NoLockCycle
PROPERTIES ImplementsZeroing
CHECK_DEADLOCK FALSE
