CONSTANTS
    a = a
    Objects = {a}
    Boundary = Boundary
    COUNT = 4
    DebugModes = {TRUE, FALSE}
    MaxEntries = 9
    MaxPops = 2
SPECIFICATION Spec
INVARIANTS TokensStayValid OneSparePage
PROPERTIES ImplementsPools
CHECK_DEADLOCK FALSE
