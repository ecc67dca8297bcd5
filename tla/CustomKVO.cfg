CONSTANTS
    cat = cat
    panda1 = panda1
    panda2 = panda2
    Cat = Cat
    Panda = Panda
    A = A
    B = B
    Objects = {cat, panda1, panda2}
    ClassOf <- Made
    Observers = {A, B}
    MayObserve <- OneObserver
    Nil = Nil
    Keys = {name}
    NoKey = NoKey
    Builds <- Demos
SPECIFICATION Spec
INVARIANTS TypeOK IsaShowsObserved
PROPERTIES EveryChangeTold
CHECK_DEADLOCK FALSE
