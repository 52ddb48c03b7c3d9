SPECIFICATION Spec
CONSTANTS
    main = main
    other = other
    f1 = f1
    f2 = f2
    f3 = f3
    c1 = c1
    c2 = c2
    x1 = x1
    x2 = x2
    x3 = x3
    x4 = x4
    p1 = p1
    p2 = p2
    Fibers = {f1, f2, f3}
    Threads = {main, other}
    Workers = {w1, w2}
    Locks = {"mutex", "condvar", c1, c2}
    ChannelNames = {c1, c2}
    kCapacity <- MCCapacity
    kArgsCount = 2
    Values = {x1, x2, x3, x4}
    Contracts = {p1, p2}
    kValueIsSet = kValueIsSet
    Programs <- YieldPrograms
    Null = Null
INVARIANT SuspendedNotDeleted
CHECK_DEADLOCK FALSE
