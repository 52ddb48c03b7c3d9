SPECIFICATION FairSpec
CONSTANTS
    main = main
    f1 = f1
    f2 = f2
    f3 = f3
    Contracts = {f1, f2, f3}
    Clients = {main}
    Workers = {w1, w2}
    Programs <- MCPrograms
    Null = Null
    kValueIsSet = kValueIsSet
    Value = Value
    Exception = Exception
    Moved = Moved
    None = None
INVARIANTS TypeOK ValuesReclaimed ResultsFollow
PROPERTIES ImplementsOneShot EverythingSettles
CHECK_DEADLOCK FALSE
