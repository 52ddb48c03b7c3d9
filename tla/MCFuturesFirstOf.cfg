SPECIFICATION Spec
CONSTANTS
    main = main
    f1 = f1
    f2 = f2
    f3 = f3
    Contracts = {f1, f2, f3}
    Clients = {main}
    Workers = {w1, w2}
    Programs <- FirstOfPrograms
    Null = Null
    kValueIsSet = kValueIsSet
    Value = Value
    Exception = Exception
    Moved = Moved
    None = None
INVARIANT FirstOfDelivers
CHECK_DEADLOCK FALSE
