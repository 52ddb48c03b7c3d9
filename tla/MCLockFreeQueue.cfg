SPECIFICATION FairSpec
CONSTANTS
    t1 = t1
    t2 = t2
    t3 = t3
    x1 = x1
    x2 = x2
    x3 = x3
    Threads = {t1, t2, t3}
    Survivor = t1
    Nodes = {n1, n2, n3, n4}
    Items = {x1, x2, x3}
    Programs <- MCPrograms
    kOneCounter = 100
    kCounts = 50
    MaxCount = 3
    Null = Null
INVARIANTS TypeOK NodesReclaimed
PROPERTIES ImplementsFifo NothingMeansEmpty SurvivorFinishes
CHECK_DEADLOCK FALSE
