SPECIFICATION FairSpec
CONSTANTS
    main = main
    other = other
    r1 = r1
    r2 = r2
    r3 = r3
    r4 = r4
    r5 = r5
    Workers = {w1, w2}
    Clients = {main, other}
    Routines = {r1, r2, r3, r4, r5}
    Scripts <- MCScripts
    Spawns <- MCSpawns
    kLocalQueueSize = 2
    kRobbedPart = 1
    kMaxLIFORoutinesCount = 1
    kStopTokens = 8
    Word = 16
    Null = Null
INVARIANTS TypeOK EachRoutineInOnePlace CounterIsExact NoLostWakeup NothingLeaks
PROPERTIES IdleMeansDone EveryRoutineRuns CallsReturn
CHECK_DEADLOCK FALSE
