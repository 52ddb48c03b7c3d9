SPECIFICATION FairSpec
CONSTANTS
    c1 = c1
    c2 = c2
    r1 = r1
    r2 = r2
    r3 = r3
    r4 = r4
    r5 = r5
    Clients = {c1, c2}
    Workers = {w1, w2}
    Routines = {r1, r2, r3, r4, r5}
    Script <- MCScript
    Spawns <- MCSpawns
    Null = Null
    Closed = Closed
INVARIANTS TypeOK OneOwner
PROPERTIES ImplementsSerialExecutor EveryRoutineRuns
CHECK_DEADLOCK FALSE
