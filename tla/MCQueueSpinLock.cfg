SPECIFICATION FairSpec
CONSTANTS
    Threads = {t1, t2, t3}
    Null = Null
INVARIANTS TypeOK MutualExclusion GuardsAlive
PROPERTIES GrantedInOrder NobodyHangs
