SPECIFICATION FairSpec
CONSTANTS
    r1 = r1
    r2 = r2
    r3 = r3
    Runs <- ThreeRuns
    Earlier = earlier
    Older = older
    None = none
INVARIANTS
    AloneUnlessRaced
PROPERTIES
    LaterRunsWait
    EveryRunEnds
