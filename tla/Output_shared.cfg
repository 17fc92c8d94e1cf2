SPECIFICATION Spec
CONSTANTS
    r1 = r1
    r2 = r2
    r3 = r3
    Runs <- TwoRuns
    Earlier = earlier
    Older = older
    None = none
INVARIANTS
    OneRunPerDirectory
