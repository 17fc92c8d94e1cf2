SPECIFICATION Spec
CONSTANTS
    Totals <- UpToNine
    Counts <- UpToFive
INVARIANTS
    EachMutantOnce
    RoundRobinIsEven
