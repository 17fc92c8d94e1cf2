SPECIFICATION FairConsoleSpec
CONSTANTS
    m1 = m1
    m2 = m2
    m3 = m3
    f1 = f1
    f2 = f2
    l1 = l1
    l2 = l2
    p1 = p1
    p2 = p2
    baseline = baseline
    original = original
    torn = torn
    none = none
    Mutants <- Mutants3
    Baseline = baseline
    SourceFiles = {f1, f2}
    FileOf <- MCFileOf
    Lines = {l1, l2}
    LineOf <- MCLineOf
    ConstEval <- OnlyM3
    Fingerprints = {p1, p2}
    Original = original
    Torn = torn
    None = none
    MutantLists <- NoneOneOrAll
    Jobs = 2
    LabOptions <- QueueOptions
    CargoExits <- PassOrFail
    MaxFaults = 1
INVARIANTS
    EachMutantOnce
    BaselineComesFirst
    ListsMatchCounters
    SuccessIsComplete
    ConsoleFollowsLab
PROPERTIES
    EventuallyEnds
