SPECIFICATION Spec
CONSTANTS
    p = p
    q = q
    bad = bad
    Patterns <- MCPatterns
    BadPatterns = {bad}
    Asts <- MCAsts
    Returns <- MCReturns
    NoType <- MCNoType
    SkipCalls = {"with_capacity"}
    NameFilters <- MCNameFilters
    Matches <- MCMatches
INVARIANTS
    StacksFollowPath
    MutantsFitTheirPlace
    NothingIsMissed
    ControlFlowIsKept
    NoDuplicates
    LiteralsFlip
    ReturnsFitTheirFunction
    ExternalModsKeepPath
    WrittenExcludesHold
    ReplacementsHaveType
