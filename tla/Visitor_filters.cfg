SPECIFICATION Spec
CONSTANTS
    p = p
    q = q
    bad = bad
    Patterns <- MCPatterns
    BadPatterns = {bad}
    Asts <- StructTrees
    Returns <- MCReturns
    NoType <- MCNoType
    SkipCalls = {"with_capacity"}
    NameFilters <- MCNameFilters
    Matches <- MCMatches
INVARIANTS
    NameFiltersApply
