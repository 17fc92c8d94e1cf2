SPECIFICATION Spec
CONSTANTS
    a = a
    b = b
    unit = unit
    integration = integration
    other = other
    m1 = m1
    m2 = m2
    m3 = m3
    d0 = d0
    d1 = d1
    Mutants = {m1, m2, m3}
    Baseline = baseline
    None = none
    Packages = {a, b}
    PackageOf <- MCPackageOf
    Executables = {unit, integration, other}
    OwnerOf <- MCOwnerOf
    Linked <- MCLinked
    Digests = {d0, d1}
    Unmutated = d0
    Instrumented = di
    Leftovers <- MCLeftovers
    Faulty <- MCFaulty
    NWorkers = 2
    Settings <- MCSettings
    MaxFailures = 1
SYMMETRY MutantSymmetry
INVARIANTS
    SkipsRepeatATest
