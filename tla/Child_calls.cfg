SPECIFICATION PoliteSpec
CONSTANTS
    cargo = cargo
    t1 = t1
    t2 = t2
    Cargo = cargo
    Tests <- TwoTests
    Timed = {TRUE, FALSE}
    MaxFaults = 1
INVARIANTS
    GoneBeforeReturn
    VerdictIsOwn
PROPERTIES
    StopsEventually
