\* Three invocations with and without --iterate, killed anywhere.
SPECIFICATION Spec
CONSTANTS
  r1 = r1
  r2 = r2
  r3 = r3
  m1 = m1
  m2 = m2
  Runs <- ThreeRuns
  Mutants <- TwoMutants
  None = None
  Baseline = Baseline
  Jobs = 2
  Torn = Torn
SYMMETRY Alike
INVARIANTS
  OnlyCaughtIsSkipped
  NothingIsForgotten
  OutcomesAreKept
