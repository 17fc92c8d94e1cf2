\* Six trees, with every interleaving of two threads, and over a thousand diffs.
SPECIFICATION Spec
CONSTANTS
  Unsupported = Unsupported
  Workspaces <- MCWorkspaces
  Invocations <- MCInvocations
  Parallelism = 2
INVARIANTS
  WalkIsSerial
  WindowIsFull
  ModulesFollowRust
  DiffMarksEveryChange
  TestsWhatIsDue
