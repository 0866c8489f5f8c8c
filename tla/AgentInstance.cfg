SPECIFICATION FairSpec
CONSTANTS
  Runs = {r1, r2}
  NoRun = NoRun
  TTL = 2
  MaxGap = 1
  HandRuns = TRUE
  Horizon = 2
  MaxFaults = 1
  MaxOperator = 2
INVARIANTS
  TypeOK
  NeverStranded
  OnlyTheDeadAreCleanedUp
  DrainHasTheDoor
  HoldsAreKept
PROPERTIES
  DeadRunsAreCleanedUp
