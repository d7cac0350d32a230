SPECIFICATION FairSpec

CONSTANTS
  MaxUid           = 3
  MaxValidity      = 1
  MaxModseq        = 1
  HasCondstore     = FALSE
  BatchSize        = 2
  HasIdle          = TRUE
  UidnextGiven     = TRUE
  ServerOrdered    = TRUE
  CanHang          = FALSE
  Poison           = {}
  MaxFaults        = 1
  MaxDiskFails     = 0
  MaxCrashes       = 1
  MaxSignals       = 1
  MaxRuns          = 1

INVARIANTS
  ShutdownWithinBatch

PROPERTIES
  EverySettled
  ShutdownCompletes
