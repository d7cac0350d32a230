SPECIFICATION Spec

CONSTANTS
  MaxUid           = 2
  MaxValidity      = 1
  MaxModseq        = 1
  HasCondstore     = FALSE
  BatchSize        = 2
  HasIdle          = TRUE
  UidnextGiven     = FALSE
  ServerOrdered    = TRUE
  CanHang          = FALSE
  Poison           = {}
  MaxFaults        = 1
  MaxDiskFails     = 1
  MaxCrashes       = 2
  MaxSignals       = 0
  MaxRuns          = 5

INVARIANTS
  ExecutionsBounded
