SPECIFICATION FairSpec

CONSTANTS
  MaxUid           = 2
  MaxValidity      = 1
  MaxModseq        = 1
  HasCondstore     = FALSE
  BatchSize        = 2
  HasIdle          = TRUE
  UidnextGiven     = TRUE
  ServerOrdered    = TRUE
  CanHang          = FALSE
  Poison           = {1}
  MaxFaults        = 0
  MaxDiskFails     = 0
  MaxCrashes       = 0
  MaxSignals       = 0
  MaxRuns          = 2

PROPERTIES
  PoisonSkipped
