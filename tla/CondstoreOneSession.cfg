\* One session that never ends.
SPECIFICATION Spec

CONSTANTS
  MaxUid           = 3
  MaxValidity      = 1
  MaxModseq        = 5
  HasCondstore     = TRUE
  BatchSize        = 1
  HasIdle          = TRUE
  UidnextGiven     = TRUE
  ServerOrdered    = TRUE
  CanHang          = FALSE
  Poison           = {2}
  MaxFaults        = 0
  MaxDiskFails     = 0
  MaxCrashes       = 0
  MaxSignals       = 0
  MaxRuns          = 1

INVARIANTS
  NoSkip
