\* A hung connection may leave the daemon stuck for good.
SPECIFICATION Spec

CONSTANTS
  MaxUid           = 3
  MaxValidity      = 2
  MaxModseq        = 1
  HasCondstore     = FALSE
  BatchSize        = 2
  HasIdle          = TRUE
  UidnextGiven     = TRUE
  ServerOrdered    = TRUE
  CanHang          = TRUE
  Poison           = {}
  MaxFaults        = 1
  MaxDiskFails     = 1
  MaxCrashes       = 1
  MaxSignals       = 0
  MaxRuns          = 2

INVARIANTS
  TypeOK
  IInv
  NoSkip

PROPERTIES
  DurableCursorAdvances
  StaleCursorNeverUsed
  OnlyNewestRefetched
  RefinesAtLeastOnce

CHECK_DEADLOCK FALSE
