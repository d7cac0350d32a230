\* The process ends: nothing happens after "stopped" or "failed".
SPECIFICATION FairSpec

CONSTANTS
  MaxSaves        = 1
  MaxOverflows    = 0
  Broken          = {}
  PartialCompiles = TRUE


PROPERTIES
  EveryChangeSeen

CHECK_DEADLOCK FALSE
