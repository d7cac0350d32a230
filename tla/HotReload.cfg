\* The process ends: nothing happens after "stopped" or "failed".
SPECIFICATION FairSpec

CONSTANTS
  MaxSaves        = 4
  MaxOverflows    = 1
  Broken          = {2}
  PartialCompiles = TRUE

INVARIANTS
  TypeOK
  OneScriptPerBatch
  CaughtUp

PROPERTIES
  NeverGoesBack
  LastSaveLoaded
  ComesToRest
  StopCompletes

CHECK_DEADLOCK FALSE
