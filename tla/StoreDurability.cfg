SPECIFICATION Spec

CONSTANTS
  States       = {"s0", "s1", "s2"}
  Default      = "s0"
  MaxPowerCuts = 2

INVARIANTS
  TypeOK
  NeverCorrupt

PROPERTIES
  ImplementsDurableState
