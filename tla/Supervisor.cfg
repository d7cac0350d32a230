SPECIFICATION FairSpec

CONSTANTS
  Files        <- MCFiles
  Width        = 3
  MaxRotations = 2

INVARIANTS
  TypeOK
  PasswordOnlyOverTls
  NeverStalePassword
  BackedOff

PROPERTIES
  RunsUntilAsked
  ShutdownCompletes

\* The process ends.
CHECK_DEADLOCK FALSE
