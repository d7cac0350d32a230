SPECIFICATION RFairSpec

CONSTANTS
  Folders       <- MCFolders
  Existing      <- MCExisting
  Cases         <- MCCases
  Servers       <- MCServers
  Tokens        <- MCTokens
  HasSmtp       = TRUE
  OthersExpunge = TRUE
  MaxFaults     = 2
  MaxReturns    = 1
  MaxCount      = 9

INVARIANTS
  TypeOK
  NeverLost
  OkMeansScript
  HeadersExact
  RepeatsAccountedFor

PROPERTIES
  EventuallyDone

\* A message that is done, or out of reach, is left alone.
CHECK_DEADLOCK FALSE
