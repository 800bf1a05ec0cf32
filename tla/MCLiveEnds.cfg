SPECIFICATION FairSpec
CONSTANTS
  Patterns = {"direct", "shell"}
  SinkConfigured = {TRUE, FALSE}
  InitialCredit = 1
  TopupUnits = 2
  Runway = 1
  GraceTicks = 1
  TopupInterval = 1
  MaxEncoded = 1
  MaxTopups <- MCShellOnly
  MaxSeq = 1
  MaxRestarts <- MCNone
  MaxFaults = 1
PROPERTIES CancelEndsSession
CHECK_DEADLOCK FALSE
