SPECIFICATION FairSpec
CONSTANTS
  Patterns = {"direct"}
  SinkConfigured = {TRUE}
  InitialCredit = 1
  TopupUnits = 2
  Runway = 1
  GraceTicks = 1
  TopupInterval = 1
  MaxEncoded = 2
  MaxTopups <- MCNone
  MaxSeq = 1
  MaxRestarts <- MCNone
  MaxFaults = 0
PROPERTIES GraceExpiryCloses
CHECK_DEADLOCK FALSE
