SPECIFICATION Spec
CONSTANTS
  Patterns = {"direct", "shell"}
  SinkConfigured = {FALSE}
  InitialCredit = 1
  TopupUnits = 2
  Runway = 1
  GraceTicks = 1
  TopupInterval = 1
  MaxEncoded = 3
  MaxTopups <- MCDirectOnly
  MaxSeq = 3
  MaxRestarts <- MCDirectOnly
  MaxFaults = 0
INVARIANTS ChargedOnce EncodedIsCharged FullGrace
CHECK_DEADLOCK FALSE
