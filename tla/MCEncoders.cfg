SPECIFICATION EncodersSpec
CONSTANTS
  MaxPublishes = 2
  Scenarios <- MCScenarios
INVARIANTS NoSendAfterClose
PROPERTIES EncodersEnd CrashNoticed
CHECK_DEADLOCK FALSE
