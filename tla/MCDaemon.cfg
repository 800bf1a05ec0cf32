SPECIFICATION Spec
CONSTANTS
  CapabilityNames = {"vod", "live"}
  Hosts <- MCHosts
INVARIANTS BindingsKnown LadderEncodable
PROPERTIES ProcessEnds
CHECK_DEADLOCK FALSE
