SPECIFICATION FairSpec
CONSTANTS
  p1 = p1
  p2 = p2
  p3 = p3
  Clients = {p1, p2, p3}
  Requests <- MCRequests
  Configs <- MCConfigs
  MaxAcquires = 1
INVARIANTS TypeOK SlotsExact SlotReserveHonoured CostReserveHonoured NoMissedWakeup
  WaitersSatisfiable
PROPERTIES CancelledWaiterLeaves QueuedEventuallyAnswered ImplementsAdmission
CHECK_DEADLOCK FALSE
