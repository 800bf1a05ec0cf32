--------------------------- MODULE MCGPUScheduler ---------------------------
(* Three clients on machines of one and two slots.  The configurations     *)
(* include a reserve as large as the machine, a negative reserve, a cost   *)
(* budget below one slot, an explicit cost reserve above the budget, a     *)
(* cost reserve without a slot reserve, and the no-op controller.          *)
EXTENDS GPUScheduler, TLC

MCConfig(slots, reserved, cost, reservedCost) ==
  [TotalSlots |-> slots, LiveReservedSlots |-> reserved,
   TotalCost |-> cost, LiveReservedCost |-> reservedCost]

MCConfigs == { MCConfig(2, 1, 0, 0), MCConfig(2, 2, 0, -5),
               MCConfig(1, 1, 130, 0), MCConfig(2, -1, 70, 900),
               MCConfig(2, 0, 0, 60), MCConfig(0, 0, 0, 0) }

MCRequest(w, slots, cost) == [workload |-> w, slots |-> slots, cost |-> cost]

MCRequests == { MCRequest("batch", 1, 0), MCRequest("batch", 1, 40),
                MCRequest("live", 0, 60) }

=============================================================================
