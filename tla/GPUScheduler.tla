---------------------------- MODULE GPUScheduler ----------------------------
(***************************************************************************)
(* Host-local GPU admission (internal/providers/scheduler/scheduler.go).   *)
(*                                                                         *)
(* One slotController is shared by every runner goroutine.  A live request *)
(* is admitted or refused at once; a batch request waits on a sync.Cond    *)
(* until it fits beside the headroom reserved for live work, or until its  *)
(* context is cancelled.  Everything between Lock and Unlock (or between   *)
(* Lock and cond.Wait, which releases the mutex and parks in one step) is  *)
(* one atomic action here.                                                 *)
(***************************************************************************)
EXTENDS Integers, FiniteSets, FiniteSetsExt

CONSTANTS
  Clients,      \* goroutines that call Acquire (job workers, live sessions)
  Requests,     \* the requests a client may submit
  Configs,      \* the raw Config values New may be called with
  MaxAcquires   \* bound: Acquire calls per client

UnitsPerSlot == 100

Workload == {"batch", "live"}

ASSUME ClientsAssumption == IsFiniteSet(Clients)

(* What callers ask for: they pass Slots: 1, and workloadcost estimates a  *)
(* preset's cost and clamps it to at most one slot's worth of units.       *)
CallerRequest(r) ==
  /\ r \in [workload : Workload, slots : Int, cost : Int]
  /\ r.slots <= 1
  /\ r.cost <= UnitsPerSlot

ASSUME RequestsAssumption == \A r \in Requests : CallerRequest(r)

ASSUME ConfigsAssumption ==
  Configs \subseteq [TotalSlots : Int, LiveReservedSlots : Int,
                     TotalCost : Int, LiveReservedCost : Int]

ASSUME MaxAcquiresAssumption == MaxAcquires \in Nat

VARIABLES
  cfg,              \* the normalised configuration of the controller
  active, activeBatch, activeLive,              \* slots in use
  activeCost, activeBatchCost, activeLiveCost,  \* cost units in use
  queuedBatch,      \* batch requests inside Acquire
  pc,               \* where each client is: see PC
  req,              \* the normalised request a client last submitted
  ctxDone,          \* has the client's context been cancelled?
  watcher,          \* is the goroutine that turns ctx.Done into a Broadcast up?
  acquires          \* Acquire calls made so far, for the bound

slotVars == <<active, activeBatch, activeLive>>
costVars == <<activeCost, activeBatchCost, activeLiveCost>>
counters == <<active, activeBatch, activeLive,
              activeCost, activeBatchCost, activeLiveCost>>
vars == <<cfg, active, activeBatch, activeLive, activeCost, activeBatchCost,
          activeLiveCost, queuedBatch, pc, req, ctxDone, watcher, acquires>>

(* idle: outside the scheduler, no lease.  parked: inside cond.Wait.       *)
(* woken: signalled, about to re-test the loop condition.  holding: owns a *)
(* lease.  released: owns a lease whose sync.Once has fired.               *)
PC == {"idle", "parked", "woken", "holding", "released"}

NormalRequest == [workload : Workload, slots : Int, cost : Int]

------------------------------------------------------------------------------
(* New and the two admission tests. *)

Least(a, b) == IF a <= b THEN a ELSE b
Greatest(a, b) == IF a <= b THEN b ELSE a

(* Mutant of New: the reserves are not clamped below the totals. *)
NewUnclamped(raw) ==
  [noop |-> raw.TotalSlots <= 0,
   total |-> raw.TotalSlots,
   liveReserved |-> Greatest(raw.LiveReservedSlots, 0),
   totalCost |-> IF raw.TotalCost <= 0
                 THEN raw.TotalSlots * UnitsPerSlot ELSE raw.TotalCost,
   liveCostReserved |-> Greatest(raw.LiveReservedCost, 0)]

(* New: fills in and clamps the configuration; TotalSlots <= 0 gives the   *)
(* no-op controller.                                                       *)
New(raw) ==
  LET totalCost == IF raw.TotalCost <= 0
                   THEN raw.TotalSlots * UnitsPerSlot ELSE raw.TotalCost
      reservedSlots == Least(Greatest(raw.LiveReservedSlots, 0),
                             raw.TotalSlots - 1)
      maxReservedCost == Greatest(totalCost - UnitsPerSlot, 0)
      wantedCost == IF raw.LiveReservedCost <= 0
                    THEN reservedSlots * UnitsPerSlot ELSE raw.LiveReservedCost
  IN  IF raw.TotalSlots <= 0
      THEN [noop |-> TRUE, total |-> 0, liveReserved |-> 0,
            totalCost |-> 0, liveCostReserved |-> 0]
      ELSE [noop |-> FALSE,
            total |-> raw.TotalSlots,
            liveReserved |-> reservedSlots,
            totalCost |-> totalCost,
            liveCostReserved |-> Least(wantedCost, maxReservedCost)]

(* The head of Acquire: non-positive fields take their defaults. *)
Normalise(r) ==
  LET slots == IF r.slots <= 0 THEN 1 ELSE r.slots
  IN  [workload |-> r.workload,
       slots |-> slots,
       cost |-> IF r.cost <= 0 THEN slots * UnitsPerSlot ELSE r.cost]

(* The two early returns before the lock is taken. *)
TooLarge(r) == r.slots > cfg.total \/ r.cost > cfg.totalCost

(* Mutant of canAllocateLive: only live work is looked at. *)
canAllocateLiveAlone(slots, cost) ==
  activeLive + slots <= cfg.total /\ activeLiveCost + cost <= cfg.totalCost

canAllocateLive(slots, cost) ==
  active + slots <= cfg.total /\ activeCost + cost <= cfg.totalCost

(* Mutant of canAllocateBatch: the live slot reserve is not looked at. *)
canAllocateBatchNoSlotReserve(slots, cost) ==
  /\ active + slots <= cfg.total
  /\ activeCost + cost <= cfg.totalCost - cfg.liveCostReserved

(* Mutant of canAllocateBatch: the live cost reserve is not looked at. *)
canAllocateBatchNoCostReserve(slots, cost) ==
  /\ active + slots <= cfg.total - cfg.liveReserved
  /\ activeCost + cost <= cfg.totalCost

canAllocateBatch(slots, cost) ==
  /\ active + slots <= cfg.total - cfg.liveReserved
  /\ activeCost + cost <= cfg.totalCost - cfg.liveCostReserved

------------------------------------------------------------------------------
Init ==
  /\ cfg \in {New(raw) : raw \in Configs}
  /\ active = 0 /\ activeBatch = 0 /\ activeLive = 0
  /\ activeCost = 0 /\ activeBatchCost = 0 /\ activeLiveCost = 0
  /\ queuedBatch = 0
  /\ pc = [p \in Clients |-> "idle"]
  /\ req = [p \in Clients |->
              [workload |-> "batch", slots |-> 1, cost |-> UnitsPerSlot]]
  /\ ctxDone = [p \in Clients |-> FALSE]
  /\ watcher = [p \in Clients |-> FALSE]
  /\ acquires = [p \in Clients |-> 0]

(* The counter updates of a grant, by workload. *)
Count(r) ==
  /\ active' = active + r.slots
  /\ activeCost' = activeCost + r.cost
  /\ IF r.workload = "live"
     THEN /\ activeLive' = activeLive + r.slots
          /\ activeLiveCost' = activeLiveCost + r.cost
          /\ UNCHANGED <<activeBatch, activeBatchCost>>
     ELSE /\ activeBatch' = activeBatch + r.slots
          /\ activeBatchCost' = activeBatchCost + r.cost
          /\ UNCHANGED <<activeLive, activeLiveCost>>

Uncount(r) ==
  /\ active' = active - r.slots
  /\ activeCost' = activeCost - r.cost
  /\ IF r.workload = "live"
     THEN /\ activeLive' = activeLive - r.slots
          /\ activeLiveCost' = activeLiveCost - r.cost
          /\ UNCHANGED <<activeBatch, activeBatchCost>>
     ELSE /\ activeBatch' = activeBatch - r.slots
          /\ activeBatchCost' = activeBatchCost - r.cost
          /\ UNCHANGED <<activeLive, activeLiveCost>>

(* cond.Broadcast: every parked client becomes runnable. *)
Broadcast == [p \in Clients |-> IF pc[p] = "parked" THEN "woken" ELSE pc[p]]

(* A client enters Acquire with request r; the watcher goroutine of its    *)
(* previous batch request has exited.                                      *)
Submit(p, r) ==
  /\ pc[p] = "idle"
  /\ acquires[p] < MaxAcquires
  /\ ~watcher[p]
  /\ req' = [req EXCEPT ![p] = Normalise(r)]
  /\ acquires' = [acquires EXCEPT ![p] = @ + 1]
  /\ UNCHANGED <<cfg, ctxDone>>

(* noopController.Acquire: every request is granted and nothing counted. *)
AcquireNoop(p, r) ==
  /\ cfg.noop
  /\ Submit(p, r)
  /\ pc' = [pc EXCEPT ![p] = "holding"]
  /\ UNCHANGED <<counters, queuedBatch, watcher>>

(* Acquire refuses: larger than the whole machine, or live with no room.   *)
AcquireRefused(p, r) ==
  LET n == Normalise(r) IN
  /\ ~cfg.noop
  /\ Submit(p, r)
  /\ \/ TooLarge(n)
     \/ n.workload = "live" /\ ~canAllocateLive(n.slots, n.cost)
  /\ UNCHANGED <<pc, counters, queuedBatch, watcher>>

(* Acquire of a live request that fits. *)
AcquireLive(p, r) ==
  LET n == Normalise(r) IN
  /\ ~cfg.noop
  /\ Submit(p, r)
  /\ ~TooLarge(n)
  /\ n.workload = "live"
  /\ canAllocateLive(n.slots, n.cost)
  /\ Count(n)
  /\ pc' = [pc EXCEPT ![p] = "holding"]
  /\ UNCHANGED <<queuedBatch, watcher>>

(* Acquire of a batch request, up to its first cond.Wait or its return:    *)
(* the request is granted if it fits (a cancelled context is not looked    *)
(* at), dropped if it does not fit and the context is done, else parked.   *)
(* queuedBatch returns to its value on every path that leaves Acquire.     *)
AcquireBatch(p, r) ==
  LET n == Normalise(r) IN
  /\ ~cfg.noop
  /\ Submit(p, r)
  /\ ~TooLarge(n)
  /\ n.workload = "batch"
  /\ watcher' = [watcher EXCEPT ![p] = TRUE]
  /\ \/ /\ canAllocateBatch(n.slots, n.cost)
        /\ Count(n)
        /\ pc' = [pc EXCEPT ![p] = "holding"]
        /\ UNCHANGED queuedBatch
     \/ /\ ~canAllocateBatch(n.slots, n.cost)
        /\ ctxDone[p]
        /\ UNCHANGED <<counters, pc, queuedBatch>>
     \/ /\ ~canAllocateBatch(n.slots, n.cost)
        /\ ~ctxDone[p]
        /\ pc' = [pc EXCEPT ![p] = "parked"]
        /\ queuedBatch' = queuedBatch + 1
        /\ UNCHANGED counters

(* Mutant of Recheck: the deferred queuedBatch-- is missed on the error.   *)
RecheckLeaksQueued(p) ==
  LET n == req[p] IN
  /\ pc[p] = "woken"
  /\ \/ /\ canAllocateBatch(n.slots, n.cost)
        /\ Count(n)
        /\ pc' = [pc EXCEPT ![p] = "holding"]
        /\ queuedBatch' = queuedBatch - 1
     \/ /\ ~canAllocateBatch(n.slots, n.cost)
        /\ pc' = [pc EXCEPT ![p] = IF ctxDone[p] THEN "idle" ELSE "parked"]
        /\ UNCHANGED <<counters, queuedBatch>>
  /\ UNCHANGED <<cfg, req, ctxDone, watcher, acquires>>

(* A woken waiter regains the mutex and runs the loop once more. *)
Recheck(p) ==
  LET n == req[p] IN
  /\ pc[p] = "woken"
  /\ \/ /\ canAllocateBatch(n.slots, n.cost)
        /\ Count(n)
        /\ pc' = [pc EXCEPT ![p] = "holding"]
        /\ queuedBatch' = queuedBatch - 1
     \/ /\ ~canAllocateBatch(n.slots, n.cost)
        /\ ctxDone[p]
        /\ pc' = [pc EXCEPT ![p] = "idle"]
        /\ queuedBatch' = queuedBatch - 1
        /\ UNCHANGED counters
     \/ /\ ~canAllocateBatch(n.slots, n.cost)
        /\ ~ctxDone[p]
        /\ pc' = [pc EXCEPT ![p] = "parked"]
        /\ UNCHANGED <<counters, queuedBatch>>
  /\ UNCHANGED <<cfg, req, ctxDone, watcher, acquires>>

(* The client's context is cancelled, at any time and without the mutex. *)
CtxCancel(p) ==
  /\ ~ctxDone[p]
  /\ ctxDone' = [ctxDone EXCEPT ![p] = TRUE]
  /\ UNCHANGED <<cfg, counters, queuedBatch, pc, req, watcher, acquires>>

(* Mutant of WatcherBroadcast: the watcher signals only one parked client. *)
WatcherSignalsOne(p) ==
  /\ watcher[p]
  /\ ctxDone[p]
  /\ IF \E q \in Clients : pc[q] = "parked"
     THEN \E q \in Clients : /\ pc[q] = "parked"
                            /\ pc' = [pc EXCEPT ![q] = "woken"]
     ELSE UNCHANGED pc
  /\ watcher' = [watcher EXCEPT ![p] = FALSE]
  /\ UNCHANGED <<cfg, counters, queuedBatch, req, ctxDone, acquires>>

(* The watcher sees ctx.Done: it broadcasts under the mutex and exits.     *)
WatcherBroadcast(p) ==
  /\ watcher[p]
  /\ ctxDone[p]
  /\ pc' = Broadcast
  /\ watcher' = [watcher EXCEPT ![p] = FALSE]
  /\ UNCHANGED <<cfg, counters, queuedBatch, req, ctxDone, acquires>>

(* Acquire has returned and closed done: the watcher exits silently.  Its  *)
(* select may still take the ctx.Done branch above when both are ready.    *)
WatcherExit(p) ==
  /\ watcher[p]
  /\ pc[p] \notin {"parked", "woken"}
  /\ watcher' = [watcher EXCEPT ![p] = FALSE]
  /\ UNCHANGED <<cfg, counters, queuedBatch, pc, req, ctxDone, acquires>>

(* Mutant of Release: it does not broadcast. *)
ReleaseSilently(p) ==
  /\ pc[p] = "holding"
  /\ pc' = [pc EXCEPT ![p] = "released"]
  /\ IF cfg.noop THEN UNCHANGED counters ELSE Uncount(req[p])
  /\ UNCHANGED <<cfg, queuedBatch, req, ctxDone, watcher, acquires>>

(* The holder calls Release for the first time. *)
Release(p) ==
  /\ pc[p] = "holding"
  /\ IF cfg.noop
     THEN /\ pc' = [pc EXCEPT ![p] = "released"]
          /\ UNCHANGED counters
     ELSE /\ pc' = [Broadcast EXCEPT ![p] = "released"]
          /\ Uncount(req[p])
  /\ UNCHANGED <<cfg, queuedBatch, req, ctxDone, watcher, acquires>>

(* Mutant of ReleaseAgain: no sync.Once, the second Release counts too. *)
ReleaseTwice(p) ==
  /\ pc[p] = "released"
  /\ pc' = [pc EXCEPT ![p] = "idle"]
  /\ IF cfg.noop THEN UNCHANGED counters ELSE Uncount(req[p])
  /\ UNCHANGED <<cfg, queuedBatch, req, ctxDone, watcher, acquires>>

(* A deferred Release runs after an explicit one: sync.Once makes it do    *)
(* nothing, and the holder drops the lease.                                *)
ReleaseAgain(p) ==
  /\ pc[p] = "released"
  /\ pc' = [pc EXCEPT ![p] = "idle"]
  /\ UNCHANGED <<cfg, counters, queuedBatch, req, ctxDone, watcher, acquires>>

Step(p) ==
  \/ \E r \in Requests : \/ AcquireNoop(p, r)
                         \/ AcquireRefused(p, r)
                         \/ AcquireLive(p, r)
                         \/ AcquireBatch(p, r)
  \/ Recheck(p)
  \/ CtxCancel(p)
  \/ WatcherBroadcast(p)
  \/ WatcherExit(p)
  \/ Release(p)
  \/ ReleaseAgain(p)

Next == \E p \in Clients : Step(p)

Spec == Init /\ [][Next]_vars

(* The Go scheduler runs every runnable goroutine: a woken waiter gets the *)
(* mutex and a watcher whose context is done broadcasts.  Nothing is said  *)
(* of lease holders.                                                       *)
WakeFairness ==
  \A p \in Clients : WF_vars(Recheck(p)) /\ WF_vars(WatcherBroadcast(p))

(* A holder finishes: an encode ends and its deferred Release runs. *)
ReleaseFairness == \A p \in Clients : WF_vars(Release(p))

FairSpec == Spec /\ WakeFairness

------------------------------------------------------------------------------
(* Properties. *)

Queued(p) == pc[p] \in {"parked", "woken"}

(* The leases the controller counts, and those of one workload. *)
Counted == {p \in Clients : pc[p] = "holding" /\ ~cfg.noop}
CountedOf(w) == {p \in Counted : req[p].workload = w}

CostOf(S) == MapThenSumSet(LAMBDA p : req[p].cost, S)

(* Every variable has its type; no slot counter is ever negative. *)
TypeOK ==
  /\ cfg \in [noop : BOOLEAN, total : Int, liveReserved : Int,
              totalCost : Int, liveCostReserved : Int]
  /\ active \in Nat /\ activeBatch \in Nat /\ activeLive \in Nat
  /\ activeCost \in Int /\ activeBatchCost \in Int /\ activeLiveCost \in Int
  /\ queuedBatch \in Nat
  /\ pc \in [Clients -> PC]
  /\ req \in [Clients -> NormalRequest]
  /\ ctxDone \in [Clients -> BOOLEAN]
  /\ watcher \in [Clients -> BOOLEAN]
  /\ acquires \in [Clients -> Nat]

(* The slot counters and queuedBatch are exactly what the outstanding      *)
(* leases and the waiters inside Acquire account for: no path through      *)
(* Acquire, cancellation or (double) Release leaks or double-frees a slot. *)
SlotsExact ==
  /\ activeBatch = Cardinality(CountedOf("batch"))
  /\ activeLive = Cardinality(CountedOf("live"))
  /\ active = activeBatch + activeLive
  /\ queuedBatch = Cardinality({p \in Clients : Queued(p)})

(* The reserve is honoured: as long as live work uses less than the slots  *)
(* reserved for it, the machine has a free slot, however batch and live    *)
(* admissions interleaved before.                                          *)
SlotReserveHonoured ==
  ~cfg.noop /\ activeLive < cfg.liveReserved => active < cfg.total

(* The same for cost: a live request that fits in what the leases that     *)
(* exist have left of the live cost reserve is not refused for its cost,   *)
(* so the cost counters cannot have drifted from the leases either.        *)
CostReserveHonoured ==
  \A r \in Requests :
    LET n == Normalise(r) IN
    /\ ~cfg.noop
    /\ n.workload = "live"
    /\ CostOf(CountedOf("live")) + n.cost <= cfg.liveCostReserved
    => activeCost + n.cost <= cfg.totalCost

(* No wakeup is lost: a client asleep in cond.Wait really cannot be        *)
(* admitted, and if its context is done the watcher that will wake it is   *)
(* still to run.                                                           *)
NoMissedWakeup ==
  \A p \in Clients : pc[p] = "parked" =>
    /\ ~canAllocateBatch(req[p].slots, req[p].cost)
    /\ ctxDone[p] => watcher[p]

(* New's clamps leave room for batch: a request Acquire lets wait would be *)
(* admitted by an empty machine, so it can never wait for ever on a        *)
(* machine that drains.                                                    *)
WaitersSatisfiable ==
  \A p \in Clients : Queued(p) =>
    /\ req[p].slots <= cfg.total - cfg.liveReserved
    /\ req[p].cost <= cfg.totalCost - cfg.liveCostReserved

(* Shutdown is not blocked by the scheduler: a waiter whose context is     *)
(* cancelled leaves Acquire even if no lease is ever released.             *)
CancelledWaiterLeaves ==
  \A p \in Clients : (Queued(p) /\ ctxDone[p]) ~> ~Queued(p)

(* Every queued batch request is answered once the clients stop submitting *)
(* (their number of calls is bounded) and the holders finish.              *)
QueuedEventuallyAnswered ==
  ReleaseFairness => \A p \in Clients : Queued(p) ~> ~Queued(p)

Promise == INSTANCE Admission
  WITH total <- cfg.total, reserved <- cfg.liveReserved,
       batch <- CountedOf("batch"), live <- CountedOf("live"),
       waiting <- {p \in Clients : Queued(p)}

(* The controller implements Admission: whatever Acquire, Release, wakeups *)
(* and cancellations do between them, seen from outside a lease is granted *)
(* only when a slot is free for its workload, is ended only by its holder, *)
(* and a waiter is answered one way or the other.                          *)
ImplementsAdmission == Promise!Spec

=============================================================================
