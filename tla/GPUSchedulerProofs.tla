------------------------- MODULE GPUSchedulerProofs -------------------------
(***************************************************************************)
(* The slot accounting of the GPU scheduler, its live reserve and the      *)
(* absence of lost wakeups, for every number of clients, every set of      *)
(* requests the callers can make and every configuration.                  *)
(*                                                                         *)
(* The inductive invariant IInv adds to the properties what they rest on:  *)
(* the clamped configuration (CfgFacts), the normalised requests           *)
(* (ReqFacts), what a waiter inside Acquire went through (WaiterFacts) and *)
(* the two slot bounds (Bounds).                                           *)
(***************************************************************************)
EXTENDS GPUScheduler, FiniteSetTheorems, WellFoundedInduction, TLAPS

TypeInt ==
  /\ active \in Int /\ activeBatch \in Int /\ activeLive \in Int
  /\ activeCost \in Int /\ activeBatchCost \in Int /\ activeLiveCost \in Int
  /\ queuedBatch \in Int
  /\ pc \in [Clients -> PC]
  /\ req \in [Clients -> NormalRequest]
  /\ ctxDone \in [Clients -> BOOLEAN]
  /\ watcher \in [Clients -> BOOLEAN]
  /\ acquires \in [Clients -> Nat]

(* What New guarantees: at least one slot and UnitsPerSlot cost units (or  *)
(* the whole budget, if smaller) are outside the live reserve.             *)
CfgFacts ==
  /\ cfg \in [noop : BOOLEAN, total : Int, liveReserved : Int,
              totalCost : Int, liveCostReserved : Int]
  /\ ~cfg.noop => /\ 0 <= cfg.liveReserved
                  /\ cfg.liveReserved + 1 <= cfg.total
                  /\ \/ cfg.liveCostReserved + UnitsPerSlot <= cfg.totalCost
                     \/ cfg.liveCostReserved <= 0

ReqFacts ==
  \A p \in Clients : /\ req[p].slots = 1
                     /\ 1 <= req[p].cost
                     /\ req[p].cost <= UnitsPerSlot

WaiterFacts ==
  \A p \in Clients : Queued(p) =>
    /\ ~cfg.noop
    /\ req[p].workload = "batch"
    /\ req[p].cost <= cfg.totalCost
    /\ watcher[p] \/ ctxDone[p]

Bounds ==
  ~cfg.noop => /\ active <= cfg.total
               /\ activeBatch <= cfg.total - cfg.liveReserved

IInv == /\ TypeInt
        /\ CfgFacts
        /\ ReqFacts
        /\ WaiterFacts
        /\ SlotsExact
        /\ Bounds
        /\ NoMissedWakeup

------------------------------------------------------------------------------
(* Every configuration New returns satisfies CfgFacts. *)
LEMMA NewClamps ==
  ASSUME NEW raw \in Configs, cfg = New(raw)
  PROVE  CfgFacts
<1>1. raw \in [TotalSlots : Int, LiveReservedSlots : Int,
               TotalCost : Int, LiveReservedCost : Int]
  BY ConfigsAssumption
<1>2. CASE raw.TotalSlots <= 0
  BY <1>2 DEF New, CfgFacts
<1>3. CASE ~(raw.TotalSlots <= 0)
  <2> DEFINE tc == IF raw.TotalCost <= 0
                   THEN raw.TotalSlots * UnitsPerSlot ELSE raw.TotalCost
             rs == Least(Greatest(raw.LiveReservedSlots, 0), raw.TotalSlots - 1)
             mc == Greatest(tc - UnitsPerSlot, 0)
             wc == IF raw.LiveReservedCost <= 0
                   THEN rs * UnitsPerSlot ELSE raw.LiveReservedCost
  <2>1. tc \in Int
    BY <1>1 DEF UnitsPerSlot
  <2>2. rs \in Int /\ 0 <= rs /\ rs + 1 <= raw.TotalSlots
    BY <1>1, <1>3 DEF Least, Greatest
  <2>3. mc \in Int /\ (mc = tc - UnitsPerSlot \/ mc = 0)
    BY <2>1 DEF Greatest, UnitsPerSlot
  <2>4. wc \in Int
    BY <1>1, <2>2 DEF UnitsPerSlot
  <2>5. Least(wc, mc) \in Int /\ Least(wc, mc) <= mc
    BY <2>3, <2>4 DEF Least
  <2>6. cfg = [noop |-> FALSE, total |-> raw.TotalSlots, liveReserved |-> rs,
               totalCost |-> tc, liveCostReserved |-> Least(wc, mc)]
    BY <1>3 DEF New
  <2> HIDE DEF tc, rs, mc, wc
  <2>7. QED
    BY <1>1, <2>1, <2>2, <2>3, <2>5, <2>6 DEF CfgFacts, UnitsPerSlot
<1>4. QED BY <1>2, <1>3

(* A submitted request is normalised to one slot and a cost within one     *)
(* slot's units.                                                           *)
LEMMA NormaliseFacts ==
  ASSUME NEW r \in Requests
  PROVE  /\ Normalise(r) \in NormalRequest
         /\ Normalise(r).workload = r.workload
         /\ Normalise(r).slots = 1
         /\ 1 <= Normalise(r).cost
         /\ Normalise(r).cost <= UnitsPerSlot
BY RequestsAssumption DEF CallerRequest, Normalise, NormalRequest, Workload,
                          UnitsPerSlot

(* Cardinality of the sets of clients the accounting counts. *)
LEMMA CardFacts ==
  ASSUME NEW S, NEW T, S \subseteq Clients, NEW p \in Clients
  PROVE  /\ IsFiniteSet(S) /\ Cardinality(S) \in Nat
         /\ p \notin S /\ T = S \cup {p} => Cardinality(T) = Cardinality(S) + 1
         /\ p \in S /\ T = S \ {p} => Cardinality(T) = Cardinality(S) - 1
<1>1. IsFiniteSet(S) BY ClientsAssumption, FS_Subset
<1>2. Cardinality(S) \in Nat BY <1>1, FS_CardinalityType
<1>3. QED BY <1>1, <1>2, FS_AddElement, FS_RemoveElement

(* The set of waiters has a natural cardinality. *)
LEMMA CardNat ==
  ASSUME NEW S, S \subseteq Clients
  PROVE  Cardinality(S) \in Nat
BY ClientsAssumption, FS_Subset, FS_CardinalityType

------------------------------------------------------------------------------
(* How the counted sets move. *)

Waiters == {p \in Clients : Queued(p)}

(* A grant to a client that held nothing adds it to its workload's set. *)
LEMMA CountedAdd ==
  ASSUME TypeInt, CfgFacts, NEW p \in Clients, NEW n \in NormalRequest, NEW w,
         ~cfg.noop, cfg' = cfg, pc[p] # "holding",
         pc' = [pc EXCEPT ![p] = "holding"],
         req' = [req EXCEPT ![p] = n]
  PROVE  /\ p \notin CountedOf(w)
         /\ CountedOf(w)' = IF n.workload = w THEN CountedOf(w) \cup {p}
                                              ELSE CountedOf(w)
BY DEF TypeInt, CountedOf, Counted, PC

(* A step that neither grants nor releases leaves both sets alone. *)
LEMMA CountedSame ==
  ASSUME TypeInt, cfg' = cfg, NEW w,
         \A q \in Clients : pc'[q] = "holding" <=> pc[q] = "holding",
         \A q \in Clients : pc[q] = "holding" => req'[q] = req[q]
  PROVE  CountedOf(w)' = CountedOf(w)
BY DEF TypeInt, CountedOf, Counted

(* A release removes the holder from its workload's set. *)
LEMMA CountedRemove ==
  ASSUME TypeInt, CfgFacts, NEW p \in Clients, NEW w,
         ~cfg.noop, cfg' = cfg, pc[p] = "holding", req' = req,
         pc'[p] # "holding",
         \A q \in Clients \ {p} : pc'[q] = "holding" <=> pc[q] = "holding"
  PROVE  /\ p \in CountedOf(req[p].workload)
         /\ CountedOf(w)' = IF req[p].workload = w THEN CountedOf(w) \ {p}
                                                   ELSE CountedOf(w)
BY DEF TypeInt, CountedOf, Counted

(* The counters are right after a grant that fitted under the limits. *)
LEMMA GrantExact ==
  ASSUME IInv, NEW p \in Clients, NEW n \in NormalRequest, n.slots = 1,
         ~cfg.noop, cfg' = cfg, pc[p] # "holding",
         pc' = [pc EXCEPT ![p] = "holding"],
         req' = [req EXCEPT ![p] = n],
         Count(n)
  PROVE  /\ activeBatch' = Cardinality(CountedOf("batch")')
         /\ activeLive' = Cardinality(CountedOf("live")')
         /\ active' = activeBatch' + activeLive'
         /\ active' = active + 1
         /\ activeBatch' \in Nat /\ activeLive' \in Nat
         /\ activeCost' \in Int /\ activeBatchCost' \in Int
         /\ activeLiveCost' \in Int
         /\ activeCost' = activeCost + n.cost
         /\ n.workload = "live" => activeBatch' = activeBatch
<1>1. TypeInt /\ CfgFacts /\ SlotsExact BY DEF IInv
<1>2. \A w : /\ p \notin CountedOf(w)
             /\ CountedOf(w)' = IF n.workload = w THEN CountedOf(w) \cup {p}
                                                  ELSE CountedOf(w)
  BY <1>1, CountedAdd
<1>3. \A w : CountedOf(w) \subseteq Clients BY DEF CountedOf, Counted
<1>4. \A w : /\ Cardinality(CountedOf(w)) \in Nat
             /\ Cardinality(CountedOf(w)') = IF n.workload = w
                                             THEN Cardinality(CountedOf(w)) + 1
                                             ELSE Cardinality(CountedOf(w))
  BY <1>2, <1>3, CardFacts
<1>5. n.workload = "live" \/ n.workload = "batch" BY DEF NormalRequest, Workload
<1>6. n.cost \in Int BY DEF NormalRequest
<1>7. CASE n.workload = "live"
  BY <1>1, <1>4, <1>6, <1>7 DEF Count, SlotsExact, TypeInt
<1>8. CASE n.workload = "batch"
  BY <1>1, <1>4, <1>6, <1>8 DEF Count, SlotsExact, TypeInt
<1>9. QED BY <1>5, <1>7, <1>8

(* The counters are right after the first Release of a lease. *)
LEMMA ReleaseExact ==
  ASSUME IInv, NEW p \in Clients, ~cfg.noop, cfg' = cfg, pc[p] = "holding",
         req' = req, pc'[p] # "holding",
         \A q \in Clients \ {p} : pc'[q] = "holding" <=> pc[q] = "holding",
         Uncount(req[p])
  PROVE  /\ activeBatch' = Cardinality(CountedOf("batch")')
         /\ activeLive' = Cardinality(CountedOf("live")')
         /\ active' = activeBatch' + activeLive'
         /\ active' = active - 1
         /\ activeBatch' <= activeBatch
         /\ activeBatch' \in Int /\ activeLive' \in Int
         /\ activeCost' \in Int /\ activeBatchCost' \in Int
         /\ activeLiveCost' \in Int
<1> DEFINE n == req[p]
<1>1. TypeInt /\ CfgFacts /\ SlotsExact /\ ReqFacts BY DEF IInv
<1>2. \A w : /\ p \in CountedOf(n.workload)
             /\ CountedOf(w)' = IF n.workload = w THEN CountedOf(w) \ {p}
                                                  ELSE CountedOf(w)
  BY <1>1, CountedRemove
<1>3. \A w : CountedOf(w) \subseteq Clients BY DEF CountedOf, Counted
<1>4. \A w : /\ Cardinality(CountedOf(w)) \in Nat
             /\ Cardinality(CountedOf(w)') = IF n.workload = w
                                             THEN Cardinality(CountedOf(w)) - 1
                                             ELSE Cardinality(CountedOf(w))
  BY <1>2, <1>3, CardFacts
<1>5. n.slots = 1 /\ n.cost \in Int /\ (n.workload = "live" \/ n.workload = "batch")
  BY <1>1 DEF TypeInt, ReqFacts, NormalRequest, Workload
<1>6. CASE n.workload = "live"
  BY <1>1, <1>4, <1>5, <1>6 DEF Uncount, SlotsExact, TypeInt
<1>7. CASE n.workload = "batch"
  BY <1>1, <1>4, <1>5, <1>7 DEF Uncount, SlotsExact, TypeInt
<1>8. QED BY <1>5, <1>6, <1>7

------------------------------------------------------------------------------
(* Induction: the initial states and one lemma per action. *)

(* The counters of a fresh controller satisfy the invariant. *)
LEMMA InitIInv == Init => IInv
<1> SUFFICES ASSUME Init PROVE IInv OBVIOUS
<1>1. CfgFacts
  <2>1. PICK raw \in Configs : cfg = New(raw) BY DEF Init
  <2>2. QED BY <2>1, NewClamps
<1>2. TypeInt BY DEF Init, TypeInt, PC, NormalRequest, Workload, UnitsPerSlot
<1>3. ReqFacts BY DEF Init, ReqFacts, UnitsPerSlot
<1>4. WaiterFacts /\ NoMissedWakeup
  BY DEF Init, WaiterFacts, NoMissedWakeup, Queued
<1>5. SlotsExact
  <2>1. Waiters = {} /\ CountedOf("batch") = {} /\ CountedOf("live") = {}
    BY DEF Init, Waiters, Queued, CountedOf, Counted
  <2>2. QED BY <2>1, FS_EmptySet DEF Init, SlotsExact, Waiters
<1>6. Bounds BY <1>1 DEF Init, Bounds, CfgFacts
<1>7. QED BY <1>1, <1>2, <1>3, <1>4, <1>5, <1>6 DEF IInv

(* Granting: what the three grants have in common. *)
LEMMA GrantPreserves ==
  ASSUME IInv, NEW p \in Clients, NEW n \in NormalRequest,
         n.slots = 1, 1 <= n.cost, n.cost <= UnitsPerSlot,
         ~cfg.noop, cfg' = cfg, pc[p] # "holding",
         pc' = [pc EXCEPT ![p] = "holding"],
         req' = [req EXCEPT ![p] = n],
         Count(n),
         active + 1 <= cfg.total,
         n.workload = "batch" => active + 1 <= cfg.total - cfg.liveReserved,
         ctxDone' = ctxDone, watcher' \in [Clients -> BOOLEAN],
         \A q \in Clients \ {p} : watcher'[q] = watcher[q],
         acquires' \in [Clients -> Nat],
         queuedBatch' = Cardinality(Waiters')
  PROVE  IInv'
<1>1. TypeInt /\ CfgFacts /\ ReqFacts /\ WaiterFacts /\ SlotsExact /\ Bounds
      /\ NoMissedWakeup
  BY DEF IInv
<1>2. /\ activeBatch' = Cardinality(CountedOf("batch")')
      /\ activeLive' = Cardinality(CountedOf("live")')
      /\ active' = activeBatch' + activeLive'
      /\ active' = active + 1
      /\ activeBatch' \in Nat /\ activeLive' \in Nat
      /\ activeCost' \in Int /\ activeBatchCost' \in Int
      /\ activeLiveCost' \in Int
      /\ activeCost' = activeCost + n.cost
      /\ n.workload = "live" => activeBatch' = activeBatch
  BY GrantExact
<1>3. Waiters' \subseteq Clients BY DEF Waiters
<1>4. queuedBatch' \in Int BY <1>3, CardNat
<1>5. TypeInt' BY <1>1, <1>2, <1>4 DEF TypeInt, PC
<1>6. CfgFacts' BY <1>1 DEF CfgFacts
<1>7. ReqFacts' BY <1>1 DEF ReqFacts, TypeInt
<1>8. WaiterFacts'
  <2> SUFFICES ASSUME NEW q \in Clients, Queued(q)'
               PROVE  /\ ~cfg'.noop /\ req'[q].workload = "batch"
                      /\ req'[q].cost <= cfg'.totalCost
                      /\ watcher'[q] \/ ctxDone'[q]
    BY DEF WaiterFacts
  <2>1. q # p /\ Queued(q) BY <1>1 DEF Queued, TypeInt
  <2>2. QED BY <1>1, <2>1 DEF WaiterFacts, TypeInt
<1>9. SlotsExact' BY <1>2 DEF SlotsExact, Waiters
<1>10. Bounds'
  <2>1. n.workload = "live" \/ n.workload = "batch" BY DEF NormalRequest, Workload
  <2>2. QED BY <1>1, <1>2, <2>1 DEF Bounds, CfgFacts, TypeInt
<1>11. NoMissedWakeup'
  <2> SUFFICES ASSUME NEW q \in Clients, pc'[q] = "parked"
               PROVE  /\ ~canAllocateBatch(req[q].slots, req[q].cost)'
                      /\ ctxDone'[q] => watcher'[q]
    BY DEF NoMissedWakeup
  <2>1. q # p /\ pc[q] = "parked" /\ req'[q] = req[q]
    BY <1>1 DEF TypeInt
  <2>2. ~canAllocateBatch(req[q].slots, req[q].cost) /\ (ctxDone[q] => watcher[q])
    BY <1>1, <2>1 DEF NoMissedWakeup
  <2>3. req[q].slots \in Int /\ req[q].cost \in Int /\ n.cost \in Int
    BY <1>1 DEF TypeInt, NormalRequest
  <2>4. QED
    BY <1>1, <1>2, <2>1, <2>2, <2>3 DEF canAllocateBatch, TypeInt, CfgFacts
<1>12. QED
  BY <1>5, <1>6, <1>7, <1>8, <1>9, <1>10, <1>11 DEF IInv

(* The steps that change no counter and leave the holders alone. *)
LEMMA NeutralPreserves ==
  ASSUME IInv, UNCHANGED <<cfg, counters>>,
         pc' \in [Clients -> PC],
         req' \in [Clients -> NormalRequest],
         \A q \in Clients : pc'[q] = "holding" <=> pc[q] = "holding",
         \A q \in Clients : pc[q] = "holding" => req'[q] = req[q],
         ReqFacts', WaiterFacts', NoMissedWakeup',
         ctxDone' \in [Clients -> BOOLEAN],
         watcher' \in [Clients -> BOOLEAN],
         acquires' \in [Clients -> Nat],
         queuedBatch' = Cardinality(Waiters')
  PROVE  IInv'
<1>1. TypeInt /\ CfgFacts /\ SlotsExact /\ Bounds BY DEF IInv
<1>2. \A w : CountedOf(w)' = CountedOf(w)
  BY <1>1, CountedSame
<1>3. Waiters' \subseteq Clients BY DEF Waiters
<1>4. queuedBatch' \in Int BY <1>3, CardNat
<1>5. TypeInt' BY <1>1, <1>4 DEF TypeInt, counters
<1>6. CfgFacts' BY <1>1 DEF CfgFacts
<1>7. SlotsExact' BY <1>1, <1>2 DEF SlotsExact, Waiters, counters
<1>8. Bounds' BY <1>1 DEF Bounds, counters
<1>9. QED BY <1>5, <1>6, <1>7, <1>8 DEF IInv

(* The waiters stay the same, gain p or lose p. *)
LEMMA WaitersCard ==
  ASSUME IInv, NEW p \in Clients
  PROVE  /\ queuedBatch = Cardinality(Waiters)
         /\ Waiters' = Waiters => Cardinality(Waiters') = queuedBatch
         /\ p \notin Waiters /\ Waiters' = Waiters \cup {p}
            => Cardinality(Waiters') = queuedBatch + 1
         /\ p \in Waiters /\ Waiters' = Waiters \ {p}
            => Cardinality(Waiters') = queuedBatch - 1
<1>1. Waiters \subseteq Clients BY DEF Waiters
<1>2. queuedBatch = Cardinality(Waiters) BY DEF IInv, SlotsExact, Waiters
<1>3. QED BY <1>1, <1>2, CardFacts

(* noopController.Acquire counts nothing. *)
LEMMA AcquireNoopPreserves ==
  ASSUME IInv, NEW p \in Clients, NEW r \in Requests, AcquireNoop(p, r)
  PROVE  IInv'
<1>1. /\ TypeInt /\ CfgFacts /\ ReqFacts /\ WaiterFacts /\ SlotsExact /\ Bounds
      /\ cfg.noop /\ UNCHANGED <<cfg, ctxDone, counters, queuedBatch, watcher>>
      /\ req' = [req EXCEPT ![p] = Normalise(r)]
      /\ pc' = [pc EXCEPT ![p] = "holding"]
      /\ acquires' = [acquires EXCEPT ![p] = @ + 1]
  BY DEF IInv, AcquireNoop, Submit
<1>2. \A q \in Clients : ~Queued(q) BY <1>1 DEF WaiterFacts
<1>3. TypeInt' BY <1>1, NormaliseFacts DEF TypeInt, PC, counters
<1>4. ReqFacts' BY <1>1, NormaliseFacts DEF ReqFacts, TypeInt
<1>5. \A q \in Clients : ~Queued(q)' BY <1>1, <1>2 DEF Queued, TypeInt
<1>6. WaiterFacts' /\ NoMissedWakeup'
  BY <1>5 DEF WaiterFacts, NoMissedWakeup, Queued
<1>7. SlotsExact'
  <2>1. CountedOf("batch")' = CountedOf("batch")
        /\ CountedOf("live")' = CountedOf("live") /\ Waiters' = Waiters
    BY <1>1, <1>2, <1>5 DEF CountedOf, Counted, Waiters
  <2>2. QED BY <1>1, <2>1 DEF SlotsExact, Waiters, counters
<1>8. CfgFacts' /\ Bounds' BY <1>1 DEF CfgFacts, Bounds
<1>9. QED BY <1>3, <1>4, <1>6, <1>7, <1>8 DEF IInv

(* What Submit leaves in req and acquires. *)
LEMMA SubmitFacts ==
  ASSUME IInv, NEW p \in Clients, NEW r \in Requests, Submit(p, r)
  PROVE  /\ pc[p] = "idle" /\ cfg' = cfg /\ ctxDone' = ctxDone
         /\ req' = [req EXCEPT ![p] = Normalise(r)]
         /\ req' \in [Clients -> NormalRequest]
         /\ acquires' \in [Clients -> Nat]
         /\ ReqFacts'
<1>1. /\ pc[p] = "idle" /\ cfg' = cfg /\ ctxDone' = ctxDone
      /\ req' = [req EXCEPT ![p] = Normalise(r)]
      /\ acquires' = [acquires EXCEPT ![p] = @ + 1]
      /\ TypeInt /\ ReqFacts
  BY DEF Submit, IInv
<1>2. req' \in [Clients -> NormalRequest] /\ acquires' \in [Clients -> Nat]
  BY <1>1, NormaliseFacts DEF TypeInt
<1>3. ReqFacts' BY <1>1, NormaliseFacts DEF ReqFacts, TypeInt
<1>4. QED BY <1>1, <1>2, <1>3

(* A refused Acquire changes no counter. *)
LEMMA AcquireRefusedPreserves ==
  ASSUME IInv, NEW p \in Clients, NEW r \in Requests, AcquireRefused(p, r)
  PROVE  IInv'
<1>1. Submit(p, r) /\ UNCHANGED <<pc, counters, queuedBatch, watcher>>
  BY DEF AcquireRefused
<1>2. TypeInt /\ WaiterFacts /\ NoMissedWakeup BY DEF IInv
<1>3. WaiterFacts'
  BY <1>1, <1>2, SubmitFacts DEF WaiterFacts, Queued, TypeInt
<1>4. NoMissedWakeup'
  BY <1>1, <1>2, SubmitFacts
  DEF NoMissedWakeup, canAllocateBatch, TypeInt, counters
<1>5. queuedBatch' = Cardinality(Waiters')
  BY <1>1, WaitersCard DEF Waiters, Queued
<1>6. QED
  BY <1>1, <1>2, <1>3, <1>4, <1>5, SubmitFacts, NeutralPreserves DEF TypeInt

(* A live grant stays within the totals. *)
LEMMA AcquireLivePreserves ==
  ASSUME IInv, NEW p \in Clients, NEW r \in Requests, AcquireLive(p, r)
  PROVE  IInv'
<1> DEFINE n == Normalise(r)
<1>1. /\ ~cfg.noop /\ Submit(p, r) /\ n.workload = "live"
      /\ canAllocateLive(n.slots, n.cost) /\ Count(n)
      /\ pc' = [pc EXCEPT ![p] = "holding"]
      /\ UNCHANGED <<queuedBatch, watcher>>
  BY DEF AcquireLive
<1>2. TypeInt BY DEF IInv
<1>3. n \in NormalRequest /\ n.slots = 1 /\ 1 <= n.cost /\ n.cost <= UnitsPerSlot
  BY NormaliseFacts
<1>4. /\ pc[p] = "idle" /\ cfg' = cfg /\ ctxDone' = ctxDone
      /\ req' = [req EXCEPT ![p] = n]
      /\ acquires' \in [Clients -> Nat]
  BY <1>1, SubmitFacts
<1>5. active + 1 <= cfg.total BY <1>1, <1>3 DEF canAllocateLive
<1>6. queuedBatch' = Cardinality(Waiters')
  <2>1. Waiters' = Waiters BY <1>1, <1>2, <1>4 DEF Waiters, Queued, TypeInt
  <2>2. QED BY <1>1, <2>1, WaitersCard
<1> HIDE DEF n
<1>7. pc[p] # "holding" /\ n.workload # "batch" BY <1>1, <1>4
<1>8. /\ watcher' \in [Clients -> BOOLEAN]
      /\ \A q \in Clients \ {p} : watcher'[q] = watcher[q]
  BY <1>1, <1>2 DEF TypeInt
<1>9. QED
  BY <1>1, <1>3, <1>4, <1>5, <1>6, <1>7, <1>8, GrantPreserves

(* A batch request is granted beside the reserve, dropped or parked. *)
LEMMA AcquireBatchPreserves ==
  ASSUME IInv, NEW p \in Clients, NEW r \in Requests, AcquireBatch(p, r)
  PROVE  IInv'
<1> DEFINE n == Normalise(r)
<1>1. /\ ~cfg.noop /\ Submit(p, r) /\ ~TooLarge(n) /\ n.workload = "batch"
      /\ watcher' = [watcher EXCEPT ![p] = TRUE]
  BY DEF AcquireBatch
<1>2. TypeInt /\ CfgFacts /\ WaiterFacts /\ NoMissedWakeup BY DEF IInv
<1>3. n \in NormalRequest /\ n.slots = 1 /\ 1 <= n.cost /\ n.cost <= UnitsPerSlot
  BY NormaliseFacts
<1>4. /\ pc[p] = "idle" /\ cfg' = cfg /\ ctxDone' = ctxDone
      /\ req' = [req EXCEPT ![p] = n]
      /\ req' \in [Clients -> NormalRequest]
      /\ acquires' \in [Clients -> Nat]
      /\ ReqFacts'
  BY <1>1, SubmitFacts
<1>5. /\ watcher' \in [Clients -> BOOLEAN] /\ watcher'[p]
      /\ \A q \in Clients \ {p} : watcher'[q] = watcher[q]
  BY <1>1, <1>2 DEF TypeInt
<1>6. CASE /\ canAllocateBatch(n.slots, n.cost) /\ Count(n)
           /\ pc' = [pc EXCEPT ![p] = "holding"]
           /\ UNCHANGED queuedBatch
  <2>1. active + 1 <= cfg.total - cfg.liveReserved
    BY <1>3, <1>6 DEF canAllocateBatch
  <2>2. active + 1 <= cfg.total BY <1>1, <1>2, <2>1 DEF CfgFacts, TypeInt
  <2>3. queuedBatch' = Cardinality(Waiters')
    <3>1. Waiters' = Waiters BY <1>2, <1>4, <1>6 DEF Waiters, Queued, TypeInt
    <3>2. QED BY <1>6, <3>1, WaitersCard
  <2> HIDE DEF n
  <2>4. pc[p] # "holding" BY <1>4
  <2>5. QED
    BY <1>1, <1>3, <1>4, <1>5, <1>6, <2>1, <2>2, <2>3, <2>4, GrantPreserves
<1>7. CASE /\ ~canAllocateBatch(n.slots, n.cost) /\ ctxDone[p]
           /\ UNCHANGED <<counters, pc, queuedBatch>>
  <2>1. WaiterFacts' BY <1>1, <1>2, <1>4, <1>7 DEF WaiterFacts, Queued, TypeInt
  <2>2. NoMissedWakeup'
    BY <1>2, <1>4, <1>5, <1>7
    DEF NoMissedWakeup, canAllocateBatch, TypeInt, counters
  <2>3. queuedBatch' = Cardinality(Waiters')
    BY <1>7, WaitersCard DEF Waiters, Queued
  <2>4. pc' \in [Clients -> PC] /\ ctxDone' \in [Clients -> BOOLEAN]
    BY <1>2, <1>4, <1>7 DEF TypeInt
  <2>5. \A q \in Clients : /\ pc'[q] = "holding" <=> pc[q] = "holding"
                           /\ pc[q] = "holding" => req'[q] = req[q]
    BY <1>2, <1>4, <1>7 DEF TypeInt
  <2> HIDE DEF n
  <2>6. QED
    BY <1>4, <1>5, <1>7, <2>1, <2>2, <2>3, <2>4, <2>5, NeutralPreserves
<1>8. CASE /\ ~canAllocateBatch(n.slots, n.cost) /\ ~ctxDone[p]
           /\ pc' = [pc EXCEPT ![p] = "parked"]
           /\ queuedBatch' = queuedBatch + 1
           /\ UNCHANGED counters
  <2>1. WaiterFacts'
    BY <1>1, <1>2, <1>3, <1>4, <1>8 DEF WaiterFacts, Queued, TypeInt, TooLarge,
       CfgFacts, NormalRequest
  <2>2. NoMissedWakeup'
    <3> SUFFICES ASSUME NEW q \in Clients, pc'[q] = "parked"
                 PROVE  /\ ~canAllocateBatch(req[q].slots, req[q].cost)'
                        /\ ctxDone'[q] => watcher'[q]
      BY DEF NoMissedWakeup
    <3>1. CASE q = p
      <4>1. req'[p] = n BY <1>2, <1>4 DEF TypeInt
      <4>2. QED BY <1>4, <1>5, <1>8, <3>1, <4>1 DEF canAllocateBatch, counters
    <3>2. CASE q # p
      <4>1. pc[q] = "parked" /\ req'[q] = req[q] BY <1>2, <1>4, <1>8, <3>2 DEF TypeInt
      <4>2. QED BY <1>2, <1>4, <1>5, <1>8, <3>2, <4>1
        DEF NoMissedWakeup, canAllocateBatch, counters
    <3>3. QED BY <3>1, <3>2
  <2>3. queuedBatch' = Cardinality(Waiters')
    <3>1. p \notin Waiters /\ Waiters' = Waiters \cup {p}
      BY <1>2, <1>4, <1>8 DEF Waiters, Queued, TypeInt
    <3>2. QED BY <1>8, <3>1, WaitersCard
  <2>4. pc' \in [Clients -> PC] /\ ctxDone' \in [Clients -> BOOLEAN]
    BY <1>2, <1>4, <1>8 DEF TypeInt, PC
  <2>5. \A q \in Clients : /\ pc'[q] = "holding" <=> pc[q] = "holding"
                           /\ pc[q] = "holding" => req'[q] = req[q]
    BY <1>2, <1>4, <1>8 DEF TypeInt
  <2> HIDE DEF n
  <2>6. QED
    BY <1>4, <1>5, <1>8, <2>1, <2>2, <2>3, <2>4, <2>5, NeutralPreserves
<1>9. QED BY <1>6, <1>7, <1>8 DEF AcquireBatch

(* A woken waiter is granted, leaves with the error, or parks again. *)
LEMMA RecheckPreserves ==
  ASSUME IInv, NEW p \in Clients, Recheck(p)
  PROVE  IInv'
<1> DEFINE n == req[p]
<1>1. pc[p] = "woken" /\ UNCHANGED <<cfg, req, ctxDone, watcher, acquires>>
  BY DEF Recheck
<1>2. TypeInt /\ CfgFacts /\ ReqFacts /\ WaiterFacts /\ NoMissedWakeup
  BY DEF IInv
<1>3. /\ n \in NormalRequest /\ n.slots = 1 /\ 1 <= n.cost
      /\ n.cost <= UnitsPerSlot
      /\ ~cfg.noop /\ n.workload = "batch"
      /\ watcher[p] \/ ctxDone[p]
  BY <1>1, <1>2 DEF TypeInt, ReqFacts, WaiterFacts, Queued
<1>4. /\ cfg' = cfg /\ req' = req /\ ctxDone' = ctxDone /\ watcher' = watcher
      /\ req' = [req EXCEPT ![p] = n] /\ ReqFacts'
      /\ req' \in [Clients -> NormalRequest]
      /\ acquires' \in [Clients -> Nat] /\ ctxDone' \in [Clients -> BOOLEAN]
      /\ watcher' \in [Clients -> BOOLEAN]
  BY <1>1, <1>2 DEF TypeInt, ReqFacts
<1>5. CASE /\ canAllocateBatch(n.slots, n.cost) /\ Count(n)
           /\ pc' = [pc EXCEPT ![p] = "holding"]
           /\ queuedBatch' = queuedBatch - 1
  <2>1. active + 1 <= cfg.total - cfg.liveReserved
    BY <1>3, <1>5 DEF canAllocateBatch
  <2>2. active + 1 <= cfg.total BY <1>2, <1>3, <2>1 DEF CfgFacts, TypeInt
  <2>3. queuedBatch' = Cardinality(Waiters')
    <3>1. p \in Waiters /\ Waiters' = Waiters \ {p}
      BY <1>1, <1>2, <1>5 DEF Waiters, Queued, TypeInt
    <3>2. QED BY <1>5, <3>1, WaitersCard
  <2> HIDE DEF n
  <2>4. pc[p] # "holding" BY <1>1
  <2>5. QED
    BY <1>3, <1>4, <1>5, <2>1, <2>2, <2>3, <2>4, GrantPreserves
<1>6. CASE /\ ~canAllocateBatch(n.slots, n.cost) /\ ctxDone[p]
           /\ pc' = [pc EXCEPT ![p] = "idle"]
           /\ queuedBatch' = queuedBatch - 1
           /\ UNCHANGED counters
  <2>1. WaiterFacts' BY <1>2, <1>4, <1>6 DEF WaiterFacts, Queued, TypeInt
  <2>2. NoMissedWakeup'
    BY <1>2, <1>4, <1>6 DEF NoMissedWakeup, canAllocateBatch, TypeInt, counters
  <2>3. queuedBatch' = Cardinality(Waiters')
    <3>1. p \in Waiters /\ Waiters' = Waiters \ {p}
      BY <1>1, <1>2, <1>6 DEF Waiters, Queued, TypeInt
    <3>2. QED BY <1>6, <3>1, WaitersCard
  <2>4. pc' \in [Clients -> PC] BY <1>2, <1>6 DEF TypeInt, PC
  <2>5. \A q \in Clients : pc'[q] = "holding" <=> pc[q] = "holding"
    BY <1>1, <1>2, <1>6 DEF TypeInt
  <2> HIDE DEF n
  <2>6. QED
    BY <1>4, <1>6, <2>1, <2>2, <2>3, <2>4, <2>5, NeutralPreserves
<1>7. CASE /\ ~canAllocateBatch(n.slots, n.cost) /\ ~ctxDone[p]
           /\ pc' = [pc EXCEPT ![p] = "parked"]
           /\ UNCHANGED <<counters, queuedBatch>>
  <2>1. WaiterFacts' BY <1>1, <1>2, <1>4, <1>7 DEF WaiterFacts, Queued, TypeInt
  <2>2. NoMissedWakeup'
    BY <1>2, <1>4, <1>7 DEF NoMissedWakeup, canAllocateBatch, TypeInt, counters
  <2>3. queuedBatch' = Cardinality(Waiters')
    <3>1. Waiters' = Waiters
      BY <1>1, <1>2, <1>7 DEF Waiters, Queued, TypeInt
    <3>2. QED BY <1>7, <3>1, WaitersCard
  <2>4. pc' \in [Clients -> PC] BY <1>2, <1>7 DEF TypeInt, PC
  <2>5. \A q \in Clients : pc'[q] = "holding" <=> pc[q] = "holding"
    BY <1>1, <1>2, <1>7 DEF TypeInt
  <2> HIDE DEF n
  <2>6. QED
    BY <1>4, <1>7, <2>1, <2>2, <2>3, <2>4, <2>5, NeutralPreserves
<1>8. QED BY <1>5, <1>6, <1>7 DEF Recheck

(* A cancelled context leaves a parked client its watcher. *)
LEMMA CtxCancelPreserves ==
  ASSUME IInv, NEW p \in Clients, CtxCancel(p)
  PROVE  IInv'
<1>1. /\ ctxDone' = [ctxDone EXCEPT ![p] = TRUE]
      /\ UNCHANGED <<cfg, counters, queuedBatch, pc, req, watcher, acquires>>
  BY DEF CtxCancel
<1>2. TypeInt /\ ReqFacts /\ WaiterFacts /\ NoMissedWakeup BY DEF IInv
<1>3. WaiterFacts' /\ ReqFacts'
  BY <1>1, <1>2 DEF WaiterFacts, ReqFacts, Queued, TypeInt
<1>4. \A q \in Clients : pc[q] = "parked" => watcher[q]
  BY <1>2 DEF WaiterFacts, NoMissedWakeup, Queued
<1>5. NoMissedWakeup'
  BY <1>1, <1>2, <1>4 DEF NoMissedWakeup, canAllocateBatch, counters
<1>6. queuedBatch' = Cardinality(Waiters')
  BY <1>1, WaitersCard DEF Waiters, Queued
<1>7. ctxDone' \in [Clients -> BOOLEAN] BY <1>1, <1>2 DEF TypeInt
<1>8. QED
  BY <1>1, <1>2, <1>3, <1>5, <1>6, <1>7, NeutralPreserves DEF TypeInt

(* A watcher that exits leaves no client parked behind it. *)
LEMMA WatcherPreserves ==
  ASSUME IInv, NEW p \in Clients, WatcherBroadcast(p) \/ WatcherExit(p)
  PROVE  IInv'
<1>1. TypeInt /\ ReqFacts /\ WaiterFacts /\ NoMissedWakeup BY DEF IInv
<1>2. /\ watcher' = [watcher EXCEPT ![p] = FALSE]
      /\ UNCHANGED <<cfg, counters, queuedBatch, req, ctxDone, acquires>>
  BY DEF WatcherBroadcast, WatcherExit
<1>3. /\ pc' \in [Clients -> PC]
      /\ \A q \in Clients : pc'[q] = "holding" <=> pc[q] = "holding"
      /\ \A q \in Clients : pc'[q] \in {"parked", "woken"}
                            <=> pc[q] \in {"parked", "woken"}
      /\ \A q \in Clients : pc'[q] = "parked" => pc[q] = "parked"
  BY <1>1 DEF WatcherBroadcast, WatcherExit, Broadcast, TypeInt, PC
<1>4. ReqFacts' BY <1>1, <1>2 DEF ReqFacts
<1>5. WaiterFacts'
  <2>1. \A q \in Clients : Queued(q)' => Queued(q) BY <1>3 DEF Queued
  <2>2. Queued(p) => ctxDone[p] BY DEF WatcherBroadcast, WatcherExit, Queued
  <2>3. QED BY <1>1, <1>2, <2>1, <2>2 DEF WaiterFacts, TypeInt
<1>6. NoMissedWakeup'
  <2>1. pc'[p] # "parked"
    BY <1>1 DEF WatcherBroadcast, WatcherExit, Broadcast, TypeInt
  <2>2. QED BY <1>1, <1>2, <1>3, <2>1
    DEF NoMissedWakeup, canAllocateBatch, TypeInt, counters
<1>7. queuedBatch' = Cardinality(Waiters')
  <2>1. Waiters' = Waiters BY <1>3 DEF Waiters, Queued
  <2>2. QED BY <1>2, <2>1, WaitersCard
<1>8. QED
  BY <1>1, <1>2, <1>3, <1>4, <1>5, <1>6, <1>7, NeutralPreserves DEF TypeInt

(* Release frees what was counted and wakes every waiter. *)
LEMMA ReleasePreserves ==
  ASSUME IInv, NEW p \in Clients, Release(p)
  PROVE  IInv'
<1>1. pc[p] = "holding"
      /\ UNCHANGED <<cfg, queuedBatch, req, ctxDone, watcher, acquires>>
  BY DEF Release
<1>2. /\ TypeInt /\ CfgFacts /\ ReqFacts /\ WaiterFacts /\ SlotsExact /\ Bounds
      /\ NoMissedWakeup
  BY DEF IInv
<1>3. /\ pc' \in [Clients -> PC] /\ pc'[p] = "released"
      /\ \A q \in Clients \ {p} : pc'[q] = "holding" <=> pc[q] = "holding"
      /\ \A q \in Clients : pc'[q] \in {"parked", "woken"}
                            <=> pc[q] \in {"parked", "woken"}
      /\ \A q \in Clients : ~cfg.noop => pc'[q] # "parked"
  BY <1>1, <1>2 DEF Release, Broadcast, TypeInt, PC
<1>4. ReqFacts' /\ CfgFacts' BY <1>1, <1>2 DEF ReqFacts, CfgFacts
<1>5. \A q \in Clients : Queued(q)' <=> Queued(q) BY <1>3 DEF Queued
<1>6. WaiterFacts' BY <1>1, <1>2, <1>5 DEF WaiterFacts, TypeInt
<1>7. NoMissedWakeup'
  BY <1>1, <1>2, <1>3, <1>5 DEF NoMissedWakeup, WaiterFacts, Queued
<1>8. queuedBatch' = Cardinality(Waiters')
  <2>1. Waiters' = Waiters BY <1>5 DEF Waiters
  <2>2. QED BY <1>1, <2>1, WaitersCard
<1>9. CASE cfg.noop
  <2>1. UNCHANGED counters BY <1>9 DEF Release
  <2>2. CountedOf("batch")' = CountedOf("batch")
        /\ CountedOf("live")' = CountedOf("live")
    BY <1>1, <1>9 DEF CountedOf, Counted
  <2>3. SlotsExact' BY <1>2, <1>8, <2>1, <2>2 DEF SlotsExact, Waiters, counters
  <2>4. TypeInt' BY <1>1, <1>2, <1>3, <2>1 DEF TypeInt, counters
  <2>5. Bounds' BY <1>1, <1>9 DEF Bounds
  <2>6. QED BY <1>4, <1>6, <1>7, <2>3, <2>4, <2>5 DEF IInv
<1>10. CASE ~cfg.noop
  <2>1. Uncount(req[p]) BY <1>10 DEF Release
  <2>2. /\ activeBatch' = Cardinality(CountedOf("batch")')
        /\ activeLive' = Cardinality(CountedOf("live")')
        /\ active' = activeBatch' + activeLive'
        /\ active' = active - 1
        /\ activeBatch' <= activeBatch
        /\ activeBatch' \in Int /\ activeLive' \in Int
        /\ activeCost' \in Int /\ activeBatchCost' \in Int
        /\ activeLiveCost' \in Int
    BY <1>1, <1>3, <1>10, <2>1, ReleaseExact
  <2>3. SlotsExact' BY <1>8, <2>2 DEF SlotsExact, Waiters
  <2>4. TypeInt' BY <1>1, <1>2, <1>3, <2>2 DEF TypeInt
  <2>5. Bounds' BY <1>1, <1>2, <2>2 DEF Bounds, TypeInt, CfgFacts
  <2>6. QED BY <1>4, <1>6, <1>7, <2>3, <2>4, <2>5 DEF IInv
<1>11. QED BY <1>9, <1>10

(* A second Release changes no counter. *)
LEMMA ReleaseAgainPreserves ==
  ASSUME IInv, NEW p \in Clients, ReleaseAgain(p)
  PROVE  IInv'
<1>1. /\ pc[p] = "released" /\ pc' = [pc EXCEPT ![p] = "idle"]
      /\ UNCHANGED <<cfg, counters, queuedBatch, req, ctxDone, watcher, acquires>>
  BY DEF ReleaseAgain
<1>2. TypeInt /\ ReqFacts /\ WaiterFacts /\ NoMissedWakeup BY DEF IInv
<1>3. pc' \in [Clients -> PC]
      /\ \A q \in Clients : pc'[q] = "holding" <=> pc[q] = "holding"
  BY <1>1, <1>2 DEF TypeInt, PC
<1>4. \A q \in Clients : Queued(q)' <=> Queued(q)
  BY <1>1, <1>2 DEF Queued, TypeInt
<1>5. ReqFacts' /\ WaiterFacts'
  BY <1>1, <1>2, <1>4 DEF ReqFacts, WaiterFacts
<1>6. NoMissedWakeup'
  BY <1>1, <1>2 DEF NoMissedWakeup, canAllocateBatch, counters, TypeInt
<1>7. queuedBatch' = Cardinality(Waiters')
  <2>1. Waiters' = Waiters BY <1>4 DEF Waiters
  <2>2. QED BY <1>1, <2>1, WaitersCard
<1>8. QED
  BY <1>1, <1>2, <1>3, <1>5, <1>6, <1>7, NeutralPreserves DEF TypeInt

(* A stuttering step changes nothing the invariant reads. *)
LEMMA StutterPreserves ==
  ASSUME IInv, UNCHANGED vars
  PROVE  IInv'
BY DEF IInv, vars, TypeInt, CfgFacts, ReqFacts, WaiterFacts, SlotsExact, Bounds,
       NoMissedWakeup, Queued, CountedOf, Counted, canAllocateBatch

(* Every step of the scheduler preserves the invariant. *)
LEMMA NextIInv == IInv /\ [Next]_vars => IInv'
<1> SUFFICES ASSUME IInv, [Next]_vars PROVE IInv' OBVIOUS
<1>1. CASE Next
  <2>1. PICK p \in Clients : Step(p) BY <1>1 DEF Next
  <2>2. CASE \E r \in Requests : \/ AcquireNoop(p, r)
                                 \/ AcquireRefused(p, r)
                                 \/ AcquireLive(p, r)
                                 \/ AcquireBatch(p, r)
    BY <2>2, AcquireNoopPreserves, AcquireRefusedPreserves,
       AcquireLivePreserves, AcquireBatchPreserves
  <2>3. CASE Recheck(p) BY <2>3, RecheckPreserves
  <2>4. CASE CtxCancel(p) BY <2>4, CtxCancelPreserves
  <2>5. CASE WatcherBroadcast(p) \/ WatcherExit(p) BY <2>5, WatcherPreserves
  <2>6. CASE Release(p) BY <2>6, ReleasePreserves
  <2>7. CASE ReleaseAgain(p) BY <2>7, ReleaseAgainPreserves
  <2>8. QED BY <2>1, <2>2, <2>3, <2>4, <2>5, <2>6, <2>7 DEF Step
<1>2. CASE UNCHANGED vars BY <1>2, StutterPreserves
<1>3. QED BY <1>1, <1>2

(* The inductive invariant holds in every reachable state of the scheduler. *)
THEOREM Inductive == Spec => []IInv
BY InitIInv, NextIInv, PTL DEF Spec

------------------------------------------------------------------------------
(* The results. *)

(* Type correctness, with every slot counter a natural number: no sequence *)
(* of grants, cancellations and double releases drives one below zero.     *)
THEOREM TypeCorrect == Spec => []TypeOK
<1>1. IInv => TypeOK
  <2> SUFFICES ASSUME IInv PROVE TypeOK OBVIOUS
  <2>1. TypeInt /\ CfgFacts /\ SlotsExact BY DEF IInv
  <2>2. /\ CountedOf("batch") \subseteq Clients
        /\ CountedOf("live") \subseteq Clients
        /\ {p \in Clients : Queued(p)} \subseteq Clients
    BY DEF CountedOf, Counted
  <2>3. activeBatch \in Nat /\ activeLive \in Nat /\ queuedBatch \in Nat
    BY <2>1, <2>2, CardNat DEF SlotsExact
  <2>4. active \in Nat BY <2>1, <2>3 DEF SlotsExact
  <2>5. QED BY <2>1, <2>3, <2>4 DEF TypeOK, TypeInt, CfgFacts
<1>2. QED BY <1>1, Inductive, PTL

(* Slot accounting is exact for any number of clients. *)
THEOREM SlotAccounting == Spec => []SlotsExact
<1>1. IInv => SlotsExact BY DEF IInv
<1>2. QED BY <1>1, Inductive, PTL

(* The live slot reserve is honoured for every configuration. *)
THEOREM SlotReserve == Spec => []SlotReserveHonoured
<1>1. IInv => SlotReserveHonoured
  BY DEF IInv, SlotReserveHonoured, Bounds, SlotsExact, TypeInt, CfgFacts
<1>2. QED BY <1>1, Inductive, PTL

(* No goroutine sleeps in cond.Wait while it could be admitted or with     *)
(* nobody left to deliver its cancellation.                                *)
THEOREM WakeupsArrive == Spec => []NoMissedWakeup
<1>1. IInv => NoMissedWakeup BY DEF IInv
<1>2. QED BY <1>1, Inductive, PTL

(* Whatever the configuration, New leaves an empty machine able to admit   *)
(* every request Acquire lets wait.                                        *)
THEOREM BatchNeverShutOut == Spec => []WaitersSatisfiable
<1>1. IInv => WaitersSatisfiable
  BY DEF IInv, WaitersSatisfiable, WaiterFacts, ReqFacts, CfgFacts, TypeInt,
         NormalRequest, UnitsPerSlot
<1>2. QED BY <1>1, Inductive, PTL

------------------------------------------------------------------------------
(* Refinement: the controller implements Admission. *)

Batch == CountedOf("batch")
Live == CountedOf("live")

(* Admission counts as the controller does. *)
LEMMA SameCount ==
  ASSUME NEW S
  PROVE  Promise!Cardinality(S) = Cardinality(S)
BY DEF Promise!Cardinality, Cardinality

(* The slots in use, seen from outside, are what the controller counts. *)
LEMMA UsedIsActive ==
  ASSUME IInv
  PROVE  Promise!Used = active
<1>1. Batch \subseteq Clients /\ Live \subseteq Clients /\ Batch \cap Live = {}
  BY DEF Batch, Live, CountedOf, Counted
<1>2. IsFiniteSet(Batch) /\ IsFiniteSet(Live)
  BY <1>1, ClientsAssumption, FS_Subset
<1>3. Cardinality(Batch \cup Live) = Cardinality(Batch) + Cardinality(Live)
  <2>1. /\ Cardinality(Batch \cup Live)
             = Cardinality(Batch) + Cardinality(Live) - Cardinality({})
        /\ Cardinality(Batch) \in Nat /\ Cardinality(Live) \in Nat
    BY <1>1, <1>2, FS_Union, FS_CardinalityType
  <2>2. Cardinality({}) = 0 BY FS_EmptySet
  <2>3. QED BY <2>1, <2>2
<1>4. QED BY <1>3, SameCount DEF Promise!Used, IInv, SlotsExact, Batch, Live

(* The steps that nobody outside sees. *)
LEMMA Unseen ==
  ASSUME cfg' = cfg, Batch' = Batch, Live' = Live, Waiters' = Waiters
  PROVE  [Promise!Next]_(Promise!vars)
BY DEF Promise!vars, Batch, Live, Waiters

(* What a client does outside is what it is seen to do. *)
LEMMA Seen ==
  ASSUME NEW p \in Clients,
         \/ Promise!GrantLive(p) \/ Promise!GrantBatch(p) \/ Promise!Wait(p)
         \/ Promise!GiveUp(p) \/ Promise!GiveBack(p)
  PROVE  [Promise!Next]_(Promise!vars)
BY DEF Promise!Next

(* A client that is not in the controller's care is in none of the sets,   *)
(* and while the controller is the no-op one nobody is.                    *)
LEMMA WhoIsWhere ==
  ASSUME IInv, NEW p \in Clients
  PROVE  /\ pc[p] # "holding" => p \notin Batch \cup Live
         /\ pc[p] = "idle" => p \notin Waiters
         /\ pc[p] = "woken" => p \in Waiters /\ ~cfg.noop /\ req[p].workload = "batch"
         /\ pc[p] = "holding" /\ ~cfg.noop => p \in Batch \cup Live
         /\ cfg.noop => Batch = {} /\ Live = {} /\ Waiters = {}
BY DEF IInv, TypeInt, NormalRequest, Workload, WaiterFacts, Batch, Live, CountedOf,
       Counted, Waiters, Queued

(* A grant, seen from outside. *)
LEMMA GrantSeen ==
  ASSUME IInv, NEW p \in Clients, NEW n \in NormalRequest,
         ~cfg.noop, cfg' = cfg, pc[p] # "holding",
         pc' = [pc EXCEPT ![p] = "holding"], req' = [req EXCEPT ![p] = n],
         \/ n.workload = "live" /\ active < cfg.total /\ pc[p] = "idle"
         \/ n.workload = "batch" /\ active < cfg.total - cfg.liveReserved
  PROVE  [Promise!Next]_(Promise!vars)
<1>1. TypeInt /\ CfgFacts BY DEF IInv
<1>2. /\ p \notin Batch \cup Live
      /\ Batch' = (IF n.workload = "batch" THEN Batch \cup {p} ELSE Batch)
      /\ Live' = (IF n.workload = "live" THEN Live \cup {p} ELSE Live)
  BY <1>1, CountedAdd DEF Batch, Live
<1>3. Waiters' = Waiters \ {p} BY <1>1 DEF TypeInt, Waiters, Queued
<1>4. CASE n.workload = "live" /\ active < cfg.total /\ pc[p] = "idle"
  <2>1. p \notin Waiters /\ Waiters' = Waiters BY <1>3, <1>4, WhoIsWhere
  <2>2. Promise!GrantLive(p)
    BY <1>2, <1>4, <2>1, UsedIsActive DEF Promise!GrantLive, Batch, Live, Waiters
  <2>3. QED BY <2>2, Seen
<1>5. CASE n.workload = "batch" /\ active < cfg.total - cfg.liveReserved
  <2>1. Promise!GrantBatch(p)
    BY <1>2, <1>3, <1>5, UsedIsActive DEF Promise!GrantBatch, Batch, Live, Waiters
  <2>2. QED BY <2>1, Seen
<1>6. QED BY <1>4, <1>5

(* Acquire, in all its branches. *)
LEMMA AcquireSeen ==
  ASSUME IInv, NEW p \in Clients, NEW r \in Requests,
         \/ AcquireNoop(p, r) \/ AcquireRefused(p, r)
         \/ AcquireLive(p, r) \/ AcquireBatch(p, r)
  PROVE  [Promise!Next]_(Promise!vars)
<1> DEFINE n == Normalise(r)
<1>1. Submit(p, r)
  BY DEF AcquireNoop, AcquireRefused, AcquireLive, AcquireBatch
<1>2. /\ pc[p] = "idle" /\ cfg' = cfg /\ req' = [req EXCEPT ![p] = n]
      /\ TypeInt /\ n \in NormalRequest /\ n.slots = 1
  BY <1>1, SubmitFacts, NormaliseFacts DEF IInv
<1>3. /\ CfgFacts /\ p \notin Batch \cup Live /\ p \notin Waiters
  BY <1>2, WhoIsWhere DEF IInv
<1>4. ASSUME UNCHANGED pc PROVE [Promise!Next]_(Promise!vars)
  <2>1. Batch' = Batch /\ Live' = Live
    BY <1>2, <1>4, CountedSame DEF Batch, Live, TypeInt
  <2>2. Waiters' = Waiters BY <1>4 DEF Waiters, Queued
  <2>3. QED BY <1>2, <2>1, <2>2, Unseen
<1>5. CASE AcquireNoop(p, r)
  <2>1. cfg.noop /\ cfg'.noop /\ pc' = [pc EXCEPT ![p] = "holding"]
    BY <1>2, <1>5 DEF AcquireNoop
  <2>2. Batch' = {} /\ Live' = {} BY <2>1 DEF Batch, Live, CountedOf, Counted
  <2>3. Waiters' = Waiters BY <1>2, <2>1 DEF TypeInt, Waiters, Queued
  <2>4. QED BY <1>2, <2>1, <2>2, <2>3, WhoIsWhere, Unseen
<1>6. CASE AcquireRefused(p, r)
  BY <1>4, <1>6 DEF AcquireRefused
<1>7. CASE AcquireLive(p, r)
  <2>1. /\ ~cfg.noop /\ n.workload = "live" /\ active + n.slots <= cfg.total
        /\ pc' = [pc EXCEPT ![p] = "holding"]
    BY <1>7 DEF AcquireLive, canAllocateLive
  <2> HIDE DEF n
  <2>2. active < cfg.total BY <1>2, <1>3, <2>1 DEF TypeInt, CfgFacts
  <2>3. QED BY <1>2, <2>1, <2>2, GrantSeen
<1>8. CASE AcquireBatch(p, r)
  <2>1. ~cfg.noop /\ n.workload = "batch" BY <1>8 DEF AcquireBatch
  <2>2. CASE canAllocateBatch(n.slots, n.cost) /\ pc' = [pc EXCEPT ![p] = "holding"]
    <3>1. active < cfg.total - cfg.liveReserved
      BY <1>2, <1>3, <2>2 DEF canAllocateBatch, TypeInt, CfgFacts
    <3> HIDE DEF n
    <3>2. QED BY <1>2, <2>1, <2>2, <3>1, GrantSeen
  <2>3. CASE pc' = [pc EXCEPT ![p] = "parked"]
    <3>1. Batch' = Batch /\ Live' = Live
      BY <1>2, <2>3, CountedSame DEF Batch, Live, TypeInt
    <3>2. Waiters' = Waiters \cup {p}
      BY <1>2, <2>3 DEF TypeInt, Waiters, Queued
    <3>3. Promise!Wait(p)
      BY <1>2, <1>3, <3>1, <3>2 DEF Promise!Wait, Batch, Live, Waiters
    <3>4. QED BY <3>3, Seen
  <2>4. QED BY <1>4, <1>8, <2>2, <2>3 DEF AcquireBatch
<1>9. QED BY <1>5, <1>6, <1>7, <1>8

(* A woken waiter: let in, gone or asleep again. *)
LEMMA RecheckSeen ==
  ASSUME IInv, NEW p \in Clients, Recheck(p)
  PROVE  [Promise!Next]_(Promise!vars)
<1>1. /\ pc[p] = "woken" /\ cfg' = cfg /\ req' = req
      /\ TypeInt /\ CfgFacts /\ req[p].slots = 1 /\ req[p] \in NormalRequest
  BY DEF Recheck, IInv, ReqFacts, TypeInt
<1>2. p \in Waiters /\ ~cfg.noop /\ req[p].workload = "batch" BY <1>1, WhoIsWhere
<1>3. CASE /\ canAllocateBatch(req[p].slots, req[p].cost)
           /\ pc' = [pc EXCEPT ![p] = "holding"]
  <2>1. active < cfg.total - cfg.liveReserved
    BY <1>1, <1>3 DEF canAllocateBatch, TypeInt, CfgFacts
  <2>2. req' = [req EXCEPT ![p] = req[p]] BY <1>1 DEF TypeInt
  <2>3. QED BY <1>1, <1>2, <1>3, <2>1, <2>2, GrantSeen
<1>4. CASE pc' = [pc EXCEPT ![p] = "idle"]
  <2>1. Batch' = Batch /\ Live' = Live
    BY <1>1, <1>4, CountedSame DEF Batch, Live, TypeInt
  <2>2. Waiters' = Waiters \ {p} BY <1>1, <1>4 DEF TypeInt, Waiters, Queued
  <2>3. Promise!GiveUp(p)
    BY <1>1, <1>2, <2>1, <2>2 DEF Promise!GiveUp, Batch, Live, Waiters
  <2>4. QED BY <2>3, Seen
<1>5. CASE pc' = [pc EXCEPT ![p] = "parked"]
  <2>1. Batch' = Batch /\ Live' = Live
    BY <1>1, <1>5, CountedSame DEF Batch, Live, TypeInt
  <2>2. Waiters' = Waiters BY <1>1, <1>5 DEF TypeInt, Waiters, Queued
  <2>3. QED BY <1>1, <2>1, <2>2, Unseen
<1>6. QED BY <1>3, <1>4, <1>5 DEF Recheck

(* Contexts, watchers and second releases stay inside. *)
LEMMA InsideUnseen ==
  ASSUME IInv, NEW p \in Clients,
         \/ CtxCancel(p) \/ WatcherBroadcast(p) \/ WatcherExit(p) \/ ReleaseAgain(p)
  PROVE  [Promise!Next]_(Promise!vars)
<1>1. TypeInt /\ cfg' = cfg /\ req' = req
  BY DEF IInv, CtxCancel, WatcherBroadcast, WatcherExit, ReleaseAgain
<1>2. \A q \in Clients : pc'[q] = "holding" <=> pc[q] = "holding"
  BY <1>1 DEF TypeInt, CtxCancel, WatcherBroadcast, WatcherExit, ReleaseAgain,
              Broadcast
<1>3. \A q \in Clients : Queued(q)' <=> Queued(q)
  BY <1>1 DEF TypeInt, CtxCancel, WatcherBroadcast, WatcherExit, ReleaseAgain,
              Broadcast, Queued
<1>4. Batch' = Batch /\ Live' = Live BY <1>1, <1>2, CountedSame DEF Batch, Live
<1>5. Waiters' = Waiters BY <1>3 DEF Waiters
<1>6. QED BY <1>1, <1>4, <1>5, Unseen

(* The first Release is the only way a lease ends. *)
LEMMA ReleaseSeen ==
  ASSUME IInv, NEW p \in Clients, Release(p)
  PROVE  [Promise!Next]_(Promise!vars)
<1>1. pc[p] = "holding" /\ cfg' = cfg /\ req' = req /\ TypeInt /\ CfgFacts
  BY DEF IInv, Release
<1>2. /\ pc'[p] = "released"
      /\ \A q \in Clients \ {p} : pc'[q] = "holding" <=> pc[q] = "holding"
      /\ \A q \in Clients : Queued(q)' <=> Queued(q)
  BY <1>1 DEF Release, Broadcast, Queued, TypeInt
<1>3. Waiters' = Waiters BY <1>2 DEF Waiters
<1>4. CASE cfg.noop
  <2>1. Batch' = {} /\ Live' = {} BY <1>1, <1>4 DEF Batch, Live, CountedOf, Counted
  <2>2. QED BY <1>1, <1>3, <1>4, <2>1, WhoIsWhere, Unseen
<1>5. CASE ~cfg.noop
  <2>1. Batch' = Batch \ {p} /\ Live' = Live \ {p}
    BY <1>1, <1>2, <1>5 DEF Batch, Live, CountedOf, Counted
  <2>2. p \in Batch \cup Live BY <1>1, <1>5, WhoIsWhere
  <2>3. Promise!GiveBack(p)
    BY <1>1, <1>3, <2>1, <2>2 DEF Promise!GiveBack, Batch, Live, Waiters
  <2>4. QED BY <2>3, Seen
<1>6. QED BY <1>4, <1>5

(* The controller implements Admission: every step of Acquire, Release, a  *)
(* watcher or a waiter is one step of the promise or nothing, whatever the *)
(* configuration, the clients and their requests.                          *)
THEOREM Implements == Spec => ImplementsAdmission
<1>1. Init => Promise!Init
  <2> SUFFICES ASSUME Init PROVE Promise!Init OBVIOUS
  <2>1. CfgFacts BY InitIInv DEF IInv
  <2>2. Batch = {} /\ Live = {} /\ Waiters = {}
    BY DEF Init, Batch, Live, CountedOf, Counted, Waiters, Queued
  <2>3. QED BY <2>1, <2>2 DEF Promise!Init, CfgFacts, Batch, Live, Waiters
<1>2. IInv /\ [Next]_vars => [Promise!Next]_(Promise!vars)
  <2> SUFFICES ASSUME IInv, [Next]_vars PROVE [Promise!Next]_(Promise!vars) OBVIOUS
  <2>1. CASE UNCHANGED vars
    <3>1. cfg' = cfg /\ Batch' = Batch /\ Live' = Live /\ Waiters' = Waiters
      BY <2>1 DEF vars, Batch, Live, CountedOf, Counted, Waiters, Queued
    <3>2. QED BY <3>1, Unseen
  <2>2. ASSUME NEW p \in Clients, Step(p) PROVE [Promise!Next]_(Promise!vars)
    BY <2>2, AcquireSeen, RecheckSeen, InsideUnseen, ReleaseSeen DEF Step
  <2>3. QED BY <2>1, <2>2 DEF Next
<1>3. QED BY <1>1, <1>2, Inductive, PTL DEF Spec, ImplementsAdmission, Promise!Spec

------------------------------------------------------------------------------
(* Sums of costs.  MapThenSumSet recurses on the chosen element of a set;  *)
(* the lemmas take it apart by induction on the size of the set, in the    *)
(* form of a smallest counterexample.                                      *)

Chosen(s) == CHOOSE x \in s : TRUE

(* f sums the costs c of every subset of S, one chosen element at a time. *)
Sums(c, S, f) ==
  f = [s \in SUBSET S |-> IF s = {} THEN 0
                          ELSE c[Chosen(s)].cost + f[s \ {Chosen(s)}]]

CostSum(c, S) == MapThenSumSet(LAMBDA p : c[p].cost, S)

(* Every nonempty set of naturals has a least element. *)
LEMMA LeastNumber ==
  ASSUME NEW T, T \subseteq Nat, T # {}
  PROVE  \E x \in T : \A y \in T : x <= y
<1> DEFINE R == OpToRel(<, Nat)
<1>1. IsWellFoundedOn(R, Nat) BY NatLessThanWellFounded, Zenon
<1>2. \A x, y \in Nat : y < x => <<y, x>> \in R BY DEF OpToRel
<1> HIDE DEF R
<1>3. PICK x \in T : \A y \in T : ~(<<y, x>> \in R) BY <1>1, WFMin
<1>4. \A y \in T : ~(y < x) BY <1>2, <1>3
<1>5. \A y \in T : x <= y BY <1>4
<1>6. QED BY <1>5

(* A nonempty family of subsets of a finite set has a smallest member. *)
LEMMA SmallestSet ==
  ASSUME NEW U, IsFiniteSet(U), NEW F, F \subseteq SUBSET U, F # {}
  PROVE  \E s \in F : \A t \in SUBSET U :
           t \subseteq s /\ t # s => t \notin F
<1> DEFINE T == {Cardinality(s) : s \in F}
<1>1. \A s \in SUBSET U : IsFiniteSet(s) /\ Cardinality(s) \in Nat
  BY FS_Subset, FS_CardinalityType
<1>2. T \subseteq Nat /\ T # {} BY <1>1
<1> HIDE DEF T
<1>3. PICK n \in T : \A m \in T : n <= m BY <1>2, LeastNumber
<1>4. PICK s \in F : Cardinality(s) = n BY DEF T
<1>5. ASSUME NEW t \in SUBSET U, t \subseteq s, t # s, t \in F PROVE FALSE
  <2>1. n <= Cardinality(t) BY <1>3, <1>5 DEF T
  <2>2. Cardinality(t) <= Cardinality(s) /\ Cardinality(t) # Cardinality(s)
    BY <1>1, <1>5, FS_Subset
  <2>3. QED BY <1>1, <1>4, <2>1, <2>2, <1>5
<1>6. QED BY <1>5

(* The chosen element is one of the set. *)
LEMMA ChosenIn ==
  ASSUME NEW s, s # {}
  PROVE  Chosen(s) \in s
BY DEF Chosen

(* The equations of a sum. *)
LEMMA SumsEquations ==
  ASSUME NEW c, NEW S, NEW f, Sums(c, S, f)
  PROVE  /\ f[{}] = 0
         /\ \A s \in SUBSET S : s # {} =>
              f[s] = c[Chosen(s)].cost + f[s \ {Chosen(s)}]
<1>1. \A s \in SUBSET S : f[s] = IF s = {} THEN 0
                          ELSE c[Chosen(s)].cost + f[s \ {Chosen(s)}]
  BY DEF Sums
<1>2. {} \in SUBSET S OBVIOUS
<1>3. QED BY <1>1, <1>2

(* The sum of a finite set exists: by induction on the size of the subsets *)
(* summed so far.                                                          *)
LEMMA SumsExist ==
  ASSUME NEW c, NEW S, IsFiniteSet(S)
  PROVE  \E f : Sums(c, S, f)
<1> DEFINE D(n) == {s \in SUBSET S : Cardinality(s) <= n}
           Body(g, s) == IF s = {} THEN 0
                         ELSE c[Chosen(s)].cost + g[s \ {Chosen(s)}]
           P(n) == \E g : g = [s \in D(n) |-> Body(g, s)]
           T == {n \in Nat : ~P(n)}
<1>1. \A s \in SUBSET S : IsFiniteSet(s) /\ Cardinality(s) \in Nat
                          /\ Cardinality(s) <= Cardinality(S)
  BY FS_Subset, FS_CardinalityType
<1>2. ASSUME NEW s \in SUBSET S, s # {}
      PROVE  /\ s \ {Chosen(s)} \in SUBSET S
             /\ Cardinality(s \ {Chosen(s)}) = Cardinality(s) - 1
  BY <1>1, <1>2, ChosenIn, FS_RemoveElement
<1>3. P(0)
  <2> DEFINE g == [s \in D(0) |-> 0]
  <2>1. \A s \in D(0) : s = {}
    BY <1>1, FS_EmptySet
  <2>2. g = [s \in D(0) |-> Body(g, s)] BY <2>1
  <2>3. QED BY <2>2
<1>4. ASSUME NEW n \in Nat, P(n) PROVE P(n + 1)
  <2>1. PICK g : g = [s \in D(n) |-> Body(g, s)] BY <1>4
  <2> DEFINE h == [s \in D(n + 1) |-> Body(g, s)]
  <2>2. \A s \in D(n) : s \in D(n + 1) BY <1>1
  <2>3. \A s \in D(n) : h[s] = g[s]
    <3>1. \A s \in D(n) : g[s] = Body(g, s) BY <2>1, Zenon
    <3>2. \A s \in D(n + 1) : h[s] = Body(g, s) BY Zenon
    <3>3. QED BY <2>2, <3>1, <3>2, Zenon
  <2>4. \A s \in D(n + 1) : s # {} => s \ {Chosen(s)} \in D(n)
    BY <1>1, <1>2
  <2>5. \A s \in D(n + 1) : Body(g, s) = Body(h, s)
    BY <2>3, <2>4, Zenon
  <2>6. h = [s \in D(n + 1) |-> Body(h, s)]
    <3> HIDE DEF Body, D
    <3>1. QED BY <2>5
  <2>7. QED BY <2>6
<1> HIDE DEF P
<1>5. \A n \in Nat : P(n)
  <2> SUFFICES ASSUME T # {} PROVE FALSE OBVIOUS
  <2>1. PICK n \in T : \A m \in T : n <= m BY LeastNumber
  <2>2. n \in Nat /\ n # 0 BY <1>3, <2>1
  <2>3. n - 1 \in Nat /\ n - 1 \notin T BY <2>1, <2>2
  <2>4. P(n - 1) BY <2>3
  <2>5. P(n - 1 + 1) BY <1>4, <2>3, <2>4
  <2>6. n - 1 + 1 = n BY <2>2
  <2>7. P(n) BY <2>5, <2>6
  <2>8. QED BY <2>1, <2>7
<1>6. D(Cardinality(S)) = SUBSET S BY <1>1
<1>7. Cardinality(S) \in Nat BY FS_CardinalityType
<1>8. P(Cardinality(S)) BY <1>5, <1>7
<1>9. PICK g : g = [s \in D(Cardinality(S)) |-> Body(g, s)]
  BY <1>8 DEF P
<1>10. g = [s \in SUBSET S |-> Body(g, s)] BY <1>6, <1>9, Zenon
<1>11. Sums(c, S, g) BY <1>10 DEF Sums
<1>12. QED BY <1>11

(* Two sums agree on every set they both cover and whose members they give *)
(* the same cost.                                                          *)
LEMMA SumsAgree ==
  ASSUME NEW c, NEW d, NEW S, NEW T, NEW f, NEW g, NEW U,
         Sums(c, S, f), Sums(d, T, g), IsFiniteSet(U),
         U \subseteq S, U \subseteq T,
         \A x \in U : c[x].cost = d[x].cost
  PROVE  f[U] = g[U]
<1> DEFINE F == {s \in SUBSET U : f[s] # g[s]}
<1>0. U \in SUBSET U OBVIOUS
<1>1. SUFFICES ASSUME F # {} PROVE FALSE BY <1>0
<1>2. PICK s \in F : \A t \in SUBSET U : t \subseteq s /\ t # s => t \notin F
  <2>1. F \subseteq SUBSET U OBVIOUS
  <2> HIDE DEF F
  <2>2. QED BY <1>1, <2>1, SmallestSet
<1>3. f[{}] = 0 /\ g[{}] = 0 BY SumsEquations
<1>4. s # {} /\ s \in SUBSET U /\ s \in SUBSET S /\ s \in SUBSET T BY <1>2, <1>3
<1>5. Chosen(s) \in s BY <1>4, ChosenIn
<1>6. s \ {Chosen(s)} \notin F /\ s \ {Chosen(s)} \in SUBSET U BY <1>2, <1>4, <1>5
<1>7. f[s \ {Chosen(s)}] = g[s \ {Chosen(s)}] BY <1>6
<1>8. /\ f[s] = c[Chosen(s)].cost + f[s \ {Chosen(s)}]
      /\ g[s] = d[Chosen(s)].cost + g[s \ {Chosen(s)}]
  BY <1>4, SumsEquations
<1>9. QED BY <1>2, <1>4, <1>5, <1>7, <1>8

(* CostSum is the value of such a sum. *)
LEMMA CostSumIs ==
  ASSUME NEW c, NEW S, IsFiniteSet(S)
  PROVE  \E f : Sums(c, S, f) /\ CostSum(c, S) = f[S]
<1> DEFINE f == CHOOSE g : Sums(c, S, g)
<1>1. CostSum(c, S) = f[S]
  BY DEF CostSum, MapThenSumSet, MapThenFoldSet, Sums, Chosen
<1>2. Sums(c, S, f) BY SumsExist
<1>3. QED BY <1>1, <1>2

(* Equal costs have equal sums. *)
LEMMA CostSumSame ==
  ASSUME NEW c, NEW d, NEW S, IsFiniteSet(S), \A x \in S : c[x].cost = d[x].cost
  PROVE  CostSum(c, S) = CostSum(d, S)
<1>1. PICK f : Sums(c, S, f) /\ CostSum(c, S) = f[S] BY CostSumIs
<1>2. PICK g : Sums(d, S, g) /\ CostSum(d, S) = g[S] BY CostSumIs
<1>3. f[S] = g[S] BY <1>1, <1>2, SumsAgree
<1>4. QED BY <1>1, <1>2, <1>3

(* The empty sum, and a sum without its chosen element. *)
LEMMA CostSumStep ==
  ASSUME NEW c, NEW S, IsFiniteSet(S)
  PROVE  /\ CostSum(c, {}) = 0
         /\ S # {} => CostSum(c, S) =
                        c[Chosen(S)].cost + CostSum(c, S \ {Chosen(S)})
<1>1. CostSum(c, {}) = 0
  <2>1. PICK f : Sums(c, {}, f) /\ CostSum(c, {}) = f[{}] BY FS_EmptySet, CostSumIs
  <2>2. QED BY <2>1, SumsEquations
<1>2. ASSUME S # {}
      PROVE  CostSum(c, S) = c[Chosen(S)].cost + CostSum(c, S \ {Chosen(S)})
  <2> DEFINE R == S \ {Chosen(S)}
  <2>1. IsFiniteSet(R) /\ R \subseteq S BY FS_Subset
  <2>2. PICK f : Sums(c, S, f) /\ CostSum(c, S) = f[S] BY CostSumIs
  <2>3. PICK g : Sums(c, R, g) /\ CostSum(c, R) = g[R] BY <2>1, CostSumIs
  <2>4. f[R] = g[R] BY <2>1, <2>2, <2>3, SumsAgree
  <2>5. f[S] = c[Chosen(S)].cost + f[R] BY <1>2, <2>2, SumsEquations
  <2>6. QED BY <2>2, <2>3, <2>4, <2>5
<1>3. QED BY <1>1, <1>2

(* A sum of naturals is one. *)
LEMMA CostSumNat ==
  ASSUME NEW c, NEW S, IsFiniteSet(S), \A x \in S : c[x].cost \in Nat
  PROVE  CostSum(c, S) \in Nat
<1> DEFINE F == {s \in SUBSET S : CostSum(c, s) \notin Nat}
<1>0. S \in SUBSET S OBVIOUS
<1>1. SUFFICES ASSUME F # {} PROVE FALSE BY <1>0
<1>2. PICK s \in F : \A t \in SUBSET S : t \subseteq s /\ t # s => t \notin F
  <2>1. F \subseteq SUBSET S OBVIOUS
  <2> HIDE DEF F
  <2>2. QED BY <1>1, <2>1, SmallestSet
<1>3. s \in SUBSET S /\ IsFiniteSet(s) BY <1>2, FS_Subset
<1>4. s # {}
  <2>1. CostSum(c, {}) = 0 BY <1>3, CostSumStep
  <2>2. CostSum(c, {}) \in Nat BY <2>1
  <2>3. CostSum(c, s) \notin Nat BY <1>2
  <2>4. QED BY <2>2, <2>3, Zenon
<1>5. Chosen(s) \in s BY <1>4, ChosenIn
<1>6. CostSum(c, s \ {Chosen(s)}) \in Nat BY <1>2, <1>3, <1>5
<1>7. CostSum(c, s) = c[Chosen(s)].cost + CostSum(c, s \ {Chosen(s)})
  BY <1>3, <1>4, CostSumStep
<1>8. c[Chosen(s)].cost \in Nat BY <1>3, <1>5
<1>9. CostSum(c, s) \in Nat BY <1>6, <1>7, <1>8
<1>10. QED BY <1>2, <1>9

(* A sum does not depend on the order: any element may be taken out first. *)
LEMMA CostSumRemove ==
  ASSUME NEW c, NEW S, IsFiniteSet(S), \A x \in S : c[x].cost \in Nat,
         NEW e \in S
  PROVE  CostSum(c, S) = c[e].cost + CostSum(c, S \ {e})
<1> DEFINE F == {s \in SUBSET S :
                   \E y \in s : CostSum(c, s) # c[y].cost + CostSum(c, s \ {y})}
<1>0. S \in SUBSET S OBVIOUS
<1>1. SUFFICES ASSUME F # {} PROVE FALSE BY <1>0
<1>2. PICK s \in F : \A t \in SUBSET S : t \subseteq s /\ t # s => t \notin F
  <2>1. F \subseteq SUBSET S OBVIOUS
  <2> HIDE DEF F
  <2>2. QED BY <1>1, <2>1, SmallestSet
<1>3. s \in SUBSET S /\ IsFiniteSet(s) BY <1>2, FS_Subset
<1>4. PICK y \in s : CostSum(c, s) # c[y].cost + CostSum(c, s \ {y}) BY <1>2
<1> DEFINE x == Chosen(s)
<1>5. x \in s BY <1>4, ChosenIn
<1>6. CostSum(c, s) = c[x].cost + CostSum(c, s \ {x}) BY <1>3, <1>4, CostSumStep
<1> HIDE DEF x
<1>7. x # y BY <1>4, <1>6
<1>8. s \ {x} \in SUBSET S /\ s \ {x} \notin F /\ y \in s \ {x}
  BY <1>2, <1>3, <1>4, <1>5, <1>7
<1>9. s \ {y} \in SUBSET S /\ s \ {y} \notin F /\ x \in s \ {y}
  BY <1>2, <1>3, <1>4, <1>5, <1>7
<1> DEFINE rest == s \ {x, y}
<1>10. (s \ {x}) \ {y} = rest /\ (s \ {y}) \ {x} = rest OBVIOUS
<1>11. CostSum(c, s \ {x}) = c[y].cost + CostSum(c, rest) BY <1>8, <1>10
<1>12. CostSum(c, s \ {y}) = c[x].cost + CostSum(c, rest) BY <1>9, <1>10
<1>13. IsFiniteSet(rest) /\ rest \subseteq S BY <1>3, FS_Subset
<1>14. CostSum(c, rest) \in Nat BY <1>13, CostSumNat
<1>15. c[x].cost \in Nat /\ c[y].cost \in Nat BY <1>3, <1>4, <1>5
<1> HIDE DEF rest
<1>16. QED BY <1>4, <1>6, <1>11, <1>12, <1>14, <1>15

(* A new element adds its cost, whatever the function says of others. *)
LEMMA CostSumAdd ==
  ASSUME NEW c, NEW d, NEW S, IsFiniteSet(S), NEW e, e \notin S,
         \A x \in S : c[x].cost \in Nat, d[e].cost \in Nat,
         \A x \in S : d[x].cost = c[x].cost
  PROVE  CostSum(d, S \cup {e}) = CostSum(c, S) + d[e].cost
<1> DEFINE T == S \cup {e}
<1>1. IsFiniteSet(T) /\ e \in T /\ T \ {e} = S BY FS_AddElement
<1>2. \A x \in T : d[x].cost \in Nat OBVIOUS
<1> HIDE DEF T
<1>3. CostSum(d, T) = d[e].cost + CostSum(d, T \ {e})
  BY <1>1, <1>2, CostSumRemove
<1>4. CostSum(d, S) = CostSum(c, S) BY CostSumSame
<1>5. CostSum(c, S) \in Nat BY CostSumNat
<1>6. CostSum(d, T) = d[e].cost + CostSum(c, S) BY <1>1, <1>3, <1>4, Zenon
<1>7. CostSum(d, T) = CostSum(c, S) + d[e].cost BY <1>5, <1>6
<1>8. QED BY <1>7 DEF T

------------------------------------------------------------------------------
(* The cost counters. *)

(* The cost counters are what the counted leases cost, live and batch      *)
(* apart; a budget is never overdrawn, and batch work never reaches into   *)
(* the part of it that is reserved for live work.                          *)
CostsExact ==
  /\ activeCost = activeBatchCost + activeLiveCost
  /\ activeBatchCost = CostOf(CountedOf("batch"))
  /\ activeLiveCost = CostOf(CountedOf("live"))
  /\ ~cfg.noop => /\ activeCost <= cfg.totalCost
                  /\ activeBatchCost <= cfg.totalCost - cfg.liveCostReserved

(* What New guarantees of the budget. *)
BudgetFacts == ~cfg.noop => 1 <= cfg.totalCost /\ 0 <= cfg.liveCostReserved

(* What the counted leases cost after a step. *)
LEMMA CostOfNext ==
  ASSUME NEW w
  PROVE  CostOf(CountedOf(w))' = CostSum(req', CountedOf(w)')
BY DEF CostOf, CostSum, MapThenSumSet, MapThenFoldSet

(* What the counted leases cost is a natural number. *)
LEMMA CostNat ==
  ASSUME IInv, NEW w
  PROVE  /\ CostOf(CountedOf(w)) = CostSum(req, CountedOf(w))
         /\ IsFiniteSet(CountedOf(w))
         /\ \A q \in CountedOf(w) : req[q].cost \in Nat
         /\ CostSum(req, CountedOf(w)) \in Nat
<1>1. CostOf(CountedOf(w)) = CostSum(req, CountedOf(w)) BY DEF CostOf, CostSum
<1>2. CountedOf(w) \subseteq Clients BY DEF CountedOf, Counted
<1>3. IsFiniteSet(CountedOf(w)) BY <1>2, ClientsAssumption, FS_Subset
<1>4. \A q \in CountedOf(w) : req[q].cost \in Nat
  <2>1. TypeInt /\ ReqFacts BY DEF IInv
  <2>2. \A q \in Clients : req[q].cost \in Int /\ 1 <= req[q].cost
    BY <2>1 DEF TypeInt, ReqFacts, NormalRequest
  <2>3. QED BY <1>2, <2>2
<1>5. CostSum(req, CountedOf(w)) \in Nat BY <1>3, <1>4, CostSumNat
<1>6. QED BY <1>1, <1>3, <1>4, <1>5

(* A step that neither grants nor releases leaves the sums alone. *)
LEMMA CostsKept ==
  ASSUME IInv, CostsExact, UNCHANGED <<cfg, counters>>,
         \A w : CountedOf(w)' = CountedOf(w),
         \A w : \A q \in CountedOf(w) : req'[q] = req[q]
  PROVE  CostsExact'
<1>1. ASSUME NEW w PROVE CostOf(CountedOf(w))' = CostOf(CountedOf(w))
  <2>1. CostOf(CountedOf(w))' = CostSum(req', CountedOf(w)) BY CostOfNext
  <2>2. IsFiniteSet(CountedOf(w)) /\ CostOf(CountedOf(w)) = CostSum(req, CountedOf(w))
    BY CostNat
  <2>3. \A q \in CountedOf(w) : req'[q].cost = req[q].cost OBVIOUS
  <2>4. CostSum(req', CountedOf(w)) = CostSum(req, CountedOf(w))
    BY <2>2, <2>3, CostSumSame
  <2>5. QED BY <2>1, <2>2, <2>4
<1>2. QED BY <1>1 DEF CostsExact, counters

(* A grant adds its cost to its own workload's sum. *)
LEMMA CostGranted ==
  ASSUME IInv, CostsExact, NEW p \in Clients, NEW n \in NormalRequest,
         1 <= n.cost, ~cfg.noop, cfg' = cfg, pc[p] # "holding",
         pc' = [pc EXCEPT ![p] = "holding"],
         req' = [req EXCEPT ![p] = n],
         Count(n),
         activeCost + n.cost <= cfg.totalCost,
         n.workload = "batch" =>
           activeCost + n.cost <= cfg.totalCost - cfg.liveCostReserved
  PROVE  CostsExact'
<1>1. TypeInt /\ CfgFacts BY DEF IInv
<1>2. n.cost \in Nat BY DEF NormalRequest
<1>3. ASSUME NEW w
      PROVE  CostOf(CountedOf(w))' = CostOf(CountedOf(w))
                                     + IF n.workload = w THEN n.cost ELSE 0
  <2> DEFINE S == CountedOf(w)
  <2>1. /\ p \notin S
        /\ CountedOf(w)' = IF n.workload = w THEN S \cup {p} ELSE S
    BY <1>1, CountedAdd
  <2>2. S \subseteq Clients BY DEF CountedOf, Counted
  <2>3. /\ CostOf(S) = CostSum(req, S) /\ IsFiniteSet(S)
        /\ \A q \in S : req[q].cost \in Nat
        /\ CostSum(req, S) \in Nat
    BY CostNat
  <2>4. PICK d : d = req' OBVIOUS
  <2>5. CostOf(CountedOf(w))' = CostSum(d, CountedOf(w)') BY <2>4, CostOfNext
  <2> HIDE DEF S
  <2>6. d[p].cost = n.cost /\ \A q \in S : d[q].cost = req[q].cost
    BY <1>1, <2>1, <2>2, <2>4 DEF TypeInt
  <2>7. CASE n.workload = w
    <3>1. CostSum(d, S \cup {p}) = CostSum(req, S) + n.cost
      BY <1>2, <2>1, <2>3, <2>6, CostSumAdd
    <3>2. CostOf(CountedOf(w))' = CostSum(d, S \cup {p}) BY <2>1, <2>5, <2>7
    <3>3. CostOf(CountedOf(w)) = CostSum(req, S) BY <2>3 DEF S
    <3>4. QED BY <2>7, <3>1, <3>2, <3>3
  <2>8. CASE n.workload # w
    <3>1. CostSum(d, S) = CostSum(req, S) BY <2>3, <2>6, CostSumSame
    <3>2. CostOf(CountedOf(w))' = CostSum(req, S) BY <2>1, <2>5, <2>8, <3>1
    <3>3. CostOf(CountedOf(w)) = CostSum(req, S) BY <2>3 DEF S
    <3>4. QED BY <2>3, <2>8, <3>2, <3>3
  <2>9. QED BY <2>7, <2>8
<1>4. \A w : CostOf(CountedOf(w)) \in Nat BY CostNat
<1>5. n.workload = "live" \/ n.workload = "batch" BY DEF NormalRequest, Workload
<1>6. CASE n.workload = "live"
  <2>1. /\ CostOf(CountedOf("live"))' = CostOf(CountedOf("live")) + n.cost
        /\ CostOf(CountedOf("batch"))' = CostOf(CountedOf("batch"))
    BY <1>3, <1>4, <1>6
  <2>2. QED BY <1>1, <1>2, <1>4, <1>6, <2>1 DEF CostsExact, Count, TypeInt, CfgFacts
<1>7. CASE n.workload = "batch"
  <2>1. /\ CostOf(CountedOf("batch"))' = CostOf(CountedOf("batch")) + n.cost
        /\ CostOf(CountedOf("live"))' = CostOf(CountedOf("live"))
    BY <1>3, <1>4, <1>7
  <2>2. QED BY <1>1, <1>2, <1>4, <1>7, <2>1 DEF CostsExact, Count, TypeInt, CfgFacts
<1>8. QED BY <1>5, <1>6, <1>7

(* The first Release takes out exactly what the grant put in. *)
LEMMA CostReleased ==
  ASSUME IInv, CostsExact, NEW p \in Clients, ~cfg.noop, cfg' = cfg,
         pc[p] = "holding", req' = req, pc'[p] # "holding",
         \A q \in Clients \ {p} : pc'[q] = "holding" <=> pc[q] = "holding",
         Uncount(req[p])
  PROVE  CostsExact'
<1> DEFINE n == req[p]
<1>1. TypeInt /\ CfgFacts /\ ReqFacts BY DEF IInv
<1>2. n \in NormalRequest /\ n.cost \in Nat
  BY <1>1 DEF TypeInt, ReqFacts, NormalRequest
<1>3. ASSUME NEW w
      PROVE  CostOf(CountedOf(w))' = CostOf(CountedOf(w))
                                     - IF n.workload = w THEN n.cost ELSE 0
  <2> DEFINE S == CountedOf(w)
  <2>1. /\ n.workload = w => p \in S
        /\ CountedOf(w)' = IF n.workload = w THEN S \ {p} ELSE S
    BY <1>1, CountedRemove
  <2>2. /\ CostOf(S) = CostSum(req, S) /\ IsFiniteSet(S)
        /\ \A q \in S : req[q].cost \in Nat
        /\ CostSum(req, S) \in Nat
    BY CostNat
  <2>3. CostOf(CountedOf(w))' = CostSum(req, CountedOf(w)') BY CostOfNext
  <2> HIDE DEF S
  <2>4. IsFiniteSet(S \ {p}) /\ \A q \in S \ {p} : req[q].cost \in Nat
    BY <2>2, FS_Subset
  <2>5. CostSum(req, S \ {p}) \in Nat BY <2>4, CostSumNat
  <2>6. n.workload = w => CostSum(req, S) = n.cost + CostSum(req, S \ {p})
    BY <2>1, <2>2, CostSumRemove
  <2>7. CostOf(CountedOf(w)) = CostSum(req, S) BY <2>2 DEF S
  <2> HIDE DEF n
  <2>8. QED BY <1>2, <2>1, <2>2, <2>3, <2>5, <2>6, <2>7
<1>4. \A w : CostOf(CountedOf(w)) \in Nat BY CostNat
<1>5. n.workload = "live" \/ n.workload = "batch" BY <1>2 DEF NormalRequest, Workload
<1>6. CASE n.workload = "live"
  <2>1. /\ CostOf(CountedOf("live"))' = CostOf(CountedOf("live")) - n.cost
        /\ CostOf(CountedOf("batch"))' = CostOf(CountedOf("batch"))
    BY <1>3, <1>4, <1>6
  <2>2. QED BY <1>1, <1>2, <1>4, <1>6, <2>1
        DEF CostsExact, Uncount, TypeInt, CfgFacts
<1>7. CASE n.workload = "batch"
  <2>1. /\ CostOf(CountedOf("batch"))' = CostOf(CountedOf("batch")) - n.cost
        /\ CostOf(CountedOf("live"))' = CostOf(CountedOf("live"))
    BY <1>3, <1>4, <1>7
  <2>2. QED BY <1>1, <1>2, <1>4, <1>7, <2>1
        DEF CostsExact, Uncount, TypeInt, CfgFacts
<1>8. QED BY <1>5, <1>6, <1>7

(* New leaves a controller that counts a budget and a reserve within it. *)
LEMMA NewBudget ==
  ASSUME NEW raw \in Configs, cfg = New(raw)
  PROVE  BudgetFacts
<1>1. raw \in [TotalSlots : Int, LiveReservedSlots : Int,
               TotalCost : Int, LiveReservedCost : Int]
  BY ConfigsAssumption
<1>2. CASE raw.TotalSlots <= 0 BY <1>2 DEF New, BudgetFacts
<1>3. CASE ~(raw.TotalSlots <= 0)
  <2> DEFINE tc == IF raw.TotalCost <= 0
                   THEN raw.TotalSlots * UnitsPerSlot ELSE raw.TotalCost
             rs == Least(Greatest(raw.LiveReservedSlots, 0), raw.TotalSlots - 1)
             mc == Greatest(tc - UnitsPerSlot, 0)
             wc == IF raw.LiveReservedCost <= 0
                   THEN rs * UnitsPerSlot ELSE raw.LiveReservedCost
  <2>1. tc \in Int /\ 1 <= tc BY <1>1, <1>3 DEF UnitsPerSlot
  <2>2. rs \in Int /\ 0 <= rs BY <1>1, <1>3 DEF Least, Greatest
  <2>3. mc \in Int /\ 0 <= mc BY <2>1 DEF Greatest, UnitsPerSlot
  <2>4. wc \in Int /\ 0 <= wc BY <1>1, <2>2 DEF UnitsPerSlot
  <2>5. 0 <= Least(wc, mc) BY <2>3, <2>4 DEF Least
  <2>6. cfg = [noop |-> FALSE, total |-> raw.TotalSlots, liveReserved |-> rs,
               totalCost |-> tc, liveCostReserved |-> Least(wc, mc)]
    BY <1>3 DEF New
  <2> HIDE DEF tc, rs, mc, wc
  <2>7. QED BY <2>1, <2>5, <2>6 DEF BudgetFacts
<1>4. QED BY <1>2, <1>3

CostInv == BudgetFacts /\ CostsExact

(* A fresh controller has spent nothing. *)
LEMMA CostsInit == Init => CostInv
<1> SUFFICES ASSUME Init PROVE CostInv OBVIOUS
<1>1. IInv BY InitIInv
<1>2. CountedOf("batch") = {} /\ CountedOf("live") = {}
  BY DEF Init, CountedOf, Counted
<1>3. CostSum(req, {}) = 0 BY FS_EmptySet, CostSumStep
<1>4. CostOf(CountedOf("batch")) = 0 /\ CostOf(CountedOf("live")) = 0
  BY <1>1, <1>2, <1>3, CostNat
<1>5. BudgetFacts
  <2>1. PICK raw \in Configs : cfg = New(raw) BY DEF Init
  <2>2. QED BY <2>1, NewBudget
<1>6. CfgFacts BY <1>1 DEF IInv
<1>7. ~cfg.noop => 0 <= cfg.totalCost - cfg.liveCostReserved
  BY <1>5, <1>6 DEF BudgetFacts, CfgFacts, UnitsPerSlot
<1>8. QED BY <1>4, <1>5, <1>6, <1>7 DEF Init, CostInv, CostsExact, BudgetFacts, CfgFacts

(* Acquire, in all its branches. *)
LEMMA CostsAcquire ==
  ASSUME IInv, BudgetFacts, CostsExact, NEW p \in Clients, NEW r \in Requests,
         \/ AcquireNoop(p, r) \/ AcquireRefused(p, r)
         \/ AcquireLive(p, r) \/ AcquireBatch(p, r)
  PROVE  CostsExact'
<1> DEFINE n == Normalise(r)
<1>1. Submit(p, r)
  BY DEF AcquireNoop, AcquireRefused, AcquireLive, AcquireBatch
<1>2. /\ pc[p] = "idle" /\ cfg' = cfg /\ req' = [req EXCEPT ![p] = n]
      /\ TypeInt /\ n \in NormalRequest /\ 1 <= n.cost
  BY <1>1, SubmitFacts, NormaliseFacts DEF IInv
<1>3. CfgFacts BY DEF IInv
<1> HIDE DEF n
<1>4. ASSUME UNCHANGED counters,
             \A q \in Clients : pc'[q] = "holding" <=> pc[q] = "holding"
      PROVE  CostsExact'
  <2>1. \A q \in Clients : pc[q] = "holding" => req'[q] = req[q]
    BY <1>2 DEF TypeInt
  <2>2. \A w : CountedOf(w)' = CountedOf(w) BY <1>2, <1>4, <2>1, CountedSame
  <2>3. \A w : \A q \in CountedOf(w) : req'[q] = req[q]
    BY <2>1 DEF CountedOf, Counted
  <2>4. QED BY <1>2, <1>4, <2>2, <2>3, CostsKept
<1>5. CASE AcquireNoop(p, r)
  <2>1. cfg.noop /\ cfg'.noop /\ UNCHANGED counters
    BY <1>2, <1>5 DEF AcquireNoop
  <2>2. \A w : CountedOf(w) = {} /\ CountedOf(w)' = {}
    BY <2>1 DEF CountedOf, Counted
  <2>3. QED BY <1>2, <2>1, <2>2, CostsKept
<1>6. CASE AcquireRefused(p, r)
  BY <1>4, <1>6 DEF AcquireRefused
<1>7. CASE AcquireLive(p, r)
  <2>1. /\ ~cfg.noop /\ n.workload = "live" /\ Count(n)
        /\ activeCost + n.cost <= cfg.totalCost
        /\ pc' = [pc EXCEPT ![p] = "holding"]
    BY <1>7 DEF AcquireLive, canAllocateLive, n
  <2>2. QED BY <1>2, <2>1, CostGranted
<1>8. CASE AcquireBatch(p, r)
  <2>1. ~cfg.noop BY <1>8 DEF AcquireBatch
  <2>2. CASE /\ canAllocateBatch(n.slots, n.cost) /\ Count(n)
             /\ pc' = [pc EXCEPT ![p] = "holding"]
    <3>1. activeCost + n.cost <= cfg.totalCost - cfg.liveCostReserved
      BY <2>2 DEF canAllocateBatch
    <3>2. activeCost + n.cost <= cfg.totalCost
      BY <1>2, <1>3, <2>1, <3>1 DEF BudgetFacts, TypeInt, NormalRequest, CfgFacts
    <3>3. QED BY <1>2, <2>1, <2>2, <3>1, <3>2, CostGranted
  <2>3. CASE UNCHANGED <<counters, pc>> BY <1>4, <2>3
  <2>4. CASE pc' = [pc EXCEPT ![p] = "parked"] /\ UNCHANGED counters
    <3>1. \A q \in Clients : pc'[q] = "holding" <=> pc[q] = "holding"
      BY <1>2, <2>4 DEF TypeInt
    <3>2. QED BY <1>4, <2>4, <3>1
  <2>5. QED BY <1>8, <2>2, <2>3, <2>4 DEF AcquireBatch, n
<1>9. QED BY <1>5, <1>6, <1>7, <1>8

(* A woken waiter: charged when it is let in, not before. *)
LEMMA CostsRecheck ==
  ASSUME IInv, BudgetFacts, CostsExact, NEW p \in Clients, Recheck(p)
  PROVE  CostsExact'
<1>1. /\ pc[p] = "woken" /\ cfg' = cfg /\ req' = req
      /\ TypeInt /\ CfgFacts /\ ~cfg.noop
      /\ req[p] \in NormalRequest /\ 1 <= req[p].cost
  BY DEF Recheck, IInv, ReqFacts, WaiterFacts, Queued, TypeInt
<1>2. ASSUME UNCHANGED counters,
             \A q \in Clients : pc'[q] = "holding" <=> pc[q] = "holding"
      PROVE  CostsExact'
  <2>1. \A w : CountedOf(w)' = CountedOf(w) BY <1>1, <1>2, CountedSame
  <2>2. QED BY <1>1, <1>2, <2>1, CostsKept
<1>3. CASE /\ canAllocateBatch(req[p].slots, req[p].cost) /\ Count(req[p])
           /\ pc' = [pc EXCEPT ![p] = "holding"]
  <2>1. activeCost + req[p].cost <= cfg.totalCost - cfg.liveCostReserved
    BY <1>3 DEF canAllocateBatch
  <2>2. activeCost + req[p].cost <= cfg.totalCost
    BY <1>1, <2>1 DEF BudgetFacts, TypeInt, NormalRequest, CfgFacts
  <2>3. req' = [req EXCEPT ![p] = req[p]] BY <1>1 DEF TypeInt
  <2>4. QED BY <1>1, <1>3, <2>1, <2>2, <2>3, CostGranted
<1>4. CASE UNCHANGED counters /\ (\/ pc' = [pc EXCEPT ![p] = "idle"]
                                  \/ pc' = [pc EXCEPT ![p] = "parked"])
  <2>1. \A q \in Clients : pc'[q] = "holding" <=> pc[q] = "holding"
    BY <1>1, <1>4 DEF TypeInt
  <2>2. QED BY <1>2, <1>4, <2>1
<1>5. QED BY <1>3, <1>4 DEF Recheck

(* Contexts, watchers and second releases cost nothing. *)
LEMMA CostsInside ==
  ASSUME IInv, CostsExact, NEW p \in Clients,
         \/ CtxCancel(p) \/ WatcherBroadcast(p) \/ WatcherExit(p) \/ ReleaseAgain(p)
  PROVE  CostsExact'
<1>1. TypeInt /\ cfg' = cfg /\ req' = req /\ UNCHANGED counters
  BY DEF IInv, CtxCancel, WatcherBroadcast, WatcherExit, ReleaseAgain
<1>2. \A q \in Clients : pc'[q] = "holding" <=> pc[q] = "holding"
  BY <1>1 DEF TypeInt, CtxCancel, WatcherBroadcast, WatcherExit, ReleaseAgain,
              Broadcast
<1>3. \A w : CountedOf(w)' = CountedOf(w) BY <1>1, <1>2, CountedSame
<1>4. QED BY <1>1, <1>3, CostsKept

(* The first Release gives back what the lease cost. *)
LEMMA CostsRelease ==
  ASSUME IInv, CostsExact, NEW p \in Clients, Release(p)
  PROVE  CostsExact'
<1>1. pc[p] = "holding" /\ cfg' = cfg /\ req' = req /\ TypeInt
  BY DEF IInv, Release
<1>2. /\ pc'[p] = "released"
      /\ \A q \in Clients \ {p} : pc'[q] = "holding" <=> pc[q] = "holding"
  BY <1>1 DEF Release, Broadcast, TypeInt
<1>3. CASE cfg.noop
  <2>1. UNCHANGED counters BY <1>3 DEF Release
  <2>2. \A w : CountedOf(w) = {} /\ CountedOf(w)' = {}
    BY <1>1, <1>3 DEF CountedOf, Counted
  <2>3. QED BY <1>1, <2>1, <2>2, CostsKept
<1>4. CASE ~cfg.noop
  <2>1. Uncount(req[p]) BY <1>4 DEF Release
  <2>2. QED BY <1>1, <1>2, <1>4, <2>1, CostReleased
<1>5. QED BY <1>3, <1>4

(* Every step keeps the cost counters exact and within the budget. *)
LEMMA CostsNext == IInv /\ CostInv /\ [Next]_vars => CostInv'
<1> SUFFICES ASSUME IInv, BudgetFacts, CostsExact, [Next]_vars
             PROVE  BudgetFacts' /\ CostsExact'
  BY DEF CostInv
<1>1. cfg' = cfg
  BY DEF Next, Step, AcquireNoop, AcquireRefused, AcquireLive, AcquireBatch, Submit,
         Recheck, CtxCancel, WatcherBroadcast, WatcherExit, Release, ReleaseAgain, vars
<1>2. BudgetFacts' BY <1>1 DEF BudgetFacts
<1>3. CASE UNCHANGED vars
  <2>1. /\ UNCHANGED <<cfg, counters>> /\ req' = req
        /\ \A w : CountedOf(w)' = CountedOf(w)
    BY <1>3 DEF vars, counters, CountedOf, Counted
  <2>2. QED BY <1>2, <2>1, CostsKept
<1>4. ASSUME NEW p \in Clients, Step(p) PROVE CostsExact'
  BY <1>4, CostsAcquire, CostsRecheck, CostsInside, CostsRelease DEF Step
<1>5. QED BY <1>2, <1>3, <1>4 DEF Next

(* Cost accounting is exact for any number of clients: each cost counter   *)
(* is the sum over the leases that exist, whatever was granted, cancelled, *)
(* released or released twice before, and neither the budget nor batch's   *)
(* part of it is ever overdrawn.                                           *)
THEOREM CostAccounting == Spec => []CostsExact
<1>1. CostInv => CostsExact BY DEF CostInv
<1>2. QED BY <1>1, CostsInit, CostsNext, Inductive, PTL DEF Spec

(* The live cost reserve is honoured for every configuration.  Batch holds *)
(* at most the budget less the reserve, so what live leases leave of the   *)
(* reserve is still there.                                                 *)
THEOREM CostReserve == Spec => []CostReserveHonoured
<1>1. IInv /\ CostInv => CostReserveHonoured
  <2> SUFFICES ASSUME IInv, CostsExact, NEW r \in Requests, ~cfg.noop,
                      CostOf(CountedOf("live")) + Normalise(r).cost
                        <= cfg.liveCostReserved
               PROVE  activeCost + Normalise(r).cost <= cfg.totalCost
    BY DEF CostReserveHonoured, CostInv
  <2>1. Normalise(r).cost \in Int BY NormaliseFacts DEF NormalRequest
  <2>2. TypeInt /\ CfgFacts BY DEF IInv
  <2>3. QED BY <2>1, <2>2 DEF CostsExact, TypeInt, CfgFacts
<1>2. QED BY <1>1, CostsInit, CostsNext, Inductive, PTL DEF Spec

=============================================================================
