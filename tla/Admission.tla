----------------------------- MODULE Admission ------------------------------
(***************************************************************************)
(* What the GPU scheduler promises its callers about slots, without        *)
(* counters, condition variables or watchers: who holds a lease and who    *)
(* waits for one.  A live caller is let in as long as the machine has a    *)
(* free slot; a batch caller only beside the slots kept for live work; a   *)
(* waiter is let in or gives up; and a lease ends only when its holder     *)
(* gives it back.  GPUScheduler implements it.                             *)
(***************************************************************************)
EXTENDS Integers, FiniteSets

CONSTANT Clients

VARIABLES
  total, reserved,   \* the slots of the machine, and those kept for live work
  batch, live,       \* the holders of a lease
  waiting            \* batch callers that wait for one

vars == <<total, reserved, batch, live, waiting>>

Used == Cardinality(batch \cup live)

Init ==
  /\ total \in Int /\ reserved \in Int
  /\ batch = {} /\ live = {} /\ waiting = {}

GrantLive(p) ==
  /\ p \notin batch \cup live \cup waiting
  /\ Used < total
  /\ live' = live \cup {p}
  /\ UNCHANGED <<total, reserved, batch, waiting>>

GrantBatch(p) ==
  /\ p \notin batch \cup live
  /\ Used < total - reserved
  /\ batch' = batch \cup {p}
  /\ waiting' = waiting \ {p}
  /\ UNCHANGED <<total, reserved, live>>

Wait(p) ==
  /\ p \notin batch \cup live \cup waiting
  /\ waiting' = waiting \cup {p}
  /\ UNCHANGED <<total, reserved, batch, live>>

GiveUp(p) ==
  /\ p \in waiting
  /\ waiting' = waiting \ {p}
  /\ UNCHANGED <<total, reserved, batch, live>>

GiveBack(p) ==
  /\ p \in batch \cup live
  /\ batch' = batch \ {p}
  /\ live' = live \ {p}
  /\ UNCHANGED <<total, reserved, waiting>>

Next ==
  \E p \in Clients :
    GrantLive(p) \/ GrantBatch(p) \/ Wait(p) \/ GiveUp(p) \/ GiveBack(p)

Spec == Init /\ [][Next]_vars
=============================================================================
