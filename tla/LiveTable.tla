----------------------------- MODULE LiveTable ------------------------------
(***************************************************************************)
(* The live runner's table of streams (internal/service/liverunner) and    *)
(* the HTTP session routes around it (internal/runtime/http): ingest       *)
(* connections go through Accept and run a session, a gateway opens a paid *)
(* session ahead of its connection (Start), ends it or stops the stream,   *)
(* and the process shuts down.                                             *)
(*                                                                         *)
(* A table entry (streamCtl) is named after what allocated it: the start   *)
(* request of a paid session, or the connection of a legacy one.  Accept   *)
(* fills in the entry it found outside Runner.mu, so Stop may read it half *)
(* way.  What happens inside a session is LiveSession's matter.            *)
(***************************************************************************)
EXTENDS Integers, FiniteSets, Functions

CONSTANTS
  Streams,      \* stream ids
  Conns,        \* ingest connections
  Starts,       \* POST /api/sessions/start requests, each with its payment
  Enders,       \* requests to POST /api/sessions/{id}/end or /stream/stop
  StreamOf,     \* the stream each connection and request is about
  MaxStreams,   \* MaxConcurrentStreams, 0 for no limit
  Slots,        \* live leases the scheduler can grant
  None

ASSUME TableAssumption ==
  /\ IsFiniteSet(Streams) /\ IsFiniteSet(Conns)
  /\ StreamOf \in [Conns \cup Starts \cup Enders -> Streams]
  /\ MaxStreams \in Nat /\ Slots \in Nat
  /\ None \notin Streams \cup Conns \cup Starts
  /\ Conns \cap Starts = {}

VARIABLES
  streams,    \* Runner.streams
  ctl,        \* the table entries: whose cancel, done and lease they hold
  record,     \* stream records in the store
  registry,   \* Server.liveSessions
  conn,       \* each connection: its place in Accept and then in runSession
  cancelled,  \* connections whose session context is done
  leases,     \* connections whose GPU lease is held
  closed,     \* connections whose done channel is closed
  start, ender,
  payment,    \* payment sessions at the daemon, and CloseSession's failures
  shutdown,   \* Shutdown, and the done channels it waits for
  overlap,    \* ghost: streams that two connections used at a time
  stranded    \* ghost: paid sessions another request pulled the ground from

vars == <<streams, ctl, record, registry, conn, cancelled, leases, closed,
          start, ender, payment, shutdown, overlap, stranded>>
ghosts == <<overlap, stranded>>

------------------------------------------------------------------------------
Entries == Conns \cup Starts
ConnPlaces == {"new", "checked", "found", "saved", "leased", "cancel", "set",
               "launched", "running", "close", "persist", "cleanup", "done",
               "refused"}
InUse == ConnPlaces \ {"new", "checked", "done", "refused"}
HasLease == InUse \ {"found", "saved"}
HasSession == HasLease \ {"leased", "cancel", "set"}

(* A streamCtl: the connections its cancel and its done belong to, and the *)
(* payment session.  The lease is done's connection's.                     *)
Ctl == [cancel : Conns \cup {None}, done : Conns \cup {None},
        work : Starts \cup {None}]

(* done is the channel the session's deferred close was given. *)
Conn == [at : ConnPlaces, ctl : Entries \cup {None}, done : Conns \cup {None}]

StreamRecord == [phase : {"none", "starting", "streaming", "closed"},
                 work : Starts \cup {None}]

Payment == {"open", "failed", "closed"}

Ender == [at : {"new", "phase", "lock", "cancel", "wait", "waiting", "stopped",
                "done", "refused"},
          ends : BOOLEAN, work : Starts \cup {None}, starting : BOOLEAN,
          ctl : Entries \cup {None}, conn : Conns \cup {None}]

Init ==
  /\ streams = [s \in Streams |-> None]
  /\ ctl = [o \in Entries |-> [cancel |-> None, done |-> None,
                               work |-> IF o \in Starts THEN o ELSE None]]
  /\ record = [s \in Streams |-> [phase |-> "none", work |-> None]]
  /\ registry = [s \in Streams |-> None]
  /\ conn = [c \in Conns |-> [at |-> "new", ctl |-> None, done |-> None]]
  /\ cancelled = {} /\ leases = {} /\ closed = {}
  /\ start = [q \in Starts |-> "new"]
  /\ ender = [e \in Enders |-> [at |-> "new", ends |-> FALSE, work |-> None,
                                starting |-> FALSE, ctl |-> None,
                                conn |-> None]]
  /\ payment = [q \in Starts |-> "open"]
  /\ shutdown = [at |-> "no", waits |-> {}]
  /\ overlap = {} /\ stranded = {}

------------------------------------------------------------------------------
(* Accept. *)

Go(c, place) == conn' = [conn EXCEPT ![c].at = place]

(* The stream limit, the only look at it. *)
AcceptCheck(c) ==
  /\ conn[c].at = "new"
  /\ Go(c, IF /\ MaxStreams > 0
              /\ Cardinality({s \in Streams : streams[s] # None}) >= MaxStreams
           THEN "refused" ELSE "checked")
  /\ UNCHANGED <<streams, ctl, record, registry, cancelled, leases, closed,
                 start, ender, payment, shutdown, ghosts>>

(* ValidateKey, then the entry of the stream if there is one.  A stream    *)
(* that is active is no reason for the shell to refuse its key.  The shell *)
(* may also fail, here or in SessionActive.                                *)
AcceptLookup(c) ==
  LET s == StreamOf[c] IN
  /\ conn[c].at = "checked"
  /\ \/ Go(c, "refused") /\ UNCHANGED overlap
     \/ /\ conn' = [conn EXCEPT
             ![c].at = "found",
             ![c].ctl = IF streams[s] = None THEN c ELSE streams[s]]
        /\ overlap' = IF \E d \in Conns : StreamOf[d] = s /\ conn[d].at \in InUse
                      THEN overlap \cup {s} ELSE overlap
  /\ UNCHANGED <<streams, ctl, record, registry, cancelled, leases, closed,
                 start, ender, payment, shutdown, stranded>>

(* SaveStream: a fresh record, whatever was there. *)
AcceptSave(c) ==
  LET s == StreamOf[c]
      work == ctl[conn[c].ctl].work
  IN
  /\ conn[c].at = "found"
  /\ record' = [record EXCEPT ![s] = [phase |-> "streaming", work |-> work]]
  /\ stranded' = stranded \cup ({record[s].work} \ {work, None})
  /\ Go(c, "saved")
  /\ UNCHANGED <<streams, ctl, registry, cancelled, leases, closed, start,
                 ender, payment, shutdown, overlap>>

(* The scheduler may also refuse because of batch work.  The entry, if the *)
(* session was paid for, stays in the table and its record streaming.      *)
AcceptAcquire(c) ==
  /\ conn[c].at = "saved"
  /\ \/ /\ Cardinality(leases) < Slots
        /\ leases' = leases \cup {c}
        /\ Go(c, "leased")
        /\ UNCHANGED stranded
     \/ /\ Go(c, "refused")
        /\ stranded' = stranded \cup ({ctl[conn[c].ctl].work} \ {None})
        /\ UNCHANGED leases
  /\ UNCHANGED <<streams, ctl, record, registry, cancelled, closed, start,
                 ender, payment, shutdown, overlap>>

(* The entry's fields are assigned one after the other, without the lock:  *)
(* cancel, and later done and the lease.                                   *)
AcceptSetCancel(c) ==
  /\ conn[c].at = "leased"
  /\ ctl' = [ctl EXCEPT ![conn[c].ctl].cancel = c]
  /\ Go(c, "cancel")
  /\ UNCHANGED <<streams, record, registry, cancelled, leases, closed, start,
                 ender, payment, shutdown, ghosts>>

AcceptSetDone(c) ==
  /\ conn[c].at = "cancel"
  /\ ctl' = [ctl EXCEPT ![conn[c].ctl].done = c]
  /\ Go(c, "set")
  /\ UNCHANGED <<streams, record, registry, cancelled, leases, closed, start,
                 ender, payment, shutdown, ghosts>>

AcceptRegister(c) ==
  LET s == StreamOf[c] IN
  /\ conn[c].at = "set"
  /\ streams' = [streams EXCEPT ![s] = conn[c].ctl]
  /\ stranded' = stranded \cup (({streams[s]} \ {conn[c].ctl}) \cap Starts)
  /\ Go(c, "launched")
  /\ UNCHANGED <<ctl, record, registry, cancelled, leases, closed, start,
                 ender, payment, shutdown, overlap>>

------------------------------------------------------------------------------
(* runSession, and the end of its connection. *)

(* The goroutine starts: its deferred close takes the entry's done. *)
SessionStart(c) ==
  /\ conn[c].at = "launched"
  /\ conn' = [conn EXCEPT ![c].at = "running",
                          ![c].done = ctl[conn[c].ctl].done]
  /\ UNCHANGED <<streams, ctl, record, registry, cancelled, leases, closed,
                 start, ender, payment, shutdown, ghosts>>

(* The loop ends: the context is done, or the session decides so itself. *)
SessionEnds(c) ==
  /\ conn[c].at = "running"
  /\ Go(c, "close")
  /\ UNCHANGED <<streams, ctl, record, registry, cancelled, leases, closed,
                 start, ender, payment, shutdown, ghosts>>

(* CloseSession at the payment daemon.  A call that fails has left the     *)
(* session open there as far as the worker knows, and is not repeated; a   *)
(* session that is closed stays closed.  None names no payment session.    *)
CloseSucceeds(work) ==
  payment' = [q \in Starts |-> IF q = work THEN "closed" ELSE payment[q]]

CloseFails(work) ==
  payment' = [q \in Starts |-> IF q = work /\ payment[q] = "open"
                               THEN "failed" ELSE payment[q]]

(* The session of a paid connection closes it; an error is only logged.    *)
SessionClose(c) ==
  LET work == ctl[conn[c].ctl].work IN
  /\ conn[c].at = "close"
  /\ CloseSucceeds(work) \/ CloseFails(work)
  /\ Go(c, "persist")
  /\ UNCHANGED <<streams, ctl, record, registry, cancelled, leases, closed,
                 start, ender, shutdown, ghosts>>

SessionPersist(c) ==
  /\ conn[c].at = "persist"
  /\ record' = [record EXCEPT ![StreamOf[c]].phase = "closed"]
  /\ Go(c, "cleanup")
  /\ UNCHANGED <<streams, ctl, registry, cancelled, leases, closed, start,
                 ender, payment, shutdown, ghosts>>

(* Mutant of SessionCleanup: the lease is left to the scheduler. *)
SessionCleanupKeepsLease(c) ==
  /\ conn[c].at = "cleanup"
  /\ streams' = [streams EXCEPT ![StreamOf[c]] = None]
  /\ closed' = closed \cup {conn[c].done}
  /\ Go(c, "done")
  /\ UNCHANGED <<ctl, record, registry, cancelled, leases, start, ender, payment,
                 shutdown, ghosts>>

(* The deferred functions: the lease the entry holds now is released, the  *)
(* stream's entry removed and done closed.  After an overlap done may be   *)
(* closed already: the process panics, which the model does not go into.   *)
SessionCleanup(c) ==
  /\ conn[c].at = "cleanup"
  /\ leases' = leases \ {ctl[conn[c].ctl].done}
  /\ streams' = [streams EXCEPT ![StreamOf[c]] = None]
  /\ closed' = closed \cup {conn[c].done}
  /\ Go(c, "done")
  /\ UNCHANGED <<ctl, record, registry, cancelled, start, ender, payment,
                 shutdown, ghosts>>

(* OnEnd: the connection is gone. *)
OnEnd(c) ==
  /\ conn[c].at \in HasSession /\ c \notin cancelled
  /\ cancelled' = cancelled \cup {c}
  /\ UNCHANGED <<streams, ctl, record, registry, conn, leases, closed, start,
                 ender, payment, shutdown, ghosts>>

------------------------------------------------------------------------------
(* POST /api/sessions/start *)

(* OpenSession and ProcessPayment; the payment may be refused. *)
StartPay(q) ==
  /\ start[q] = "new"
  /\ \E answer \in {"paid", "refused"} : start' = [start EXCEPT ![q] = answer]
  /\ UNCHANGED <<streams, ctl, record, registry, conn, cancelled, leases,
                 closed, ender, payment, shutdown, ghosts>>

(* Runner.Start, refused if the stream has an entry or the store fails.    *)
(* The payment that was taken stays.                                       *)
StartRegister(q) ==
  LET s == StreamOf[q] IN
  /\ start[q] = "paid"
  /\ \/ /\ start' = [start EXCEPT ![q] = "refused"]
        /\ UNCHANGED <<streams, record>>
     \/ /\ streams[s] = None
        /\ record' = [record EXCEPT ![s] = [phase |-> "starting", work |-> q]]
        /\ streams' = [streams EXCEPT ![s] = q]
        /\ start' = [start EXCEPT ![q] = "registered"]
  /\ UNCHANGED <<ctl, registry, conn, cancelled, leases, closed, ender, payment,
                 shutdown, ghosts>>

StartUpsert(q) ==
  /\ start[q] = "registered"
  /\ registry' = [registry EXCEPT ![StreamOf[q]] = q]
  /\ start' = [start EXCEPT ![q] = "done"]
  /\ UNCHANGED <<streams, ctl, record, conn, cancelled, leases, closed, ender,
                 payment, shutdown, ghosts>>

------------------------------------------------------------------------------
(* POST /api/sessions/{id}/end and POST /stream/stop *)

(* activeSessionInfoForGatewaySession, in the end route; /stream/stop      *)
(* looks nothing up.                                                       *)
EndLookup(e) ==
  LET s == StreamOf[e]
      active == record[s].phase \in {"starting", "streaming"}
  IN
  /\ ender[e].at = "new"
  /\ registry' = IF record[s].phase = "closed"
                 THEN [registry EXCEPT ![s] = None] ELSE registry
  /\ ender' = [ender EXCEPT
       ![e].at = IF active THEN "phase" ELSE "refused",
       ![e].ends = TRUE,
       ![e].work = IF registry[s] # None THEN registry[s] ELSE record[s].work]
  /\ UNCHANGED <<streams, ctl, record, conn, cancelled, leases, closed, start,
                 payment, shutdown, ghosts>>

(* The record is read again, for the phase the handler goes by later. *)
EndPhase(e) ==
  /\ ender[e].at = "phase"
  /\ ender' = [ender EXCEPT
       ![e].at = "lock",
       ![e].starting = record[StreamOf[e]].phase = "starting"]
  /\ UNCHANGED <<streams, ctl, record, registry, conn, cancelled, leases,
                 closed, start, payment, shutdown, ghosts>>

(* Mutant of StopLock: running sessions are removed inline too. *)
StopLockRemovesAll(e) ==
  LET s == StreamOf[e] IN
  /\ ender[e].at \in {"new", "lock"}
  /\ streams' = [streams EXCEPT ![s] = None]
  /\ ender' = [ender EXCEPT
       ![e].at = IF streams[s] = None THEN "stopped" ELSE "cancel",
       ![e].ctl = streams[s]]
  /\ UNCHANGED <<ctl, record, registry, conn, cancelled, leases, closed, start,
                 payment, shutdown, ghosts>>

(* Stop, under Runner.mu: an entry no connection has come for is removed.  *)
StopLock(e) ==
  LET s == StreamOf[e]
      o == streams[s]
  IN
  /\ ender[e].at \in {"new", "lock"}
  /\ ender' = [ender EXCEPT ![e].at = IF o = None THEN "stopped" ELSE "cancel",
                            ![e].ctl = o]
  /\ IF o # None /\ ctl[o].done = None
     THEN /\ record' = [record EXCEPT ![s] = [phase |-> "closed",
                                              work |-> ctl[o].work]]
          /\ streams' = [streams EXCEPT ![s] = None]
          /\ stranded' = IF ender[e].work = ctl[o].work THEN stranded
                                              ELSE stranded \cup {ctl[o].work}
     ELSE UNCHANGED <<record, streams, stranded>>
  /\ UNCHANGED <<ctl, registry, conn, cancelled, leases, closed, start, payment,
                 shutdown, overlap>>

(* The rest of Stop runs without the lock: ctl.cancel(), then a look at    *)
(* ctl.done, then the wait for it.                                         *)
StopCancel(e) ==
  /\ ender[e].at = "cancel"
  /\ cancelled' = cancelled \cup ({ctl[ender[e].ctl].cancel} \ {None})
  /\ ender' = [ender EXCEPT ![e].at = "wait"]
  /\ UNCHANGED <<streams, ctl, record, registry, conn, leases, closed, start,
                 payment, shutdown, ghosts>>

StopWait(e) ==
  LET c == ctl[ender[e].ctl].done IN
  /\ ender[e].at = "wait"
  /\ ender' = [ender EXCEPT ![e].at = IF c = None THEN "stopped" ELSE "waiting",
                            ![e].conn = c]
  /\ UNCHANGED <<streams, ctl, record, registry, conn, cancelled, leases,
                 closed, start, payment, shutdown, ghosts>>

StopReturns(e) ==
  /\ ender[e].at = "waiting" /\ ender[e].conn \in closed
  /\ ender' = [ender EXCEPT ![e].at = "stopped"]
  /\ UNCHANGED <<streams, ctl, record, registry, conn, cancelled, leases,
                 closed, start, payment, shutdown, ghosts>>

(* Mutant of EndClose: the handler never closes the payment session. *)
EndCloseNever(e) ==
  /\ ender[e].at = "stopped"
  /\ ender' = [ender EXCEPT ![e].at = "done"]
  /\ UNCHANGED <<streams, ctl, record, registry, conn, cancelled, leases,
                 closed, start, payment, shutdown, ghosts>>

(* The handler closes the payment session itself if no connection had come *)
(* when it read the phase; without a payment session it names the stream   *)
(* instead, which closes nothing.  After an error it answers so and keeps  *)
(* the registry's entry.                                                   *)
EndClose(e) ==
  LET work == ender[e].work
      Forget == registry' = [registry EXCEPT ![StreamOf[e]] = None]
  IN
  /\ ender[e].at = "stopped"
  /\ ender' = [ender EXCEPT ![e].at = "done"]
  /\ \/ /\ ~ender[e].starting
        /\ IF ender[e].ends THEN Forget ELSE UNCHANGED registry
        /\ UNCHANGED payment
     \/ ender[e].starting /\ CloseSucceeds(work) /\ Forget
     \/ ender[e].starting /\ CloseFails(work) /\ UNCHANGED registry
  /\ UNCHANGED <<streams, ctl, record, conn, cancelled, leases, closed, start,
                 shutdown, ghosts>>

------------------------------------------------------------------------------
(* Shutdown, under Runner.mu up to the wait.                               *)

Registered == Range(streams) \ {None}

Shutdown ==
  LET pending == {s \in Streams : streams[s] # None /\ ctl[streams[s]].done = None}
  IN
  /\ shutdown.at = "no"
  /\ cancelled' = cancelled \cup ({ctl[o].cancel : o \in Registered} \ {None})
  /\ streams' = [s \in Streams |-> IF s \in pending THEN None ELSE streams[s]]
  /\ shutdown' = [at |-> "waiting",
                  waits |-> {ctl[o].done : o \in Registered} \ {None}]
  /\ stranded' = stranded \cup {streams[s] : s \in pending}
  /\ UNCHANGED <<ctl, record, registry, conn, leases, closed, start, ender,
                 payment, overlap>>

ShutdownReturns ==
  /\ shutdown.at = "waiting" /\ shutdown.waits \subseteq closed
  /\ shutdown' = [shutdown EXCEPT !.at = "done"]
  /\ UNCHANGED <<streams, ctl, record, registry, conn, cancelled, leases,
                 closed, start, ender, payment, ghosts>>

------------------------------------------------------------------------------
(* What a connection does by itself once it has begun. *)
ConnStep(c) ==
  \/ AcceptLookup(c) \/ AcceptSave(c) \/ AcceptAcquire(c) \/ AcceptSetCancel(c)
  \/ AcceptSetDone(c) \/ AcceptRegister(c) \/ SessionStart(c) \/ SessionClose(c)
  \/ SessionPersist(c) \/ SessionCleanup(c)

EnderStep(e) ==
  \/ EndLookup(e) \/ EndPhase(e) \/ StopLock(e) \/ StopCancel(e) \/ StopWait(e)
  \/ StopReturns(e) \/ EndClose(e)

Next ==
  \/ \E c \in Conns : AcceptCheck(c) \/ ConnStep(c) \/ SessionEnds(c) \/ OnEnd(c)
  \/ \E q \in Starts : StartPay(q) \/ StartRegister(q) \/ StartUpsert(q)
  \/ \E e \in Enders : EnderStep(e)
  \/ Shutdown \/ ShutdownReturns

Spec == Init /\ [][Next]_vars

------------------------------------------------------------------------------
(* Properties. *)

(* Every variable has its type. *)
TypeOK ==
  /\ streams \in [Streams -> Entries \cup {None}]
  /\ ctl \in [Entries -> Ctl]
  /\ record \in [Streams -> StreamRecord]
  /\ registry \in [Streams -> Starts \cup {None}]
  /\ conn \in [Conns -> Conn]
  /\ cancelled \subseteq Conns /\ leases \subseteq Conns /\ closed \subseteq Conns
  /\ start \in [Starts -> {"new", "paid", "registered", "done", "refused"}]
  /\ ender \in [Enders -> Ender]
  /\ payment \in [Starts -> Payment]
  /\ shutdown \in [at : {"no", "waiting", "done"}, waits : SUBSET Conns]
  /\ overlap \subseteq Streams /\ stranded \subseteq Starts

(* A connection holds a GPU lease from its admission to the end of its     *)
(* session and no longer, whatever Stop, End, Start and Shutdown do in     *)
(* between, unless two connections used the stream at a time: the second   *)
(* takes over the entry, and the first one's lease is lost with it.        *)
LeasesFollowSessions ==
  \A c \in Conns : StreamOf[c] \notin overlap =>
    (c \in leases <=> conn[c].at \in HasLease)

(* Stop and Shutdown can reach every session: it is in the table, and its  *)
(* entry holds its own cancel and done.  Again unless connections overlap. *)
SessionsReachable ==
  \A c \in Conns : StreamOf[c] \notin overlap /\ conn[c].at \in HasSession =>
    /\ streams[StreamOf[c]] = conn[c].ctl
    /\ ctl[conn[c].ctl].cancel = c
    /\ ctl[conn[c].ctl].done = c

(* Nobody is left to do anything with a paid session. *)
Over(q) ==
  /\ start[q] = "done" /\ q \notin Registered
  /\ \A c \in Conns : conn[c].ctl = q => conn[c].at \notin InUse
  /\ \A e \in Enders : StreamOf[e] = StreamOf[q] =>
       ender[e].at \in {"new", "done", "refused"}

(* The payment session of a paid session that is over is closed at the     *)
(* daemon, unless the call that closes it failed there: its own goroutine  *)
(* or the end route has made that call, however the two and a connection   *)
(* that was just arriving interleaved.  The code never makes it only when  *)
(* two connections overlap or (stranded) when the entry was pending and    *)
(*   - the scheduler refused the connection that came for it;              *)
(*   - /stream/stop, an end request that had read an earlier session's     *)
(*     record, or Shutdown removed it;                                     *)
(*   - a connection that had found no entry overwrote it or its record.    *)
PaymentsClose ==
  \A q \in Starts : Over(q) /\ q \notin stranded /\ StreamOf[q] \notin overlap
    => payment[q] \in {"closed", "failed"}

=============================================================================
