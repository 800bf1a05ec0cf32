------------------------------- MODULE Routes -------------------------------
(***************************************************************************)
(* The paid HTTP routes (internal/runtime/http) between their callers, the *)
(* payment daemon (internal/providers/paymentclient) and the runners.      *)
(*                                                                         *)
(* A submission is checked, opens the payment session of its work id,      *)
(* hands the payment in and only then reaches its runner; a top-up looks   *)
(* the session up and pays.  Requests interleave between these steps and   *)
(* those of Accept, live sessions end by themselves, and the process may   *)
(* restart.  Two broadcasters on one stream, and Stop's steps outside the  *)
(* lock, are LiveTable's matter.                                           *)
(***************************************************************************)
EXTENDS Integers, FiniteSets

CONSTANTS
  Requests,      \* HTTP requests
  MayUse,        \* the routes each request may be for
  Names,         \* job, stream and gateway session ids, and chosen work ids
  Tickets,       \* payments; a ticket also stands for its hash, a work id
  SenderOf,      \* who signed each ticket
  Modes,         \* "paid" or "dev"; run wires a broker in both
  Runners,       \* the sets of runners that may be wired
  MaxRestarts,   \* bound: restarts of the process
  None

Starts == {"vod", "abr", "stream", "session"}
Topups == {"streamTopup", "topup"}
Looking == {"topup", "end"}
Reads == {"params", "status", "streamStatus"}
AllRoutes == Starts \cup Topups \cup Reads \cup {"end", "stop"}

ASSUME RoutesAssumption ==
  /\ MayUse \in [Requests -> SUBSET AllRoutes]
  /\ Modes \subseteq {"paid", "dev"}
  /\ Runners \subseteq SUBSET {"vod", "abr", "live"}
  /\ Names \cap Tickets = {} /\ None \notin Names \cup Tickets
  /\ None \notin {"pending", "running", "leaving"}
  /\ MaxRestarts \in Nat

VARIABLES
  mode, wired,  \* how the server was built
  req,          \* each request: its contents and the place of its handler
  pay,          \* the daemon's payment sessions
  table,        \* Runner.streams: the state of each entry,
  entry,        \* and the payment session it is charged to
  accept,       \* the connection of each name that is inside Accept
  record,       \* stream records in the store
  registry,     \* Server.liveSessions
  accepted,     \* ghost: work handed to a runner, for good
  stale,        \* ghost: names whose registry entry or record may be of
                \* another session than the runner's
  restarts      \* counter for the bound

vars == <<mode, wired, req, pay, table, entry, accept, record, registry,
          accepted, stale, restarts>>
streams == <<table, entry, accept>>
live == <<streams, record, registry, stale>>
built == <<mode, wired, restarts>>

------------------------------------------------------------------------------
WorkIDs == Names \cup Tickets
Senders == {SenderOf[t] : t \in Tickets}

(* A payment session of the daemon: the sender the first payment sealed,   *)
(* and the credits.                                                        *)
Session == [state : {"none", "pending", "open", "closed"},
            sender : Senders \cup {None},
            credits : SUBSET [by : Requests, sender : Senders]]
NoSession == [state |-> "none", sender |-> None, credits |-> {}]

(* What an entry, a record or the registry knows of a live session. *)
Info == [work : WorkIDs \cup {None}, sender : Senders \cup {None}]
NoInfo == [work |-> None, sender |-> None]

(* A connection inside Accept, with what it found in the table. *)
Acceptance == [at : {"idle", "found", "saved"}, info : Info]
NoConnection == [at |-> "idle", info |-> NoInfo]

Places == {"new", "check", "open", "pay", "submit", "upsert", "info", "ticket",
           "apply", "write", "phase", "stop", "close", "done", "refused",
           "dead"}
Request ==
  [route : AllRoutes \cup {None}, at : Places, name : Names \cup {None},
   work : WorkIDs \cup {None}, ticket : Tickets \cup {None},
   sender : Senders \cup {None}, info : Info,
   starting : BOOLEAN, copy : {"none", "starting", "streaming", "closed"},
   raced : BOOLEAN]

Fresh == [route |-> None, at |-> "new", name |-> None, work |-> None,
          ticket |-> None, sender |-> None, info |-> NoInfo,
          starting |-> FALSE, copy |-> "none", raced |-> FALSE]

Absent == [phase |-> "none", info |-> NoInfo]

Init ==
  /\ mode \in Modes /\ wired \in Runners
  /\ req = [q \in Requests |-> Fresh]
  /\ pay = [w \in WorkIDs |-> NoSession]
  /\ table = [n \in Names |-> None]
  /\ entry = [n \in Names |-> NoInfo]
  /\ accept = [n \in Names |-> NoConnection]
  /\ record = [n \in Names |-> Absent]
  /\ registry = [n \in Names |-> NoInfo]
  /\ accepted = {} /\ stale = {} /\ restarts = 0

------------------------------------------------------------------------------
Goto(q, place) == req' = [req EXCEPT ![q].at = place]
(* An answer, by which the request's contents are forgotten: an error,     *)
(* whatever its code, or that of a route that submits nothing.             *)
Answer(q, place) ==
  req' = [req EXCEPT ![q] = [Fresh EXCEPT !.route = req[q].route, !.at = place]]
Refuse(q) == Answer(q, "refused")
Answered(q) == Answer(q, "done")
(* The handler is gone; what its runner was given stays known. *)
Died(q) == IF q \in accepted THEN [req[q] EXCEPT !.at = "dead"]
           ELSE [Fresh EXCEPT !.at = "dead"]
(* The top-ups on n that are between a look at the session and its use see *)
(* it change under them.                                                   *)
Midway == {"info", "ticket", "pay", "apply", "write"}
Race(r, n) ==
  [q \in Requests |-> IF r[q].route = "topup" /\ r[q].at \in Midway /\ r[q].name = n
                      THEN [r[q] EXCEPT !.raced = TRUE] ELSE r[q]]

(* firstNonEmpty(WorkID, JobID) and the like: a work id of the caller's    *)
(* choice; a gateway session is paid under the hash of its first ticket.   *)
WorkOf(route, n, t) == IF route = "session" THEN {t} ELSE
                       IF route \in {"vod", "abr"} THEN Names ELSE {n}

(* A request comes in.  In dev mode it need not carry a ticket. *)
Arrive(q) ==
  /\ req[q].at = "new"
  /\ \E route \in MayUse[q], n \in Names :
     \E t \in IF mode = "paid" /\ route \notin Reads THEN Tickets ELSE {None} :
     \E w \in WorkOf(route, n, t) :
       req' = [req EXCEPT ![q] = [Fresh EXCEPT
         !.route = route, !.at = "check", !.name = n, !.ticket = t,
         !.work = w]]
  /\ UNCHANGED <<built, pay, live, accepted>>

(* The starts of live sessions look for the runner before the payment. *)
RunnerFirst(route) == route \in {"stream", "session"}

(* Everything a handler looks at before it touches shared state: the body, *)
(* the runner, the broker and the ticket's encoding.                       *)
Check(q) ==
  LET route == req[q].route IN
  /\ req[q].at = "check" /\ route \notin Looking \cup Reads
  /\ \/ Refuse(q)  \* the body, the ticket or, for some, the runner
     \/ /\ RunnerFirst(route) => "live" \in wired
        /\ Goto(q, CASE route \in Starts -> "open"
                     [] route = "stop" -> "stop"
                     [] OTHER ->  \* streamTopup
                          IF mode = "paid" THEN "pay" ELSE "apply")
  /\ UNCHANGED <<built, pay, live, accepted>>

(* OpenSession: a session that is already open stays as it was bound, and  *)
(* the client drops the outcome that says so.                              *)
OpenSession(w) ==
  /\ pay[w].state # "closed"
  /\ pay' = IF pay[w].state = "none"
            THEN [pay EXCEPT ![w].state = "pending"] ELSE pay

(* openSessionForRequest: nothing without a broker; the offering may not   *)
(* resolve, and the daemon may refuse or not answer.                       *)
Open(q) ==
  /\ req[q].at = "open"
  /\ \/ mode # "paid" /\ Goto(q, "submit") /\ UNCHANGED pay
     \/ mode = "paid" /\ Refuse(q) /\ UNCHANGED pay
     \/ mode = "paid" /\ OpenSession(req[q].work) /\ Goto(q, "pay")
  /\ UNCHANGED <<built, live, accepted>>

(* Where a payment goes: a gateway top-up pays for the session it looked   *)
(* up, every other request for the work id it named.                       *)
PaysFor(q) == IF req[q].route = "topup" THEN req[q].info.work ELSE req[q].work

Credited(q) ==
  LET w == PaysFor(q)
      s == SenderOf[req[q].ticket]
  IN
  [pay EXCEPT ![w].state = "open",
              ![w].sender = IF pay[w].sender = None THEN s ELSE pay[w].sender,
              ![w].credits = pay[w].credits \cup {[by |-> q, sender |-> s]}]

(* Mutant of Pay: an answer that did not come is taken for a receipt. *)
PayTrusting(q) ==
  /\ req[q].at = "pay"
  /\ req' = [req EXCEPT
       ![q].at = IF req[q].route \in Starts THEN "submit" ELSE "apply",
       ![q].sender = SenderOf[req[q].ticket]]
  /\ pay' = Credited(q) \/ UNCHANGED pay
  /\ UNCHANGED <<built, live, accepted>>

(* Mutant of Pay: the sender of a top-up is not compared. *)
PayAnySender(q) ==
  /\ req[q].at = "pay"
  /\ \/ Refuse(q) /\ UNCHANGED pay
     \/ /\ pay[PaysFor(q)].state \in {"pending", "open"}
        /\ pay' = Credited(q)
        /\ req' = [req EXCEPT
             ![q].at = IF req[q].route \in Starts THEN "submit" ELSE "apply",
             ![q].sender = SenderOf[req[q].ticket]]
  /\ UNCHANGED <<built, live, accepted>>

(* ProcessPayment, then the comparison of a gateway top-up's sender with   *)
(* the session's.  The daemon may refuse, and its answer may be lost after *)
(* it credited the payment.                                                *)
Pay(q) ==
  LET w == PaysFor(q)
      s == SenderOf[req[q].ticket]
      mismatch == /\ req[q].route = "topup"
                  /\ req[q].info.sender \notin {None, s}
  IN
  /\ req[q].at = "pay"
  /\ \/ Refuse(q) /\ UNCHANGED pay
     \/ /\ w \in WorkIDs /\ pay[w].state \in {"pending", "open"}
        /\ pay' = Credited(q)
        /\ \/ Refuse(q)  \* the answer is lost, or a mismatch
           \/ /\ ~mismatch
              /\ req' = [req EXCEPT
                   ![q].at = IF req[q].route \in Starts THEN "submit"
                                                        ELSE "apply",
                   ![q].sender = s]
  /\ UNCHANGED <<built, live, accepted>>

------------------------------------------------------------------------------
(* The runners. *)

(* Runner.mu, which Topup holds from its read to its write. *)
Unlocked == \A q \in Requests : req[q].at # "write"

Accepted(q) == accepted' = accepted \cup {q}

(* A job's Submit: no runner, a preset the runner does not know, a store   *)
(* that fails, or the job.                                                 *)
Submitted(q, runner) ==
  /\ req[q].at = "submit" /\ req[q].route = runner
  /\ \/ runner \notin wired /\ Refuse(q) /\ UNCHANGED accepted
     \/ /\ runner \in wired
        /\ \/ Refuse(q) /\ UNCHANGED accepted
           \/ Goto(q, "done") /\ Accepted(q)
  /\ UNCHANGED <<built, pay, live>>

SubmitVOD(q) == Submitted(q, "vod")
SubmitABR(q) == Submitted(q, "abr")

InfoOf(q) == [work |-> req[q].work, sender |-> req[q].sender]

(* Runner.Start: refused if the stream has an entry or the store fails.    *)
(* /stream/start does not tell the registry.                               *)
SubmitStream(q) ==
  LET n == req[q].name IN
  /\ req[q].at = "submit" /\ req[q].route \in {"stream", "session"}
  /\ \/ /\ Refuse(q)
        /\ UNCHANGED <<table, entry, record, stale, accepted>>
     \/ /\ "live" \in wired /\ table[n] = None /\ Unlocked
        /\ table' = [table EXCEPT ![n] = "pending"]
        /\ entry' = [entry EXCEPT ![n] = InfoOf(q)]
        /\ record' = [record EXCEPT ![n] = [phase |-> "starting",
                                            info |-> InfoOf(q)]]
        /\ stale' = IF registry[n] \in {NoInfo, InfoOf(q)} THEN stale \ {n}
                                                           ELSE stale \cup {n}
        /\ req' = Race([req EXCEPT
             ![q].at = IF req[q].route = "session" THEN "upsert" ELSE "done"], n)
        /\ Accepted(q)
  /\ UNCHANGED <<built, pay, accept, registry>>

Upsert(q) ==
  LET n == req[q].name IN
  /\ req[q].at = "upsert"
  /\ registry' = [registry EXCEPT ![n] = InfoOf(q)]
  /\ stale' = IF /\ record[n].info = InfoOf(q)
                 /\ entry[n] \in {NoInfo, InfoOf(q)}
              THEN stale \ {n} ELSE stale \cup {n}
  /\ Goto(q, "done")
  /\ UNCHANGED <<built, pay, streams, record, accepted>>

------------------------------------------------------------------------------
(* The session routes that look a session up. *)

(* activeSessionInfoForGatewaySession: the record, *)
LookupRecord(q) ==
  LET n == req[q].name
      phase == record[n].phase
  IN
  /\ req[q].at = "check" /\ req[q].route \in Looking
  /\ \/ Refuse(q) /\ UNCHANGED registry  \* the body, or no record
     \/ /\ phase = "closed" /\ Refuse(q)
        /\ registry' = [registry EXCEPT ![n] = NoInfo]
     \/ phase \in {"starting", "streaming"} /\ Goto(q, "info")
        /\ UNCHANGED registry
  /\ UNCHANGED <<built, pay, streams, record, stale, accepted>>

(* then what the registry has, or else what the record (read again) says:  *)
(* a record without a payment work id stands for the stream's own id.      *)
LookupInfo(q) ==
  LET n == req[q].name
      stored == record[n].info
      info == IF registry[n] # NoInfo THEN registry[n]
              ELSE [stored EXCEPT !.work = IF @ = None THEN n ELSE @]
  IN
  /\ req[q].at = "info"
  /\ req' = [req EXCEPT
       ![q].info = info,
       ![q].raced = /\ req[q].route = "topup"
                    /\ @ \/ n \in stale,
       ![q].at = IF req[q].route = "end" THEN "phase" ELSE "ticket"]
  /\ UNCHANGED <<built, pay, live, accepted>>

(* The rest of a top-up's checks. *)
TopupTicket(q) ==
  /\ req[q].at = "ticket"
  /\ \/ mode = "paid" /\ Refuse(q)
     \/ Goto(q, IF mode = "paid" THEN "pay" ELSE "apply")
  /\ UNCHANGED <<built, pay, live, accepted>>

(* Runner.Topup, under Runner.mu: nothing without an entry; otherwise the  *)
(* record is read, *)
TopupRead(q) ==
  LET n == req[q].name IN
  /\ req[q].at = "apply" /\ "live" \in wired /\ Unlocked
  /\ req' = [req EXCEPT ![q].at = IF table[n] = None THEN "done" ELSE "write",
                        ![q].copy = record[n].phase]
  /\ UNCHANGED <<built, pay, live, accepted>>

(* and written back with the time of the top-up, over what the session's   *)
(* goroutine, which does not take the lock, may have saved in between.     *)
TopupWrite(q) ==
  LET n == req[q].name IN
  /\ req[q].at = "write"
  /\ record' = [record EXCEPT ![n].phase = req[q].copy]
  /\ Answered(q)
  /\ UNCHANGED <<built, pay, streams, registry, stale, accepted>>

(* No handler but the two starts looks for the live runner: without one    *)
(* the call panics, which only the request's connection notices.           *)
NoLiveRunner(q) ==
  /\ req[q].at \in {"apply", "stop"} /\ "live" \notin wired
  /\ req' = [req EXCEPT ![q] = Died(q)]
  /\ UNCHANGED <<built, pay, live, accepted>>

(* handleSessionEnd reads the record once more, for its phase. *)
EndPhase(q) ==
  /\ req[q].at = "phase"
  /\ req' = [req EXCEPT ![q].at = "stop",
                        ![q].starting = record[req[q].name].phase = "starting"]
  /\ UNCHANGED <<built, pay, live, accepted>>

Close(w) == [pay EXCEPT ![w].state = IF @ = "none" THEN @ ELSE "closed"]

(* A session's goroutine ends: it closes the payment session if there is   *)
(* one, which may fail and is then only logged, saves the terminal phase   *)
(* and gives up its entry.                                                 *)
Closing(n) ==
  pay' \in {pay} \cup IF entry[n].sender = None THEN {}
                      ELSE {Close(entry[n].work)}

Forget(n) ==
  /\ table' = [table EXCEPT ![n] = None]
  /\ entry' = [entry EXCEPT ![n] = NoInfo]

(* Stop, by the end route and by /stream/stop: a pending entry is removed  *)
(* and the record it holds saved as closed, a running session is cancelled *)
(* and waited for.                                                         *)
Stop(q) ==
  LET n == req[q].name
      next == [req EXCEPT
                 ![q].at = IF req[q].route = "end" THEN "close" ELSE "done"]
  IN
  /\ req[q].at = "stop" /\ Unlocked /\ "live" \in wired
  /\ record' = [record EXCEPT ![n] =
       CASE table[n] = "pending" -> [phase |-> "closed", info |-> entry[n]]
         [] table[n] = "running" -> [@ EXCEPT !.phase = "closed"]
         [] OTHER -> @]
  /\ IF table[n] = "running" THEN Closing(n) ELSE UNCHANGED pay
  /\ Forget(n)
  /\ req' = IF table[n] = None THEN next ELSE Race(next, n)
  /\ UNCHANGED <<built, accept, registry, stale, accepted>>

(* The end route closes the payment session if no connection had come when *)
(* it read the phase; an error keeps the registry's entry.                 *)
EndClose(q) ==
  LET n == req[q].name
      closes == mode = "paid" /\ req[q].starting
  IN
  /\ req[q].at = "close"
  /\ \/ /\ closes /\ Refuse(q)
        /\ UNCHANGED <<pay, registry>>
     \/ /\ pay' = IF closes THEN Close(req[q].info.work) ELSE pay
        /\ registry' = [registry EXCEPT ![n] = NoInfo]
        /\ Answered(q)
  /\ UNCHANGED <<built, streams, record, stale, accepted>>

------------------------------------------------------------------------------
(* The routes that only read.  /v1/payment/ticket-params asks the daemon   *)
(* for the parameters of a ticket.                                         *)

TicketParamsRequest ==
  [sender : {"address", "other"}, recipient : {"address", "other"},
   faceValue : {-1, 0, 1}, capability : {"empty", "named"},
   offering : {"empty", "named"}]

(* 0x and 40 hex digits. *)
parseHexAddress(text) == text = "address"
parseTicketParamsRequest(in) ==
  /\ parseHexAddress(in.sender) /\ parseHexAddress(in.recipient)
  /\ in.faceValue > 0 /\ in.capability # "empty" /\ in.offering # "empty"

(* The token may be asked for. *)
requireBearerAuth(token, header) == token = "none" \/ header = token

GetTicketParams == {"OK", "InvalidArgument", "Unavailable", "DeadlineExceeded",
                    "Internal"}
writeTicketParamsProxyError(code) ==
  CASE code = "InvalidArgument" -> "bad_request"
    [] code \in {"Unavailable", "DeadlineExceeded"} -> "unavailable"
    [] OTHER -> "internal"

(* What the handler answers.  It looks for a nil client, but run hands it  *)
(* an interface that holds one, so that without a payment daemon the call  *)
(* itself panics.                                                          *)
handleTicketParams(token, header, client, in, code) ==
  CASE ~requireBearerAuth(token, header) -> "unauthorized"
    [] ~parseTicketParamsRequest(in) -> "bad_request"
    [] ~client -> "panic"
    [] code # "OK" -> writeTicketParamsProxyError(code)
    [] OTHER -> "ok"

TicketParamsAnswers ==
  [client \in BOOLEAN |->
     {handleTicketParams(token, header, client, in, code) :
        token \in {"none", "secret"}, header \in {"none", "secret"},
        in \in TicketParamsRequest, code \in GetTicketParams}]

TicketParams(q) ==
  /\ req[q].at = "check" /\ req[q].route = "params"
  /\ \E client \in BOOLEAN :
     \E answer \in TicketParamsAnswers[client] :
       /\ client => mode = "paid"
       /\ CASE answer = "ok" -> Answered(q)
            [] answer = "panic" -> req' = [req EXCEPT ![q] = Died(q)]
            [] OTHER -> Refuse(q)
  /\ UNCHANGED <<built, pay, live, accepted>>

(* The status routes read the record of a job or of a stream. *)
Found(q, known) ==
  /\ \/ Refuse(q)
     \/ known /\ Answered(q)
  /\ UNCHANGED <<built, pay, live, accepted>>

JobStatus(q) ==
  /\ req[q].at = "check" /\ req[q].route = "status"
  /\ Found(q, \E p \in accepted : /\ req[p].route \in {"vod", "abr"}
                                  /\ req[p].name = req[q].name)

StreamStatus(q) ==
  /\ req[q].at = "check" /\ req[q].route = "streamStatus"
  /\ Found(q, record[req[q].name].phase # "none")

------------------------------------------------------------------------------
(* The live runner and the process. *)

(* Accept finds the entry that waits for a connection, or none. *)
AcceptFind(n) ==
  /\ "live" \in wired /\ Unlocked
  /\ accept[n].at = "idle" /\ table[n] \in {None, "pending"}
  /\ accept' = [accept EXCEPT ![n] = [at |-> "found", info |-> entry[n]]]
  /\ UNCHANGED <<built, req, pay, table, entry, record, registry, stale,
                 accepted>>

(* It saves a new record, whatever was there.  The ghost notes when that   *)
(* was another session's: one was started since the entry was looked for.  *)
AcceptSave(n) ==
  LET info == accept[n].info IN
  /\ accept[n].at = "found"
  /\ record' = [record EXCEPT ![n] = [phase |-> "streaming", info |-> info]]
  /\ stale' = IF record[n].info # info THEN stale \cup {n} ELSE stale
  /\ accept' = [accept EXCEPT ![n].at = "saved"]
  /\ UNCHANGED <<built, req, pay, table, entry, registry, accepted>>

(* The scheduler refuses it: the record stays as it was saved. *)
AcceptRefused(n) ==
  /\ accept[n].at = "saved"
  /\ accept' = [accept EXCEPT ![n] = NoConnection]
  /\ UNCHANGED <<built, req, pay, table, entry, record, registry, stale,
                 accepted>>

(* The lease is granted, and the entry put into the table, over any other. *)
AcceptRegister(n) ==
  LET info == accept[n].info IN
  /\ accept[n].at = "saved" /\ Unlocked
  /\ accept' = [accept EXCEPT ![n] = NoConnection]
  /\ table' = [table EXCEPT ![n] = "running"]
  /\ entry' = [entry EXCEPT ![n] = info]
  /\ stale' = IF record[n].info # info THEN stale \cup {n} ELSE stale
  /\ req' = IF entry[n] = info THEN req ELSE Race(req, n)
  /\ UNCHANGED <<built, pay, record, registry, accepted>>

(* The session's own end: the payment session is closed and the record     *)
(* saved without Runner.mu. *)
SessionPersists(n) ==
  /\ table[n] = "running"
  /\ Closing(n)
  /\ record' = [record EXCEPT ![n].phase = "closed"]
  /\ table' = [table EXCEPT ![n] = "leaving"]
  /\ req' = Race(req, n)
  /\ UNCHANGED <<built, entry, accept, registry, stale, accepted>>

SessionLeaves(n) ==
  /\ table[n] = "leaving" /\ Unlocked
  /\ Forget(n)
  /\ UNCHANGED <<built, req, pay, accept, record, registry, stale, accepted>>

(* The process is killed and started again: the records and the daemon's   *)
(* sessions are all that is left.                                          *)
Restart ==
  /\ restarts < MaxRestarts
  /\ restarts' = restarts + 1
  /\ req' = [q \in Requests |->
       IF req[q].at \in {"new", "done", "refused"} THEN req[q] ELSE Died(q)]
  /\ table' = [n \in Names |-> None]
  /\ entry' = [n \in Names |-> NoInfo]
  /\ accept' = [n \in Names |-> NoConnection]
  /\ registry' = [n \in Names |-> NoInfo]
  /\ UNCHANGED <<mode, wired, pay, record, stale, accepted>>

RequestStep(q) ==
  \/ Check(q) \/ Open(q) \/ Pay(q) \/ SubmitVOD(q) \/ SubmitABR(q)
  \/ SubmitStream(q)
  \/ Upsert(q) \/ LookupRecord(q) \/ LookupInfo(q) \/ TopupTicket(q)
  \/ TopupRead(q) \/ TopupWrite(q) \/ NoLiveRunner(q) \/ EndPhase(q)
  \/ Stop(q) \/ EndClose(q) \/ TicketParams(q) \/ JobStatus(q)
  \/ StreamStatus(q)

Next ==
  \/ \E q \in Requests : Arrive(q) \/ RequestStep(q)
  \/ \E n \in Names :
       \/ AcceptFind(n) \/ AcceptSave(n) \/ AcceptRefused(n) \/ AcceptRegister(n)
       \/ SessionPersists(n) \/ SessionLeaves(n)
  \/ Restart

Spec == Init /\ [][Next]_vars

------------------------------------------------------------------------------
(* Properties. *)

(* Every variable has its type. *)
TypeOK ==
  /\ mode \in Modes /\ wired \in Runners
  /\ req \in [Requests -> Request]
  /\ pay \in [WorkIDs -> Session]
  /\ table \in [Names -> {None, "pending", "running", "leaving"}]
  /\ record \in [Names -> [phase : {"none", "starting", "streaming", "closed"},
                           info : Info]]
  /\ registry \in [Names -> Info]
  /\ entry \in [Names -> Info] /\ accept \in [Names -> Acceptance]
  /\ accepted \subseteq Requests /\ stale \subseteq Names
  /\ restarts \in 0..MaxRestarts

(* With a broker, work reaches a runner only after the payment of its own  *)
(* request was credited, by the sender the runner will debit and on the    *)
(* work id it will debit: whatever other requests paid or opened, whatever *)
(* answers were lost.                                                      *)
NoUnpaidWork ==
  mode = "paid" => \A q \in accepted :
    [by |-> q, sender |-> req[q].sender] \in pay[req[q].work].credits

(* A gateway top-up that is about to be noted on a session was credited to *)
(* the payment session the runner charges that session to, by the          *)
(* session's own sender: the registry and the record it falls back to name *)
(* the session in the table.  The exceptions: the session is started,      *)
(* ended or replaced while the top-up is under way (raced); and (stale)    *)
(* the registry's entry was left by an earlier session of that id, which   *)
(* /stream/start does not replace and a late start may bring back, or a    *)
(* connection that had looked for its entry before the session was started *)
(* saved its record, or registered, over it.                               *)
TopupCreditsSession ==
  \A q \in Requests :
    LET owner == entry[req[q].name] IN
    /\ req[q].route = "topup" /\ req[q].at = "write" /\ mode = "paid"
    /\ ~req[q].raced /\ owner.sender # None
    => [by |-> q, sender |-> owner.sender] \in pay[owner.work].credits
=============================================================================
