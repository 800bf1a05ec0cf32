---------------------------- MODULE RoutesProofs ----------------------------
(***************************************************************************)
(* What the paid routes guarantee for any number of requests, names and    *)
(* tickets, in any interleaving and over any number of restarts.           *)
(*                                                                         *)
(* The invariant follows a request through its handler.  Shape: the place  *)
(* a handler has reached says which route it serves and what it carries.   *)
(* Billed: from its payment on, a start was credited, which lasts because  *)
(* a payment session only grows (PayGrows).  Found: the session a top-up   *)
(* looked up is the one the runner's entry is charged to, and the top-up   *)
(* was credited there; for that the record must agree with the entry, and  *)
(* the registry with the record (Named), where no other session's start or *)
(* connection came between them (stale).                                   *)
(***************************************************************************)
EXTENDS Routes, TLAPS

Idle == {"new", "done", "refused", "dead"}

Shaped(q) ==
  LET r == req[q] IN
  /\ r.at \notin Idle \/ q \in accepted =>
       /\ r.route \in AllRoutes /\ r.name \in Names
       /\ mode = "paid" /\ r.route \notin Reads =>
            r.ticket \in Tickets /\ r.work \in WorkIDs
  /\ r.at \in {"open", "submit", "upsert"} \/ q \in accepted => r.route \in Starts
  /\ r.at = "pay" => mode = "paid" /\ r.route \in Starts \cup Topups
  /\ r.at = "info" => r.route \in Looking
  /\ r.at = "ticket" => r.route = "topup"
  /\ r.at \in {"apply", "write"} => r.route \in Topups
  /\ r.at \in {"phase", "close"} => r.route = "end"
  /\ r.at = "stop" => r.route \in {"end", "stop"}
  /\ q \in accepted => r.at \in {"upsert", "done", "dead"}
Shape == \A q \in Requests : Shaped(q)

(* What a start was billed, once it was paid for. *)
Credit(q) ==
  [by |-> q, sender |-> req[q].sender] \in pay[req[q].work].credits
BilledTo(q) ==
  mode = "paid" /\ (req[q].at = "submit" \/ q \in accepted) => Credit(q)
Billed == \A q \in Requests : BilledTo(q)

(* What a top-up has found, and what it has paid for. *)
FoundBy(q) ==
  LET r == req[q]
      owner == entry[r.name]
  IN
  r.route = "topup" /\ mode = "paid" =>
    /\ /\ r.at \in {"ticket", "pay", "apply", "write"}
       /\ ~r.raced /\ owner.sender # None
       => r.info = owner
    /\ r.at \in {"apply", "write"} /\ r.info.sender # None =>
         /\ r.info.work \in WorkIDs
         /\ [by |-> q, sender |-> r.info.sender] \in pay[r.info.work].credits
FoundRight == \A q \in Requests : FoundBy(q)

(* The payment sessions an entry, a record and the registry name. *)
Usable(i) == i.sender # None => i.work \in WorkIDs
NamedAs(n) ==
  mode = "paid" =>
    /\ Usable(record[n].info) /\ Usable(entry[n]) /\ Usable(accept[n].info)
    /\ n \notin stale /\ entry[n].sender # None => record[n].info = entry[n]
    /\ n \notin stale /\ record[n].info.sender # None /\ registry[n] # NoInfo =>
         registry[n] = record[n].info
Named == \A n \in Names : NamedAs(n)

IInv == TypeOK /\ Shape /\ Billed /\ FoundRight /\ Named

------------------------------------------------------------------------------
(* What the operators of Routes do to the requests. *)

Others(q) == \A p \in Requests \ {q} : req'[p] = req[p]
SameRequest(p) ==
  /\ req'[p].route = req[p].route /\ req'[p].name = req[p].name
  /\ req'[p].work = req[p].work /\ req'[p].ticket = req[p].ticket
   /\ req'[p].sender = req[p].sender
ReqType == req \in [Requests -> Request]

(* A request's own step leaves the others alone. *)
LEMMA Replaced ==
  ASSUME ReqType, NEW q \in Requests
  PROVE  \A r \in Request : req' = [req EXCEPT ![q] = r] =>
           ReqType' /\ Others(q) /\ req'[q] = r
  BY DEF ReqType, Others

(* Goto moves one handler and changes nothing else of its request. *)
LEMMA GotoFacts ==
  ASSUME ReqType, NEW q \in Requests
  PROVE  \A place \in Places : Goto(q, place) =>
           /\ ReqType' /\ Others(q) /\ SameRequest(q) /\ req'[q].at = place
           /\ req'[q].info = req[q].info /\ req'[q].raced = req[q].raced
  <1> SUFFICES ASSUME NEW place \in Places, Goto(q, place)
               PROVE  /\ ReqType' /\ Others(q) /\ SameRequest(q) /\ req'[q].at = place
                      /\ req'[q].info = req[q].info /\ req'[q].raced = req[q].raced
    OBVIOUS
  <1> DEFINE r == [req[q] EXCEPT !.at = place]
  <1>1. req[q] \in Request
    BY DEF ReqType
  <1>2. r \in Request
    BY <1>1 DEF Request
  <1>3. req' = [req EXCEPT ![q] = r]
    BY DEF Goto
  <1>4. ReqType' /\ Others(q) /\ req'[q] = r
    BY <1>2, <1>3, Replaced
  <1> QED
    BY <1>1, <1>4 DEF Request, SameRequest

(* A request no handler has seen is one, and knows of no session. *)
LEMMA FreshType ==
  Fresh \in Request /\ NoInfo \in Info
  <1>1. NoInfo \in Info
    BY DEF NoInfo, Info
  <1>2. Fresh \in Request
    <2>1. "new" \in Places
      BY DEF Places
    <2> QED
      BY <1>1, <2>1, Zenon DEF Fresh, Request
  <1> QED
    BY <1>1, <1>2

(* An answered request carries nothing on. *)
LEMMA AnswerFacts ==
  ASSUME ReqType, NEW q \in Requests
  PROVE  \A place \in {"refused", "done"} : Answer(q, place) =>
           ReqType' /\ Others(q) /\ req'[q].at = place
             /\ req'[q].route = req[q].route
  <1> SUFFICES ASSUME NEW place \in {"refused", "done"}, Answer(q, place)
               PROVE  ReqType' /\ Others(q) /\ req'[q].at = place
                        /\ req'[q].route = req[q].route
    OBVIOUS
  <1> DEFINE r == [Fresh EXCEPT !.route = req[q].route, !.at = place]
  <1>1. req[q].route \in AllRoutes \cup {None} /\ place \in Places
    BY DEF ReqType, Request, Places
  <1>2. r \in Request /\ r.at = place /\ r.route = req[q].route
    BY ZenonT(60), <1>1, FreshType DEF Request
  <1>3. req' = [req EXCEPT ![q] = r]
    BY DEF Answer
  <1> HIDE DEF r
  <1> QED
    BY <1>2, <1>3, Replaced

(* So does a refused one, *)
LEMMA RefuseFacts ==
  ASSUME ReqType, NEW q \in Requests, Refuse(q)
  PROVE  ReqType' /\ Others(q) /\ req'[q].at = "refused"
           /\ req'[q].route = req[q].route
  BY AnswerFacts DEF Refuse

(* and one that submitted nothing. *)
LEMMA AnsweredFacts ==
  ASSUME ReqType, NEW q \in Requests, Answered(q)
  PROVE  ReqType' /\ Others(q) /\ req'[q].at = "done"
           /\ req'[q].route = req[q].route
  BY AnswerFacts DEF Answered

(* What is left of a request whose handler is gone. *)
LEMMA DiedFacts ==
  ASSUME ReqType, NEW q \in Requests
  PROVE  /\ Died(q) \in Request /\ Died(q).at = "dead"
         /\ q \in accepted =>
              /\ Died(q).route = req[q].route /\ Died(q).name = req[q].name
              /\ Died(q).work = req[q].work /\ Died(q).ticket = req[q].ticket
               /\ Died(q).sender = req[q].sender
  <1>1. req[q] \in Request
    BY DEF ReqType
  <1>2. CASE q \in accepted
    BY <1>1, <1>2 DEF Died, Request, Places
  <1>3. CASE q \notin accepted
    BY <1>3, FreshType DEF Died, Request, Places
  <1> QED
    BY <1>2, <1>3

Marks(r, n) ==
  \A p \in Requests :
    LET s == Race(r, n)[p] IN
    /\ s.route = r[p].route /\ s.at = r[p].at /\ s.name = r[p].name
    /\ s.work = r[p].work /\ s.ticket = r[p].ticket
     /\ s.sender = r[p].sender /\ s.info = r[p].info
    /\ r[p].raced => s.raced
    /\ r[p].route = "topup" /\ r[p].at \in Midway /\ r[p].name = n => s.raced

(* Race only marks top-ups on n, and marks those under way. *)
LEMMA RaceFacts ==
  ASSUME NEW r \in [Requests -> Request], NEW n \in Names
  PROVE  Race(r, n) \in [Requests -> Request] /\ Marks(r, n)
  <1> DEFINE s(p) == IF r[p].route = "topup" /\ r[p].at \in Midway /\ r[p].name = n
                     THEN [r[p] EXCEPT !.raced = TRUE] ELSE r[p]
  <1>1. ASSUME NEW p \in Requests
        PROVE  /\ s(p) \in Request
               /\ s(p).route = r[p].route /\ s(p).at = r[p].at
               /\ s(p).name = r[p].name
               /\ s(p).work = r[p].work /\ s(p).ticket = r[p].ticket
                /\ s(p).sender = r[p].sender
               /\ s(p).info = r[p].info
               /\ r[p].raced => s(p).raced
               /\ /\ r[p].route = "topup" /\ r[p].at \in Midway /\ r[p].name = n
                  => s(p).raced
    <2>1. r[p] \in Request
      OBVIOUS
    <2> QED
      BY ZenonT(60), <2>1 DEF Request
  <1>2. Race(r, n) = [p \in Requests |-> s(p)]
    BY DEF Race
  <1> HIDE DEF s
  <1> QED
    BY <1>1, <1>2 DEF Marks

(* An accepted payment names its sender, and moves the request on. *)
LEMMA PaidFacts ==
  ASSUME ReqType, NEW q \in Requests
  PROVE  \A place \in Places, s \in Senders :
           req' = [req EXCEPT ![q].at = place, ![q].sender = s] =>
             /\ ReqType' /\ Others(q)
             /\ req'[q].at = place /\ req'[q].sender = s
             /\ req'[q].route = req[q].route /\ req'[q].name = req[q].name
             /\ req'[q].work = req[q].work /\ req'[q].ticket = req[q].ticket
              /\ req'[q].info = req[q].info
             /\ req'[q].raced = req[q].raced
  <1> SUFFICES ASSUME NEW place \in Places, NEW s \in Senders,
                      req' = [req EXCEPT ![q].at = place, ![q].sender = s]
               PROVE  /\ ReqType' /\ Others(q)
                      /\ req'[q].at = place /\ req'[q].sender = s
                      /\ req'[q].route = req[q].route
                      /\ req'[q].name = req[q].name
                      /\ req'[q].work = req[q].work
                      /\ req'[q].ticket = req[q].ticket
                      /\ req'[q].info = req[q].info
                      /\ req'[q].raced = req[q].raced
    OBVIOUS
  <1> DEFINE r1 == [req[q] EXCEPT !.at = place]
             r == [r1 EXCEPT !.sender = s]
  <1>1. req[q] \in Request
    BY DEF ReqType
  <1>2. r1 \in Request /\ r1.at = place /\ r1.route = req[q].route
        /\ r1.name = req[q].name /\ r1.work = req[q].work
        /\ r1.ticket = req[q].ticket
        /\ r1.info = req[q].info /\ r1.raced = req[q].raced
    BY <1>1 DEF Request
  <1>3. req' = [req EXCEPT ![q] = r]
    BY <1>1 DEF ReqType
  <1> HIDE DEF r1
  <1>4. r \in Request /\ r.sender = s /\ r.at = r1.at /\ r.route = r1.route
        /\ r.name = r1.name /\ r.work = r1.work /\ r.ticket = r1.ticket
         /\ r.info = r1.info /\ r.raced = r1.raced
    BY <1>2 DEF Request
  <1>5. ReqType' /\ Others(q) /\ req'[q] = r
    BY <1>3, <1>4, Replaced
  <1> QED
    BY <1>2, <1>4, <1>5

(* A top-up keeps a copy of the phase it read. *)
LEMMA ReadFacts ==
  ASSUME ReqType, NEW q \in Requests
  PROVE  \A place \in Places, c \in {"none", "starting", "streaming", "closed"} :
           req' = [req EXCEPT ![q].at = place, ![q].copy = c] =>
             /\ ReqType' /\ Others(q) /\ SameRequest(q) /\ req'[q].at = place
             /\ req'[q].info = req[q].info /\ req'[q].raced = req[q].raced
  <1> SUFFICES ASSUME NEW place \in Places,
                      NEW c \in {"none", "starting", "streaming", "closed"},
                      req' = [req EXCEPT ![q].at = place, ![q].copy = c]
               PROVE  /\ ReqType' /\ Others(q) /\ SameRequest(q)
                      /\ req'[q].at = place
                      /\ req'[q].info = req[q].info
                      /\ req'[q].raced = req[q].raced
    OBVIOUS
  <1> DEFINE r1 == [req[q] EXCEPT !.at = place]
             r == [r1 EXCEPT !.copy = c]
  <1>1. req[q] \in Request
    BY DEF ReqType
  <1>2. r1 \in Request /\ r1.at = place /\ r1.route = req[q].route
        /\ r1.name = req[q].name /\ r1.work = req[q].work
        /\ r1.ticket = req[q].ticket
        /\ r1.sender = req[q].sender
        /\ r1.info = req[q].info /\ r1.raced = req[q].raced
    BY <1>1 DEF Request
  <1>3. req' = [req EXCEPT ![q] = r]
    BY <1>1 DEF ReqType
  <1> HIDE DEF r1
  <1>4. r \in Request /\ r.at = r1.at /\ r.route = r1.route
        /\ r.name = r1.name /\ r.work = r1.work /\ r.ticket = r1.ticket
         /\ r.sender = r1.sender
        /\ r.info = r1.info /\ r.raced = r1.raced
    BY <1>2 DEF Request
  <1>5. ReqType' /\ Others(q) /\ req'[q] = r
    BY <1>3, <1>4, Replaced
  <1> QED
    BY <1>2, <1>4, <1>5 DEF SameRequest

(* The end route keeps the phase it read. *)
LEMMA PhaseFacts ==
  ASSUME ReqType, NEW q \in Requests, EndPhase(q)
  PROVE  ReqType' /\ Others(q) /\ SameRequest(q) /\ req'[q].at = "stop"
  <1> DEFINE b == record[req[q].name].phase = "starting"
             r1 == [req[q] EXCEPT !.at = "stop"]
             r == [r1 EXCEPT !.starting = b]
  <1>1. req[q] \in Request
    BY DEF ReqType
  <1>2. r1 \in Request /\ r1.at = "stop" /\ r1.route = req[q].route
        /\ r1.name = req[q].name /\ r1.work = req[q].work
        /\ r1.ticket = req[q].ticket
        /\ r1.sender = req[q].sender
    BY <1>1 DEF Request, Places
  <1>3. req' = [req EXCEPT ![q] = r]
    BY <1>1 DEF ReqType, EndPhase
  <1>b. b \in BOOLEAN
    OBVIOUS
  <1> HIDE DEF r1, b
  <1>4. r \in Request /\ r.at = r1.at /\ r.route = r1.route
        /\ r.name = r1.name /\ r.work = r1.work /\ r.ticket = r1.ticket
         /\ r.sender = r1.sender
    BY <1>2, <1>b DEF Request
  <1>5. ReqType' /\ Others(q) /\ req'[q] = r
    BY <1>3, <1>4, Replaced
  <1> QED
    BY <1>2, <1>4, <1>5 DEF SameRequest

(* A lookup keeps the session it found. *)
LEMMA LookupFacts ==
  ASSUME ReqType, NEW q \in Requests
  PROVE  \A place \in Places, i \in Info, b \in BOOLEAN :
           req' = [req EXCEPT ![q].info = i, ![q].raced = b, ![q].at = place] =>
             /\ ReqType' /\ Others(q) /\ SameRequest(q) /\ req'[q].at = place
             /\ req'[q].info = i /\ req'[q].raced = b
  <1> SUFFICES ASSUME NEW place \in Places, NEW i \in Info, NEW b \in BOOLEAN,
                      req' = [req EXCEPT ![q].info = i, ![q].raced = b,
                                         ![q].at = place]
               PROVE  /\ ReqType' /\ Others(q) /\ SameRequest(q)
                      /\ req'[q].at = place
                      /\ req'[q].info = i /\ req'[q].raced = b
    OBVIOUS
  <1> DEFINE r1 == [req[q] EXCEPT !.info = i]
             r2 == [r1 EXCEPT !.raced = b]
             r == [r2 EXCEPT !.at = place]
  <1>1. req[q] \in Request
    BY DEF ReqType
  <1>2. r1 \in Request /\ r1.info = i /\ r1.route = req[q].route
        /\ r1.name = req[q].name /\ r1.work = req[q].work
        /\ r1.ticket = req[q].ticket
        /\ r1.sender = req[q].sender
    BY <1>1 DEF Request
  <1>3. req' = [req EXCEPT ![q] = r]
    BY <1>1 DEF ReqType
  <1> HIDE DEF r1
  <1>4. r2 \in Request /\ r2.raced = b /\ r2.info = r1.info /\ r2.route = r1.route
        /\ r2.name = r1.name /\ r2.work = r1.work /\ r2.ticket = r1.ticket
         /\ r2.sender = r1.sender
    BY <1>2 DEF Request
  <1> HIDE DEF r2
  <1>5. r \in Request /\ r.at = place /\ r.raced = r2.raced /\ r.info = r2.info
        /\ r.route = r2.route /\ r.name = r2.name /\ r.work = r2.work
        /\ r.ticket = r2.ticket /\ r.sender = r2.sender
    BY <1>4 DEF Request
  <1>6. ReqType' /\ Others(q) /\ req'[q] = r
    BY <1>3, <1>5, Replaced
  <1> QED
    BY <1>2, <1>4, <1>5, <1>6 DEF SameRequest

(* A request that comes in carries a ticket wherever one is asked for. *)
LEMMA ArriveFacts ==
  ASSUME ReqType, NEW q \in Requests, Arrive(q), RoutesAssumption
  PROVE  /\ ReqType' /\ Others(q) /\ req[q].at = "new" /\ req'[q].at = "check"
         /\ req'[q].route \in AllRoutes /\ req'[q].name \in Names
         /\ mode = "paid" /\ req'[q].route \notin Reads =>
              req'[q].ticket \in Tickets /\ req'[q].work \in WorkIDs
  <1>1. PICK route \in MayUse[q], n \in Names :
        \E t \in IF mode = "paid" /\ route \notin Reads THEN Tickets ELSE {None} :
        \E w \in WorkOf(route, n, t) :
          req' = [req EXCEPT ![q] = [Fresh EXCEPT
            !.route = route, !.at = "check", !.name = n, !.ticket = t,
            !.work = w]]
    BY DEF Arrive
  <1>2. PICK t \in IF mode = "paid" /\ route \notin Reads THEN Tickets ELSE {None} :
        \E w \in WorkOf(route, n, t) :
          req' = [req EXCEPT ![q] = [Fresh EXCEPT
            !.route = route, !.at = "check", !.name = n, !.ticket = t,
            !.work = w]]
    BY <1>1
  <1>3. PICK w \in WorkOf(route, n, t) :
          req' = [req EXCEPT ![q] = [Fresh EXCEPT
            !.route = route, !.at = "check", !.name = n, !.ticket = t,
            !.work = w]]
    BY <1>2
  <1>4. /\ route \in AllRoutes /\ n \in Names
        /\ t \in Tickets \cup {None} /\ w \in WorkIDs \cup {None}
        /\ mode = "paid" /\ route \notin Reads => t \in Tickets /\ w \in WorkIDs
    BY <1>1, <1>2, <1>3 DEF RoutesAssumption, WorkOf, WorkIDs
  <1> DEFINE r == [Fresh EXCEPT
            !.route = route, !.at = "check", !.name = n, !.ticket = t,
            !.work = w]
  <1>5. /\ r \in Request /\ r.route = route /\ r.at = "check" /\ r.name = n
        /\ r.ticket = t /\ r.work = w
    BY <1>4, FreshType DEF Request, Places
  <1>6. req' = [req EXCEPT ![q] = r]
    BY <1>3
  <1>7. req[q].at = "new"
    BY DEF Arrive
  <1> HIDE DEF r
  <1>8. ReqType' /\ Others(q) /\ req'[q] = r
    BY <1>5, <1>6, Replaced
  <1> QED
    BY <1>4, <1>5, <1>7, <1>8

------------------------------------------------------------------------------
(* Shape, action by action. *)

(* A step of q's own handler disturbs the shape of q only. *)
LEMMA ShapeOfOthers ==
  ASSUME Shape, NEW q \in Requests, Others(q), mode' = mode,
         accepted' = accepted \/ accepted' = accepted \cup {q}, Shaped(q)'
  PROVE  Shape'
  BY DEF Shape, Shaped, Others

(* The handlers' steps that move one request. *)
LEMMA OneRequest ==
  ASSUME TypeOK, Shape, NEW q \in Requests,
         \/ Check(q) \/ Open(q) \/ Pay(q) \/ SubmitVOD(q) \/ SubmitABR(q)
         \/ Upsert(q) \/ LookupRecord(q) \/ TopupTicket(q)
         \/ TopupRead(q) \/ TopupWrite(q) \/ NoLiveRunner(q) \/ EndPhase(q)
         \/ EndClose(q) \/ JobStatus(q) \/ StreamStatus(q)
  PROVE  ReqType' /\ Others(q) /\ Shaped(q)'
  <1>t. /\ ReqType /\ Shaped(q) /\ RoutesAssumption
        /\ req[q].at \notin {"upsert", "done", "dead"} => q \notin accepted
    BY RoutesAssumption DEF TypeOK, ReqType, Shape, Shaped
  <1>1. CASE Check(q)
    BY ZenonT(60), <1>1, <1>t, GotoFacts, RefuseFacts
    DEF Check, built, Shaped, SameRequest, Places, Starts, Topups, Looking, Reads,
        AllRoutes, Idle
  <1>2. CASE Open(q)
    <2>1. mode' = mode /\ accepted' = accepted /\ req[q].at = "open"
      BY <1>2 DEF Open, built
    <2>2. CASE mode # "paid" /\ Goto(q, "submit")
      BY <2>1, <2>2, <1>t, GotoFacts DEF Shaped, SameRequest, Places, Idle
    <2>3. CASE Refuse(q)
      BY <2>1, <2>3, <1>t, RefuseFacts DEF Shaped, Idle
    <2>4. CASE mode = "paid" /\ Goto(q, "pay")
      BY <2>1, <2>4, <1>t, GotoFacts DEF Shaped, SameRequest, Places, Idle
    <2> QED BY <1>2, <2>2, <2>3, <2>4 DEF Open
  <1>3. CASE Pay(q)
    <2> DEFINE s == SenderOf[req[q].ticket]
               place == IF req[q].route \in Starts THEN "submit" ELSE "apply"
    <2>1. req[q].ticket \in Tickets /\ mode' = mode /\ accepted' = accepted
      BY <1>3, <1>t DEF Pay, built, Shaped, Idle, Starts, Topups, Reads
    <2>2. s \in Senders /\ place \in Places
      BY <2>1 DEF Senders, Places
    <2>p. place \in {"submit", "apply"} /\ (place = "submit" <=> req[q].route \in Starts)
      OBVIOUS
    <2> HIDE DEF s, place
    <2>3. CASE Refuse(q)
      BY <1>3, <2>1, <2>3, <1>t, RefuseFacts DEF Pay, Shaped, Idle
    <2>4. CASE req' = [req EXCEPT ![q].at = place, ![q].sender = s]
      <3>1. /\ ReqType' /\ Others(q) /\ req'[q].at = place
            /\ req'[q].route = req[q].route /\ req'[q].name = req[q].name
            /\ req'[q].work = req[q].work /\ req'[q].ticket = req[q].ticket
        BY <2>2, <2>4, <1>t, PaidFacts
      <3>2. /\ req[q].at = "pay" /\ req[q].route \in AllRoutes
            /\ req[q].route \in Starts \cup Topups /\ req[q].name \in Names
            /\ req[q].work \in WorkIDs /\ q \notin accepted
        BY <1>3, <1>t DEF Pay, Shaped, Idle, Starts, Topups, Reads
      <3> QED
        BY <2>p, <2>1, <3>1, <3>2 DEF Shaped, Idle
    <2> QED
      BY <1>3, <2>3, <2>4 DEF Pay, s, place
  <1>4. CASE SubmitVOD(q) \/ SubmitABR(q)
    BY <1>4, <1>t, RefuseFacts, GotoFacts
    DEF SubmitVOD, SubmitABR, Submitted, Accepted, built, Shaped, SameRequest,
        Places, Idle
  <1>5. CASE Upsert(q)
    BY <1>5, <1>t, GotoFacts DEF Upsert, built, Shaped, SameRequest, Places, Idle
  <1>6. CASE LookupRecord(q)
    BY <1>6, <1>t, GotoFacts, RefuseFacts
    DEF LookupRecord, built, Shaped, SameRequest, Places, Idle, Looking
  <1>7. CASE TopupTicket(q)
    BY <1>7, <1>t, GotoFacts, RefuseFacts
    DEF TopupTicket, built, Shaped, SameRequest, Places, Idle, Topups
  <1>8. CASE TopupRead(q)
    <2> DEFINE n == req[q].name
               place == IF table[n] = None THEN "done" ELSE "write"
               c == record[n].phase
    <2>1. /\ n \in Names /\ mode' = mode /\ accepted' = accepted
          /\ req' = [req EXCEPT ![q].at = place, ![q].copy = c]
      BY <1>8, <1>t DEF TopupRead, built, Shaped, Idle
    <2>2. /\ place \in Places /\ place \in {"done", "write"}
          /\ c \in {"none", "starting", "streaming", "closed"}
      BY <2>1 DEF TypeOK, Places
    <2> HIDE DEF n, place, c
    <2>3. ReqType' /\ Others(q) /\ SameRequest(q) /\ req'[q].at = place
      BY <2>1, <2>2, <1>t, ReadFacts
    <2> QED
      BY <1>8, <2>1, <2>2, <2>3, <1>t DEF TopupRead, Shaped, SameRequest, Idle
  <1>9. CASE TopupWrite(q)
    <2>1. /\ mode' = mode /\ accepted' = accepted /\ q \notin accepted
          /\ req[q].at \notin Idle
      BY <1>9, <1>t DEF TopupWrite, built, Idle
    <2> QED
      BY <1>9, <2>1, <1>t, RefuseFacts, AnsweredFacts DEF TopupWrite, Shaped, Idle
  <1>10. CASE NoLiveRunner(q)
    <2>1. /\ req' = [req EXCEPT ![q] = Died(q)] /\ q \notin accepted'
          /\ mode' = mode
      BY <1>10, <1>t DEF NoLiveRunner, built
    <2>2. Died(q) \in Request /\ Died(q).at = "dead"
      BY <1>t, DiedFacts
    <2>3. ReqType' /\ Others(q) /\ req'[q] = Died(q)
      BY <2>1, <2>2, <1>t, Replaced
    <2> QED
      BY <2>1, <2>2, <2>3 DEF Shaped, Idle
  <1>11. CASE EndPhase(q)
    BY <1>11, <1>t, PhaseFacts DEF EndPhase, built, Shaped, SameRequest, Idle
  <1>12. CASE EndClose(q)
    <2>1. /\ mode' = mode /\ accepted' = accepted /\ q \notin accepted
          /\ req[q].at \notin Idle
      BY <1>12, <1>t DEF EndClose, built, Idle
    <2> QED
      BY <1>12, <2>1, <1>t, RefuseFacts, AnsweredFacts DEF EndClose, Shaped, Idle
  <1>13. CASE JobStatus(q) \/ StreamStatus(q)
    <2>1. /\ mode' = mode /\ accepted' = accepted /\ q \notin accepted
          /\ req[q].at \notin Idle
      BY <1>13, <1>t DEF JobStatus, StreamStatus, Found, built, Idle
    <2> QED
      BY <1>13, <2>1, <1>t, RefuseFacts, AnsweredFacts
      DEF JobStatus, StreamStatus, Found, Shaped, Idle
  <1> QED
    BY <1>1, <1>2, <1>3, <1>4, <1>5, <1>6, <1>7, <1>8, <1>9, <1>10, <1>11,
       <1>12, <1>13

(* The lookup of a session, in full. *)
LEMMA LookupInfoFacts ==
  ASSUME TypeOK, Shape, NEW q \in Requests, LookupInfo(q)
  PROVE  LET n == req[q].name
             stored == record[n].info
             info == req'[q].info
         IN
         /\ ReqType' /\ Others(q) /\ SameRequest(q) /\ n \in Names
         /\ req[q].at = "info" /\ req[q].route \in Looking
         /\ req'[q].at = IF req[q].route = "end" THEN "phase" ELSE "ticket"
         /\ registry[n] # NoInfo => info = registry[n]
         /\ registry[n] = NoInfo =>
              info.sender = stored.sender /\ (stored.work # None => info = stored)
         /\ /\ req[q].route = "topup"
            /\ req[q].raced \/ n \in stale
            => req'[q].raced
  <1> DEFINE n == req[q].name
             stored == record[n].info
             other == [stored EXCEPT !.work = IF @ = None THEN n ELSE @]
             i == IF registry[n] # NoInfo THEN registry[n] ELSE other
             b == /\ req[q].route = "topup"
                  /\ req[q].raced \/ n \in stale
             place == IF req[q].route = "end" THEN "phase" ELSE "ticket"
  <1>1. /\ req[q].at = "info" /\ req[q].route \in Looking /\ n \in Names
        /\ ReqType
    BY DEF LookupInfo, Shape, Shaped, TypeOK, ReqType, Idle
  <1>2. req' = [req EXCEPT ![q].info = i, ![q].raced = b, ![q].at = place]
    <2>1. req[q] \in Request
      BY <1>1 DEF ReqType
    <2>2. [req EXCEPT ![q].info = i][q].raced = req[q].raced
      BY <1>1, <2>1 DEF ReqType, Request
    <2> QED
      BY <2>2 DEF LookupInfo
  <1>3. stored \in Info /\ registry[n] \in Info
    BY <1>1 DEF TypeOK
  <1>4. /\ other \in Info /\ other.sender = stored.sender
        /\ stored.work # None => other = stored
    BY <1>1, <1>3 DEF Info, WorkIDs
  <1>5. i \in Info
    BY <1>3, <1>4
  <1>6. b \in BOOLEAN
    OBVIOUS
  <1>7. place \in Places
    BY DEF Places
  <1>8. /\ registry[n] # NoInfo => i = registry[n]
        /\ registry[n] = NoInfo =>
             i.sender = stored.sender /\ (stored.work # None => i = stored)
    BY <1>4
  <1>9. /\ ReqType' /\ Others(q) /\ SameRequest(q) /\ req'[q].at = place
        /\ req'[q].info = i /\ req'[q].raced = b
    <2> HIDE DEF i, b, place, other
    <2> QED
      BY <1>1, <1>2, <1>5, <1>6, <1>7, LookupFacts
  <1> HIDE DEF i, other
  <1> QED
    BY <1>1, <1>8, <1>9

(* The shape of a request that has looked its session up. *)
LEMMA LookupInfoShape ==
  ASSUME TypeOK, Shape, NEW q \in Requests, LookupInfo(q)
  PROVE  ReqType' /\ Others(q) /\ Shaped(q)'
  <1>1. /\ ReqType' /\ Others(q) /\ SameRequest(q) /\ mode' = mode
        /\ accepted' = accepted /\ req[q].at = "info" /\ req[q].route \in Looking
        /\ req'[q].at = IF req[q].route = "end" THEN "phase" ELSE "ticket"
    BY LookupInfoFacts DEF LookupInfo, built
  <1> QED
    BY <1>1 DEF Shape, Shaped, SameRequest, Looking, Idle

(* The shape of an answered request for ticket parameters. *)
LEMMA TicketParamsShape ==
  ASSUME TypeOK, Shape, NEW q \in Requests, TicketParams(q)
  PROVE  ReqType' /\ Others(q) /\ Shaped(q)'
  <1>t. /\ ReqType /\ Shaped(q) /\ q \notin accepted /\ mode' = mode
        /\ accepted' = accepted /\ req[q].at = "check"
    BY DEF TypeOK, ReqType, Shape, Shaped, TicketParams, built
  <1>1. PICK client \in BOOLEAN :
          \E answer \in TicketParamsAnswers[client] :
            CASE answer = "ok" -> Answered(q)
              [] answer = "panic" -> req' = [req EXCEPT ![q] = Died(q)]
              [] OTHER -> Refuse(q)
    BY Zenon DEF TicketParams
  <1>2. PICK answer \in TicketParamsAnswers[client] :
            CASE answer = "ok" -> Answered(q)
              [] answer = "panic" -> req' = [req EXCEPT ![q] = Died(q)]
              [] OTHER -> Refuse(q)
    BY <1>1, Zenon
  <1>3. Answered(q) \/ Refuse(q) \/ req' = [req EXCEPT ![q] = Died(q)]
    BY <1>2
  <1>4. CASE Answered(q) \/ Refuse(q)
    BY <1>4, <1>t, AnsweredFacts, RefuseFacts DEF Shaped, Idle
  <1>5. CASE req' = [req EXCEPT ![q] = Died(q)]
    <2>1. Died(q) \in Request /\ Died(q).at = "dead"
      BY <1>t, DiedFacts
    <2>2. ReqType' /\ Others(q) /\ req'[q] = Died(q)
      BY <1>5, <2>1, <1>t, Replaced
    <2> QED
      BY <1>t, <2>1, <2>2 DEF Shaped, Idle
  <1> QED
    BY <1>3, <1>4, <1>5

(* The shape of a request that has just come in. *)
LEMMA ArriveShape ==
  ASSUME TypeOK, Shape, NEW q \in Requests, Arrive(q)
  PROVE  ReqType' /\ Others(q) /\ Shaped(q)'
  <1>1. /\ ReqType' /\ Others(q) /\ req[q].at = "new" /\ req'[q].at = "check"
        /\ req'[q].route \in AllRoutes /\ req'[q].name \in Names
        /\ mode = "paid" /\ req'[q].route \notin Reads =>
              req'[q].ticket \in Tickets /\ req'[q].work \in WorkIDs
    BY ArriveFacts, RoutesAssumption DEF TypeOK, ReqType
  <1>2. mode' = mode /\ accepted' = accepted /\ q \notin accepted
    BY <1>1 DEF Arrive, built, Shape, Shaped
  <1> QED
    BY <1>1, <1>2 DEF Shaped, Idle

(* The steps that race with top-ups: every request keeps what it has, and  *)
(* the top-ups on n that are under way are marked.                         *)
Kept(p) ==
  /\ SameRequest(p) /\ req'[p].at = req[p].at /\ req'[p].info = req[p].info
  /\ req[p].raced => req'[p].raced
Marked(n) ==
  \A p \in Requests :
    req[p].route = "topup" /\ req[p].at \in Midway /\ req[p].name = n
    => req'[p].raced

(* Race as a step of its own. *)
LEMMA RacedFacts ==
  ASSUME ReqType, NEW n \in Names, req' = Race(req, n)
  PROVE  ReqType' /\ Marked(n) /\ \A p \in Requests : Kept(p)
  <1>1. Race(req, n) \in [Requests -> Request] /\ Marks(req, n)
    BY RaceFacts DEF ReqType
  <1> QED
    BY <1>1 DEF Marks, ReqType, Marked, Kept, SameRequest

(* The same after a step of q that is no top-up under way. *)
LEMMA MovedAndRaced ==
  ASSUME ReqType, NEW q \in Requests, NEW n \in Names, NEW place \in Places,
         req' = Race([req EXCEPT ![q].at = place], n), req[q].route # "topup"
  PROVE  /\ ReqType' /\ Marked(n) /\ SameRequest(q) /\ req'[q].at = place
         /\ \A p \in Requests \ {q} : Kept(p)
  <1> DEFINE r1 == [req[q] EXCEPT !.at = place]
             moved == [req EXCEPT ![q] = r1]
  <1>1. req[q] \in Request
    BY DEF ReqType
  <1>2. /\ r1 \in Request /\ r1.at = place /\ r1.route = req[q].route
        /\ r1.name = req[q].name /\ r1.work = req[q].work
        /\ r1.ticket = req[q].ticket
        /\ r1.sender = req[q].sender
    BY <1>1 DEF Request
  <1>3. req' = Race(moved, n)
    OBVIOUS
  <1> HIDE DEF r1
  <1>4. /\ moved \in [Requests -> Request] /\ moved[q] = r1
        /\ \A p \in Requests \ {q} : moved[p] = req[p]
    BY <1>2 DEF ReqType
  <1> HIDE DEF moved
  <1>5. Race(moved, n) \in [Requests -> Request] /\ Marks(moved, n)
    BY <1>4, RaceFacts
  <1>6. ReqType' /\ Marked(n)
    BY ZenonT(60), <1>2, <1>3, <1>4, <1>5 DEF ReqType, Marked, Marks
  <1>7. SameRequest(q) /\ req'[q].at = place
    BY <1>2, <1>3, <1>4, <1>5 DEF SameRequest, Marks
  <1>8. \A p \in Requests \ {q} : Kept(p)
    BY <1>3, <1>4, <1>5 DEF Kept, SameRequest, Marks
  <1> QED
    BY <1>6, <1>7, <1>8

(* A request that is kept keeps its shape. *)
LEMMA KeptShape ==
  ASSUME Shape, NEW p \in Requests, Kept(p), mode' = mode,
         p \in accepted' <=> p \in accepted
  PROVE  Shaped(p)'
  BY DEF Shape, Shaped, Kept, SameRequest

(* A start is refused or becomes a session, racing with top-ups. *)
StreamStarts(q) ==
  LET n == req[q].name IN
  /\ "live" \in wired /\ table[n] = None /\ Unlocked
  /\ table' = [table EXCEPT ![n] = "pending"]
  /\ entry' = [entry EXCEPT ![n] = InfoOf(q)]
  /\ record' = [record EXCEPT ![n] = [phase |-> "starting", info |-> InfoOf(q)]]
  /\ stale' = IF registry[n] \in {NoInfo, InfoOf(q)} THEN stale \ {n}
                                                     ELSE stale \cup {n}
  /\ accepted' = accepted \cup {q}

(* A refused start changes nothing; an accepted one is StreamStarts. *)
LEMMA SubmitStreamFacts ==
  ASSUME TypeOK, Shape, NEW q \in Requests, SubmitStream(q)
  PROVE  /\ req[q].at = "submit" /\ req[q].route \in {"stream", "session"}
         /\ req[q].name \in Names /\ ReqType' /\ q \notin accepted
         /\ UNCHANGED <<built, pay, accept, registry>>
         /\ \/ /\ Others(q) /\ req'[q].at = "refused"
               /\ UNCHANGED <<table, entry, record, accepted, stale>>
            \/ /\ StreamStarts(q) /\ Marked(req[q].name) /\ SameRequest(q)
               /\ req'[q].at \in {"upsert", "done"}
               /\ req'[q].at = "upsert" => req[q].route = "session"
               /\ \A p \in Requests \ {q} : Kept(p)
  <1> DEFINE n == req[q].name
             place == IF req[q].route = "session" THEN "upsert" ELSE "done"
  <1>1. /\ req[q].at = "submit" /\ req[q].route \in {"stream", "session"}
        /\ n \in Names /\ ReqType /\ q \notin accepted
        /\ UNCHANGED <<built, pay, accept, registry>>
    BY DEF SubmitStream, Shape, Shaped, TypeOK, ReqType, Idle
  <1>2. place \in Places
    BY DEF Places
  <1>3. CASE Refuse(q) /\ UNCHANGED <<table, entry, record, stale, accepted>>
    BY <1>1, <1>3, RefuseFacts
  <1>4. CASE /\ StreamStarts(q)
             /\ req' = Race([req EXCEPT ![q].at = place], n)
    <2>3. /\ ReqType' /\ Marked(n) /\ SameRequest(q) /\ req'[q].at = place
          /\ \A p \in Requests \ {q} : Kept(p)
      <3> HIDE DEF place, n
      <3> QED
        BY <1>1, <1>2, <1>4, MovedAndRaced
    <2> QED
      BY <1>1, <1>4, <2>3
  <1> QED
    BY <1>3, <1>4 DEF SubmitStream, StreamStarts, Accepted

(* Stop races with top-ups where it takes an entry away. *)
LEMMA StopFacts ==
  ASSUME TypeOK, Shape, NEW q \in Requests, Stop(q)
  PROVE  /\ req[q].at = "stop" /\ req[q].route \in {"end", "stop"}
         /\ req[q].name \in Names /\ ReqType' /\ SameRequest(q)
         /\ req'[q].at \in {"close", "done"}
         /\ req'[q].at = "close" => req[q].route = "end"
         /\ \A p \in Requests \ {q} : Kept(p)
         /\ UNCHANGED <<built, accept, registry, stale, accepted>>
  <1> DEFINE n == req[q].name
             place == IF req[q].route = "end" THEN "close" ELSE "done"
  <1>1. /\ req[q].at = "stop" /\ req[q].route \in {"end", "stop"}
        /\ n \in Names /\ ReqType
        /\ UNCHANGED <<built, accept, registry, stale, accepted>>
    BY DEF Stop, Shape, Shaped, TypeOK, ReqType, Idle
  <1>2. place \in Places
    BY DEF Places
  <1>3. CASE req' = [req EXCEPT ![q].at = place]
    <2>1. ReqType' /\ Others(q) /\ SameRequest(q) /\ req'[q].at = place
      <3> HIDE DEF place
      <3> QED
        BY <1>1, <1>2, <1>3, GotoFacts DEF Goto
    <2> QED
      BY <1>1, <2>1 DEF Others, Kept, SameRequest
  <1>4. CASE req' = Race([req EXCEPT ![q].at = place], n)
    <2>1. /\ ReqType' /\ SameRequest(q) /\ req'[q].at = place
          /\ \A p \in Requests \ {q} : Kept(p)
      <3> HIDE DEF place, n
      <3> QED
        BY <1>1, <1>2, <1>4, MovedAndRaced
    <2> QED
      BY <1>1, <2>1
  <1> QED
    BY <1>3, <1>4 DEF Stop

(* Restart ends what is under way, and keeps what runners were given. *)
LEMMA RestartFacts ==
  ASSUME ReqType, Restart
  PROVE  /\ ReqType'
         /\ \A p \in Requests :
              \/ req'[p] = req[p] /\ req[p].at \in {"new", "done", "refused"}
              \/ p \in accepted /\ SameRequest(p) /\ req'[p].at = "dead"
              \/ p \notin accepted /\ req'[p].at = "dead"
  <1> DEFINE s(p) == IF req[p].at \in {"new", "done", "refused"} THEN req[p]
                     ELSE Died(p)
  <1>1. req' = [p \in Requests |-> s(p)]
    BY DEF Restart
  <1>2. \A p \in Requests : s(p) \in Request
    BY DiedFacts DEF ReqType
  <1>3. \A p \in Requests : \/ s(p) = Died(p)
                            \/ s(p) = req[p] /\ req[p].at \in {"new", "done", "refused"}
    OBVIOUS
  <1> HIDE DEF s
  <1>4. ReqType' /\ \A p \in Requests : req'[p] = s(p)
    BY <1>1, <1>2 DEF ReqType
  <1> QED
    BY <1>3, <1>4, DiedFacts DEF SameRequest

(* The steps of connections and of sessions. *)
RunnerStep(n) ==
  \/ AcceptFind(n) \/ AcceptSave(n) \/ AcceptRefused(n) \/ AcceptRegister(n)
  \/ SessionPersists(n) \/ SessionLeaves(n)

(* Shape is kept by every step. *)
LEMMA ShapeInvariant ==
  ASSUME TypeOK, Shape, [Next]_vars
  PROVE  ReqType' /\ Shape'
  <1>t. ReqType
    BY DEF TypeOK, ReqType
  <1>1. ASSUME NEW q \in Requests,
               \/ Check(q) \/ Open(q) \/ Pay(q) \/ SubmitVOD(q) \/ SubmitABR(q)
               \/ Upsert(q) \/ LookupRecord(q) \/ TopupTicket(q)
               \/ TopupRead(q) \/ TopupWrite(q) \/ NoLiveRunner(q) \/ EndPhase(q)
               \/ EndClose(q) \/ JobStatus(q) \/ StreamStatus(q)
               \/ LookupInfo(q) \/ TicketParams(q) \/ Arrive(q)
        PROVE  ReqType' /\ Shape'
    <2>1. ReqType' /\ Others(q) /\ Shaped(q)'
      BY <1>1, OneRequest, LookupInfoShape, TicketParamsShape, ArriveShape
    <2>2. mode' = mode /\ (accepted' = accepted \/ accepted' = accepted \cup {q})
      BY <1>1
      DEF Check, Open, Pay, SubmitVOD, SubmitABR, Submitted, Accepted, Upsert,
          LookupRecord, TopupTicket, TopupRead, TopupWrite, NoLiveRunner, EndPhase,
          EndClose, JobStatus, StreamStatus, Found, LookupInfo, TicketParams, Arrive,
          built
    <2> QED
      BY <2>1, <2>2, ShapeOfOthers
  <1>2. ASSUME NEW q \in Requests, SubmitStream(q)
        PROVE  ReqType' /\ Shape'
    <2>1. /\ req[q].at = "submit" /\ ReqType' /\ q \notin accepted /\ mode' = mode
          /\ \/ Others(q) /\ req'[q].at = "refused" /\ accepted' = accepted
             \/ /\ accepted' = accepted \cup {q} /\ SameRequest(q)
                /\ req'[q].at \in {"upsert", "done"}
                /\ \A p \in Requests \ {q} : Kept(p)
      BY <1>2, SubmitStreamFacts DEF built, StreamStarts
    <2>2. CASE Others(q) /\ req'[q].at = "refused" /\ accepted' = accepted
      BY <2>1, <2>2 DEF Shape, Shaped, Others, Idle
    <2>3. CASE /\ accepted' = accepted \cup {q} /\ SameRequest(q)
               /\ req'[q].at \in {"upsert", "done"}
               /\ \A p \in Requests \ {q} : Kept(p)
      <3>1. \A p \in Requests \ {q} : Shaped(p)'
        BY <2>1, <2>3, KeptShape
      <3>2. Shaped(q)'
        BY <2>1, <2>3 DEF Shape, Shaped, SameRequest, Idle
      <3> QED
        BY <2>1, <3>1, <3>2 DEF Shape
    <2> QED
      BY <2>1, <2>2, <2>3
  <1>3. ASSUME NEW q \in Requests, Stop(q)
        PROVE  ReqType' /\ Shape'
    <2>1. /\ req[q].at = "stop" /\ ReqType' /\ mode' = mode /\ SameRequest(q)
          /\ req[q].route \in {"end", "stop"} /\ accepted' = accepted
          /\ req'[q].at \in {"close", "done"}
          /\ req'[q].at = "close" => req[q].route = "end"
          /\ \A p \in Requests \ {q} : Kept(p)
      BY <1>3, StopFacts DEF built
    <2>2. \A p \in Requests \ {q} : Shaped(p)'
      BY <2>1, KeptShape
    <2>3. Shaped(q)'
      BY <2>1 DEF Shape, Shaped, SameRequest, Idle
    <2> QED
      BY <2>1, <2>2, <2>3 DEF Shape
  <1>4. ASSUME NEW n \in Names, RunnerStep(n)
        PROVE  ReqType' /\ Shape'
    <2>1. mode' = mode /\ accepted' = accepted /\ (req' = req \/ req' = Race(req, n))
      BY <1>4 DEF RunnerStep, AcceptFind, AcceptSave, AcceptRefused,
          AcceptRegister, SessionPersists, SessionLeaves, built
    <2>2. CASE req' = req
      BY <2>1, <2>2, <1>t DEF Shape, Shaped, ReqType
    <2>3. CASE req' = Race(req, n)
      BY <2>1, <2>3, <1>t, RacedFacts, KeptShape DEF Shape
    <2> QED
      BY <2>1, <2>2, <2>3
  <1>5. ASSUME Restart
        PROVE  ReqType' /\ Shape'
    <2>1. mode' = mode /\ accepted' = accepted
      BY <1>5 DEF Restart
    <2> QED
      BY <1>5, <1>t, <2>1, RestartFacts DEF Shape, Shaped, SameRequest, Idle
  <1>6. CASE UNCHANGED vars
    BY <1>6, <1>t DEF vars, Shape, Shaped, ReqType
  <1> QED
    BY <1>1, <1>2, <1>3, <1>4, <1>5, <1>6 DEF Next, RequestStep, RunnerStep

------------------------------------------------------------------------------
(* The daemon's payment sessions only grow: nothing is debited from the    *)
(* credits here.                                                           *)
PayType == pay \in [WorkIDs -> Session]
Grows(w) == pay[w].credits \subseteq pay'[w].credits
PayGrows == PayType' /\ \A w \in WorkIDs : Grows(w)

(* One session is replaced by a grown one. *)
LEMMA GrownSession ==
  ASSUME PayType, NEW w \in WorkIDs
  PROVE  \A s \in Session :
           /\ pay' = [pay EXCEPT ![w] = s]
           /\ pay[w].credits \subseteq s.credits
           => PayGrows /\ pay'[w] = s
  BY DEF PayType, PayGrows, Grows

(* Sessions that do not change have grown. *)
LEMMA PayUnchanged ==
  ASSUME PayType, pay' = pay
  PROVE  PayGrows
  BY DEF PayType, PayGrows, Grows

(* OpenSession keeps the credits. *)
LEMMA OpenSessionFacts ==
  ASSUME PayType, NEW w \in WorkIDs, OpenSession(w)
  PROVE  PayGrows
  <1> DEFINE s == [pay[w] EXCEPT !.state = "pending"]
  <1>1. pay[w] \in Session
    BY DEF PayType
  <1>2. s \in Session /\ s.credits = pay[w].credits
    BY <1>1 DEF Session
  <1>3. pay' = pay \/ pay' = [pay EXCEPT ![w] = s]
    BY DEF OpenSession
  <1> HIDE DEF s
  <1> QED
    BY <1>2, <1>3, PayUnchanged, GrownSession

(* A payment credits its request, on the session it is for. *)
LEMMA CreditedFacts ==
  ASSUME PayType, NEW q \in Requests, PaysFor(q) \in WorkIDs,
         SenderOf[req[q].ticket] \in Senders, pay' = Credited(q)
  PROVE  /\ PayGrows
         /\ [by |-> q, sender |-> SenderOf[req[q].ticket]]
              \in pay'[PaysFor(q)].credits
  <1> DEFINE w == PaysFor(q)
             p == pay[w]
             t == SenderOf[req[q].ticket]
             c == p.credits \cup {[by |-> q, sender |-> t]}
             o == IF p.sender = None THEN t ELSE p.sender
             s1 == [p EXCEPT !.state = "open"]
             s2 == [s1 EXCEPT !.sender = o]
             s == [s2 EXCEPT !.credits = c]
  <1>1. p \in Session /\ w \in WorkIDs /\ t \in Senders
    BY DEF PayType
  <1>2. o \in Senders \cup {None} /\ c \in SUBSET [by : Requests, sender : Senders]
    BY <1>1 DEF Session
  <1>3. s1 \in Session
    BY <1>1 DEF Session
  <1>4. pay' = [pay EXCEPT ![w] = s]
    BY <1>1 DEF Credited, PayType
  <1> HIDE DEF s1, o, c
  <1>5. s2 \in Session
    BY <1>2, <1>3 DEF Session
  <1> HIDE DEF s2
  <1>6. s \in Session /\ s.credits = c
    BY <1>2, <1>5 DEF Session
  <1>7. p.credits \subseteq c /\ [by |-> q, sender |-> t] \in c
    BY DEF c
  <1> HIDE DEF s, p, w, t
  <1>8. PayGrows /\ pay'[w] = s
    <2>1. p = pay[w]
      BY DEF p
    <2> QED
      BY ZenonT(60), <1>1, <1>4, <1>6, <1>7, <2>1, GrownSession
  <1> QED
    BY <1>6, <1>7, <1>8 DEF w, t

(* So does closing a session, which keeps its credits. *)
LEMMA CloseFacts ==
  ASSUME PayType
  PROVE  \A w : pay' = Close(w) => PayGrows
  <1> SUFFICES ASSUME NEW w, pay' = Close(w) PROVE PayGrows
    OBVIOUS
  <1>1. CASE w \in WorkIDs
    <2> DEFINE p == pay[w]
               v == IF p.state = "none" THEN p.state ELSE "closed"
               s == [p EXCEPT !.state = v]
    <2>1. p \in Session
      BY <1>1 DEF PayType
    <2>2. pay' = [pay EXCEPT ![w] = s]
      BY DEF Close
    <2>3. s \in Session /\ s.credits = p.credits
      BY <2>1 DEF Session
    <2> HIDE DEF s
    <2> QED
      BY <1>1, <2>2, <2>3, GrownSession
  <1>2. CASE w \notin WorkIDs
    <2>1. pay' = pay
      BY <1>2 DEF Close, PayType
    <2> QED
      BY <2>1, PayUnchanged
  <1> QED
    BY <1>1, <1>2

(* What Open and Pay do, by the place their request comes out at. *)
LEMMA OpenSteps ==
  ASSUME TypeOK, Shape, NEW q \in Requests, Open(q)
  PROVE  /\ PayGrows /\ Others(q) /\ ReqType'
         /\ \/ req'[q].at = "refused"
            \/ mode # "paid" /\ req'[q].at = "submit"
            \/ req'[q].at = "pay"
         /\ req'[q].route = req[q].route /\ req[q].route \in Starts
  <1>t. /\ ReqType /\ PayType /\ req[q].at = "open" /\ req[q].route \in Starts
        /\ mode = "paid" => req[q].work \in WorkIDs
    BY DEF TypeOK, ReqType, PayType, Shape, Shaped, Open, Idle, Starts, Reads
  <1>1. Others(q) /\ ReqType'
    BY OneRequest
  <1>2. CASE mode # "paid" /\ Goto(q, "submit") /\ UNCHANGED pay
    BY <1>t, <1>1, <1>2, PayUnchanged, GotoFacts DEF SameRequest, Places
  <1>3. CASE mode = "paid" /\ Refuse(q) /\ UNCHANGED pay
    BY <1>t, <1>1, <1>3, PayUnchanged, RefuseFacts
  <1>4. CASE mode = "paid" /\ OpenSession(req[q].work) /\ Goto(q, "pay")
    BY <1>t, <1>1, <1>4, OpenSessionFacts, GotoFacts DEF SameRequest, Places
  <1> QED
    BY <1>2, <1>3, <1>4 DEF Open

(* A payment that is not refused was credited where it belongs. *)
LEMMA PaySteps ==
  ASSUME TypeOK, Shape, NEW q \in Requests, Pay(q)
  PROVE  /\ PayGrows /\ Others(q) /\ ReqType' /\ mode = "paid"
         /\ req[q].at = "pay" /\ req[q].route \in Starts \cup Topups
         /\ \/ req'[q].at = "refused"
            \/ /\ req'[q].at = IF req[q].route \in Starts THEN "submit" ELSE "apply"
               /\ req'[q].route = req[q].route /\ req'[q].name = req[q].name
               /\ req'[q].work = req[q].work
               /\ req'[q].info = req[q].info /\ req'[q].raced = req[q].raced
               /\ PaysFor(q) \in WorkIDs
               /\ [by |-> q, sender |-> req'[q].sender] \in pay'[PaysFor(q)].credits
               /\ req[q].route = "topup" =>
                    req[q].info.sender \in {None, req'[q].sender}
  <1> DEFINE s == SenderOf[req[q].ticket]
             place == IF req[q].route \in Starts THEN "submit" ELSE "apply"
  <1>t. /\ ReqType /\ PayType /\ req[q].at = "pay" /\ mode = "paid"
        /\ req[q].route \in Starts \cup Topups /\ req[q].ticket \in Tickets
    BY DEF TypeOK, ReqType, PayType, Shape, Shaped, Pay, Idle, Starts, Topups, Reads
  <1>1. Others(q) /\ ReqType'
    BY OneRequest
  <1>2. s \in Senders /\ place \in Places
    BY <1>t DEF Senders, Places
  <1>3. CASE Refuse(q) /\ UNCHANGED pay
    BY <1>t, <1>1, <1>3, PayUnchanged, RefuseFacts
  <1>4. CASE /\ PaysFor(q) \in WorkIDs /\ pay' = Credited(q)
             /\ Refuse(q)
    BY <1>t, <1>1, <1>2, <1>4, CreditedFacts, RefuseFacts
  <1>5. CASE /\ PaysFor(q) \in WorkIDs /\ pay' = Credited(q)
             /\ req[q].route = "topup" => req[q].info.sender \in {None, s}
             /\ req' = [req EXCEPT ![q].at = place, ![q].sender = s]
    <2>1. PayGrows /\ [by |-> q, sender |-> s] \in pay'[PaysFor(q)].credits
      BY <1>t, <1>2, <1>5, CreditedFacts
    <2>2. /\ req'[q].at = place /\ req'[q].sender = s
          /\ req'[q].route = req[q].route /\ req'[q].name = req[q].name
          /\ req'[q].work = req[q].work
          /\ req'[q].info = req[q].info /\ req'[q].raced = req[q].raced
      <3> HIDE DEF s, place
      <3> QED
        BY <1>t, <1>2, <1>5, PaidFacts
    <2> HIDE DEF s
    <2> QED
      BY <1>t, <1>1, <1>5, <2>1, <2>2
  <1> QED
    BY <1>3, <1>4, <1>5 DEF Pay

(* Every step lets the payment sessions grow. *)
LEMMA PayInvariant ==
  ASSUME TypeOK, Shape, [Next]_vars
  PROVE  PayGrows
  <1>t. PayType
    BY DEF TypeOK, PayType
  <1>1. CASE pay' = pay
    BY <1>t, <1>1, PayUnchanged
  <1>2. ASSUME NEW w, pay' = Close(w)
        PROVE  PayGrows
    BY <1>t, <1>2, CloseFacts
  <1>3. ASSUME NEW q \in Requests, RequestStep(q) \/ Arrive(q)
        PROVE  PayGrows
    <2>1. CASE Open(q)
      BY <2>1, OpenSteps
    <2>2. CASE Pay(q)
      BY <2>2, PaySteps
    <2>3. CASE Stop(q)
      BY <2>3, <1>1, <1>2 DEF Stop, Closing
    <2>4. CASE EndClose(q)
      BY <2>4, <1>1, <1>2 DEF EndClose
    <2>5. CASE ~(Open(q) \/ Pay(q) \/ Stop(q) \/ EndClose(q))
      <3>1. pay' = pay
        BY <1>3, <2>5
        DEF RequestStep, Check, SubmitVOD, SubmitABR, Submitted, SubmitStream,
            Upsert, LookupRecord, LookupInfo, TopupTicket, TopupRead, TopupWrite,
            NoLiveRunner, EndPhase, TicketParams, JobStatus, StreamStatus, Found,
            Arrive
      <3> QED
        BY <1>1, <3>1
    <2> QED
      BY <2>1, <2>2, <2>3, <2>4, <2>5
  <1>4. ASSUME NEW n \in Names, RunnerStep(n)
        PROVE  PayGrows
    BY <1>4, <1>1, <1>2 DEF RunnerStep, AcceptFind, AcceptSave, AcceptRefused,
          AcceptRegister, SessionPersists, SessionLeaves, Closing
  <1>5. CASE Restart
    BY <1>5, <1>1 DEF Restart
  <1>6. CASE UNCHANGED vars
    BY <1>6, <1>1 DEF vars
  <1> QED
    BY <1>3, <1>4, <1>5, <1>6 DEF Next, RunnerStep

------------------------------------------------------------------------------
(* What the other steps of a handler come to, as far as payments go: the   *)
(* request is over, or it is the same one, moved on without a payment; a   *)
(* top-up carries on what it has found.                                    *)
TopupPlaces == {"ticket", "pay", "apply", "write"}
Outcome(q) ==
  \/ q \notin accepted' /\ req'[q].at \in {"refused", "done", "dead", "check"}
  \/ /\ SameRequest(q) /\ req'[q].at # "submit"
     /\ req'[q].at = "pay" => req[q].route \notin Starts
     /\ q \in accepted' => q \in accepted \/ req[q].at = "submit"
     /\ req[q].route = "topup" /\ req'[q].at \in TopupPlaces =>
          /\ req[q].at \in {"ticket", "apply"}
          /\ req'[q].info = req[q].info /\ req'[q].raced = req[q].raced
          /\ mode = "paid" /\ req'[q].at \in {"apply", "write"} =>
               req[q].at = "apply"

Quiet(q) ==
  \/ Check(q) \/ SubmitVOD(q) \/ SubmitABR(q) \/ Upsert(q) \/ LookupRecord(q)
  \/ TopupTicket(q) \/ TopupRead(q) \/ TopupWrite(q) \/ NoLiveRunner(q)
  \/ EndPhase(q) \/ EndClose(q) \/ JobStatus(q) \/ StreamStatus(q)
  \/ TicketParams(q) \/ Arrive(q)

(* The steps of Quiet have such an outcome. *)
LEMMA QuietSteps ==
  ASSUME TypeOK, Shape, NEW q \in Requests, Quiet(q)
  PROVE  Others(q) /\ Outcome(q)
  <1>t. /\ ReqType /\ Shaped(q) /\ RoutesAssumption
        /\ req[q].at \notin {"upsert", "done", "dead"} => q \notin accepted
    BY RoutesAssumption DEF TypeOK, ReqType, Shape, Shaped
  <1>o. Others(q)
    BY OneRequest, TicketParamsShape, ArriveShape DEF Quiet
  <1> SUFFICES Outcome(q)
    BY <1>o
  <1>r. ASSUME q \notin accepted', Refuse(q) \/ Answered(q)
        PROVE  Outcome(q)
    BY <1>r, <1>t, RefuseFacts, AnsweredFacts DEF Outcome
  <1>d. ASSUME Goto(q, "done"),
               q \in accepted' => q \in accepted \/ req[q].at = "submit"
        PROVE  Outcome(q)
    BY <1>d, <1>t, GotoFacts DEF Outcome, TopupPlaces, Places
  <1>x. ASSUME q \notin accepted', req' = [req EXCEPT ![q] = Died(q)]
        PROVE  Outcome(q)
    <2>1. Died(q) \in Request /\ Died(q).at = "dead"
      BY <1>t, DiedFacts
    <2>2. req'[q] = Died(q)
      BY <1>x, <2>1, <1>t, Replaced
    <2> QED
      BY <1>x, <2>1, <2>2 DEF Outcome
  <1>1. CASE Check(q)
    <2>1. q \notin accepted' /\ req[q].route \notin Looking \cup Reads
      BY <1>1, <1>t DEF Check
    <2>2. \/ Refuse(q)
          \/ \E place \in {"open", "stop"} : Goto(q, place)
          \/ \E place \in {"pay", "apply"} :
               Goto(q, place) /\ req[q].route \notin Starts
      BY <1>1 DEF Check
    <2> QED
      BY <2>1, <2>2, <1>t, <1>r, GotoFacts
      DEF Outcome, TopupPlaces, Places, Looking, Starts
  <1>2. CASE SubmitVOD(q) \/ SubmitABR(q)
    BY <1>2, <1>t, <1>r, <1>d
    DEF SubmitVOD, SubmitABR, Submitted, Accepted
  <1>3. CASE Upsert(q)
    BY <1>3, <1>d DEF Upsert
  <1>4. CASE LookupRecord(q)
    BY <1>4, <1>t, <1>r, GotoFacts
    DEF LookupRecord, Outcome, Places, TopupPlaces
  <1>5. CASE TopupTicket(q)
    <2>1. q \notin accepted' /\ req[q].route = "topup" /\ req[q].at = "ticket"
      BY <1>5, <1>t DEF TopupTicket, Shaped
    <2>2. \/ Refuse(q)
          \/ mode = "paid" /\ Goto(q, "pay")
          \/ mode # "paid" /\ Goto(q, "apply")
      BY <1>5 DEF TopupTicket
    <2> QED
      BY <2>1, <2>2, <1>t, <1>r, GotoFacts DEF Outcome, Places, Starts
  <1>6. CASE TopupRead(q)
    <2> DEFINE n == req[q].name
               place == IF table[n] = None THEN "done" ELSE "write"
               c == record[n].phase
    <2>1. /\ n \in Names /\ q \notin accepted' /\ req[q].at = "apply"
          /\ req' = [req EXCEPT ![q].at = place, ![q].copy = c]
      BY <1>6, <1>t DEF TopupRead, Shaped, Idle
    <2>2. /\ place \in Places /\ place \in {"done", "write"}
          /\ c \in {"none", "starting", "streaming", "closed"}
      BY <2>1 DEF TypeOK, Places
    <2> HIDE DEF n, place, c
    <2>3. /\ SameRequest(q) /\ req'[q].at = place
          /\ req'[q].info = req[q].info /\ req'[q].raced = req[q].raced
      BY <2>1, <2>2, <1>t, ReadFacts
    <2> QED
      BY <2>1, <2>2, <2>3 DEF Outcome
  <1>7. CASE TopupWrite(q)
    BY <1>7, <1>t, <1>r DEF TopupWrite
  <1>8. CASE NoLiveRunner(q)
    BY <1>8, <1>t, <1>x DEF NoLiveRunner
  <1>9. CASE EndPhase(q)
    BY <1>9, <1>t, PhaseFacts DEF EndPhase, Outcome, TopupPlaces
  <1>10. CASE EndClose(q)
    BY <1>10, <1>t, <1>r DEF EndClose
  <1>11. CASE JobStatus(q) \/ StreamStatus(q)
    BY <1>11, <1>t, <1>r DEF JobStatus, StreamStatus, Found
  <1>12. CASE TicketParams(q)
    <2>1. q \notin accepted' /\ accepted' = accepted
      BY <1>12, <1>t DEF TicketParams
    <2>a. PICK client \in BOOLEAN :
            \E answer \in TicketParamsAnswers[client] :
              CASE answer = "ok" -> Answered(q)
                [] answer = "panic" -> req' = [req EXCEPT ![q] = Died(q)]
                [] OTHER -> Refuse(q)
      BY <1>12, Zenon DEF TicketParams
    <2>2. PICK answer \in TicketParamsAnswers[client] :
            CASE answer = "ok" -> Answered(q)
              [] answer = "panic" -> req' = [req EXCEPT ![q] = Died(q)]
              [] OTHER -> Refuse(q)
      BY <2>a, Zenon
    <2>3. Answered(q) \/ Refuse(q) \/ req' = [req EXCEPT ![q] = Died(q)]
      BY <2>2
    <2> QED
      BY <2>1, <2>3, <1>r, <1>x
  <1>13. CASE Arrive(q)
    BY <1>13, <1>t, ArriveFacts DEF Arrive, Outcome
  <1> QED
    BY <1>1, <1>2, <1>3, <1>4, <1>5, <1>6, <1>7, <1>8, <1>9, <1>10, <1>11,
       <1>12, <1>13 DEF Quiet

------------------------------------------------------------------------------
(* What a start was billed lasts. *)

(* As long as the request is kept, at a place that asks for no more. *)
LEMMA BilledLasts ==
  ASSUME Shape, NEW p \in Requests, BilledTo(p), PayGrows, mode' = mode,
         SameRequest(p), p \in accepted' => p \in accepted \/ req[p].at = "submit",
         req'[p].at = req[p].at \/ req'[p].at # "submit"
  PROVE  BilledTo(p)'
  <1> SUFFICES ASSUME mode = "paid", req'[p].at = "submit" \/ p \in accepted'
               PROVE  Credit(p)'
    BY DEF BilledTo
  <1> DEFINE w == req[p].work
  <1>1. req'[p].work = w /\ req'[p].sender = req[p].sender
    BY DEF SameRequest
  <1>2. w \in WorkIDs /\ Credit(p)
    BY DEF Shape, Shaped, BilledTo, SameRequest, Idle, Starts, Reads
  <1>3. Grows(w)
    BY <1>2 DEF PayGrows
  <1> QED
    BY <1>1, <1>2, <1>3 DEF Credit, Grows

(* Billed is kept by every step. *)
LEMMA BilledInvariant ==
  ASSUME TypeOK, Shape, Billed, [Next]_vars
  PROVE  Billed'
  <1>t. ReqType /\ ReqType' /\ Shape' /\ PayGrows /\ RoutesAssumption
    BY ShapeInvariant, PayInvariant, RoutesAssumption DEF TypeOK, ReqType
  <1>o. ASSUME NEW q \in Requests, Others(q), mode' = mode, BilledTo(q)',
               accepted' = accepted \/ accepted' = accepted \cup {q}
        PROVE  Billed'
    <2>1. ASSUME NEW p \in Requests \ {q}
          PROVE  BilledTo(p)'
      BY <1>o, <2>1, <1>t, BilledLasts DEF Billed, Others, SameRequest
    <2> QED
      BY <1>o, <2>1 DEF Billed
  <1>k. ASSUME mode' = mode, NEW q \in Requests,
               accepted' = accepted \cup {q} \/ accepted' = accepted,
               q \in accepted' => q \in accepted \/ req[q].at = "submit",
               SameRequest(q), req'[q].at # "submit",
               \A p \in Requests \ {q} : Kept(p)
        PROVE  Billed'
    <2>1. ASSUME NEW p \in Requests
          PROVE  BilledTo(p)'
      BY <1>k, <2>1, <1>t, BilledLasts DEF Billed, Kept
    <2> QED
      BY <2>1 DEF Billed
  <1>1. ASSUME NEW q \in Requests, Open(q)
        PROVE  Billed'
    <2>1. mode' = mode /\ accepted' = accepted /\ q \notin accepted
      BY <1>1 DEF Open, built, Shape, Shaped
    <2>2. BilledTo(q)'
      BY <1>1, <2>1, <1>t, OpenSteps DEF BilledTo
    <2> QED
      BY <1>1, <1>o, <2>1, <2>2, OpenSteps
  <1>2. ASSUME NEW q \in Requests, Pay(q)
        PROVE  Billed'
    <2>1. mode' = mode /\ accepted' = accepted /\ q \notin accepted
      BY <1>2 DEF Pay, built, Shape, Shaped
    <2>2. BilledTo(q)'
      <3>1. CASE req'[q].at = "submit"
        <4>1. /\ req'[q].work = req[q].work /\ PaysFor(q) = req[q].work
              /\ [by |-> q, sender |-> req'[q].sender] \in pay'[req[q].work].credits
          BY <1>2, <3>1, PaySteps DEF PaysFor, Starts
        <4> QED
          BY <4>1 DEF BilledTo, Credit
      <3>2. CASE req'[q].at # "submit"
        BY <1>2, <2>1, <3>2, PaySteps DEF BilledTo
      <3> QED
        BY <3>1, <3>2
    <2> QED
      BY <1>2, <1>o, <2>1, <2>2, PaySteps
  <1>3. ASSUME NEW q \in Requests, Quiet(q)
        PROVE  Billed'
    <2>1. Others(q) /\ Outcome(q)
      BY <1>3, QuietSteps
    <2>2. mode' = mode /\ (accepted' = accepted \/ accepted' = accepted \cup {q})
      BY <1>3
      DEF Quiet, Check, SubmitVOD, SubmitABR, Submitted, Accepted, Upsert,
          LookupRecord, TopupTicket, TopupRead, TopupWrite, NoLiveRunner, EndPhase,
          EndClose, JobStatus, StreamStatus, Found, TicketParams, Arrive, built
    <2>3. CASE q \in accepted'
      <3>1. /\ SameRequest(q) /\ (q \in accepted \/ req[q].at = "submit")
            /\ req'[q].at # "submit"
        BY <2>1, <2>3, <1>t DEF Outcome, Shape, Shaped
      <3>2. BilledTo(q)'
        BY <3>1, <2>2, <1>t, BilledLasts DEF Billed
      <3> QED
        BY <3>2, <2>1, <2>2, <1>o
    <2>4. CASE q \notin accepted'
      <3>1. BilledTo(q)'
        BY <2>1, <2>4 DEF Outcome, BilledTo, SameRequest
      <3> QED
        BY <3>1, <2>1, <2>2, <1>o
    <2> QED
      BY <2>3, <2>4
  <1>4. ASSUME NEW q \in Requests, LookupInfo(q)
        PROVE  Billed'
    <2>1. mode' = mode /\ accepted' = accepted
      BY <1>4 DEF LookupInfo, built
    <2>2. Others(q) /\ SameRequest(q) /\ req'[q].at # "submit"
      BY <1>4, LookupInfoFacts
    <2>3. BilledTo(q)'
      BY <2>1, <2>2, <1>t, BilledLasts DEF Billed
    <2> QED
      BY <2>1, <2>2, <2>3, <1>o
  <1>5. ASSUME NEW q \in Requests, SubmitStream(q)
        PROVE  Billed'
    <2>1. /\ req[q].at = "submit" /\ mode' = mode /\ q \notin accepted
          /\ \/ Others(q) /\ req'[q].at = "refused" /\ accepted' = accepted
             \/ /\ accepted' = accepted \cup {q} /\ SameRequest(q)
                /\ req'[q].at \in {"upsert", "done"}
                /\ \A p \in Requests \ {q} : Kept(p)
      BY <1>5, SubmitStreamFacts DEF built, StreamStarts
    <2>2. CASE Others(q) /\ req'[q].at = "refused" /\ accepted' = accepted
      BY <2>1, <2>2, <1>o DEF BilledTo
    <2> QED
      BY <2>1, <2>2, <1>k
  <1>6. ASSUME NEW q \in Requests, Stop(q)
        PROVE  Billed'
    <2>1. /\ mode' = mode /\ SameRequest(q) /\ accepted' = accepted
          /\ req'[q].at \in {"close", "done"} /\ \A p \in Requests \ {q} : Kept(p)
      BY <1>6, StopFacts DEF built
    <2> QED
      BY <2>1, <1>k
  <1>7. ASSUME NEW n \in Names, RunnerStep(n)
        PROVE  Billed'
    <2>1. mode' = mode /\ accepted' = accepted /\ (req' = req \/ req' = Race(req, n))
      BY <1>7 DEF RunnerStep, AcceptFind, AcceptSave, AcceptRefused,
          AcceptRegister, SessionPersists, SessionLeaves, built
    <2>2. \A p \in Requests : Kept(p)
      BY <2>1, <1>t, RacedFacts DEF Kept, SameRequest
    <2> QED
      BY <2>1, <2>2, <1>t, BilledLasts DEF Billed, Kept
  <1>8. ASSUME Restart
        PROVE  Billed'
    <2>1. mode' = mode /\ accepted' = accepted
      BY <1>8 DEF Restart
    <2>2. ASSUME NEW p \in Requests
          PROVE  BilledTo(p)'
      <3>1. CASE p \in accepted \/ req'[p] = req[p]
        <4>1. SameRequest(p) /\ (req'[p].at = req[p].at \/ req'[p].at = "dead")
          BY <1>8, <1>t, <3>1, RestartFacts DEF SameRequest
        <4> QED
          BY <4>1, <2>1, <1>t, BilledLasts DEF Billed
      <3>2. CASE p \notin accepted /\ req'[p].at = "dead"
        BY <3>2, <2>1 DEF BilledTo
      <3> QED
        BY <1>8, <1>t, <3>1, <3>2, RestartFacts
    <2> QED
      BY <2>2 DEF Billed
  <1>9. CASE UNCHANGED vars
    BY <1>9 DEF vars, Billed, BilledTo, Credit
  <1> QED
    BY <1>1, <1>2, <1>3, <1>4, <1>5, <1>6, <1>7, <1>8, <1>9
    DEF Next, RequestStep, RunnerStep, Quiet

------------------------------------------------------------------------------
(* The records, the entries and the registry. *)
Phases == {"none", "starting", "streaming", "closed"}
Record == [phase : Phases, info : Info]
RecType == record \in [Names -> Record]

(* A record's phase is saved; whose session it is of stays. *)
SavedAs(n, v) ==
  /\ RecType' /\ record'[n].phase = v
  /\ \A m \in Names : record'[m].info = record[m].info
  /\ \A m \in Names \ {n} : record'[m] = record[m]

(* Saving a phase does no more than SavedAs says. *)
LEMMA SavedFacts ==
  ASSUME RecType, NEW n \in Names
  PROVE  \A v \in Phases : record' = [record EXCEPT ![n].phase = v] => SavedAs(n, v)
  <1> SUFFICES ASSUME NEW v \in Phases, record' = [record EXCEPT ![n].phase = v]
               PROVE  SavedAs(n, v)
    OBVIOUS
  <1> DEFINE r == [record[n] EXCEPT !.phase = v]
  <1>1. record[n] \in Record
    BY DEF RecType
  <1>2. r \in Record /\ r.phase = v /\ r.info = record[n].info
    BY <1>1 DEF Record
  <1>3. record' = [record EXCEPT ![n] = r]
    OBVIOUS
  <1> HIDE DEF r
  <1> QED
    BY <1>2, <1>3 DEF RecType, SavedAs

(* A record is made for a session that begins. *)
LEMMA BegunFacts ==
  ASSUME RecType, NEW n \in Names, NEW v \in Phases, NEW i \in Info,
         record' = [record EXCEPT ![n] = [phase |-> v, info |-> i]]
  PROVE  /\ RecType' /\ record'[n].phase = v /\ record'[n].info = i
         /\ \A m \in Names \ {n} : record'[m] = record[m]
  <1> DEFINE r == [phase |-> v, info |-> i]
  <1>1. r \in Record /\ r.phase = v /\ r.info = i
    BY DEF Record
  <1> HIDE DEF r
  <1>2. record' = [record EXCEPT ![n] = r]
    BY DEF r
  <1> QED
    BY <1>1, <1>2 DEF RecType

(* What a start hands over of its payment session. *)
LEMMA InfoOfFacts ==
  ASSUME ReqType, NEW q \in Requests
  PROVE  /\ InfoOf(q) \in Info
         /\ InfoOf(q).work = req[q].work /\ InfoOf(q).sender = req[q].sender
  BY DEF ReqType, Request, InfoOf, Info

(* What the runner and the registry keep. *)
StreamsType ==
  /\ table \in [Names -> {None, "pending", "running", "leaving"}]
  /\ entry \in [Names -> Info] /\ accept \in [Names -> Acceptance]
RegType == registry \in [Names -> Info] /\ stale \subseteq Names
StateType == StreamsType /\ RecType /\ RegType

(* No connection is one. *)
LEMMA NoConnectionFacts ==
  NoConnection \in Acceptance /\ NoConnection.info = NoInfo /\ NoInfo.sender = None
  BY FreshType DEF NoConnection, Acceptance, NoInfo

(* What a step leaves alone that names no session: records keep their      *)
(* owner, entries and the registry may be forgotten, a connection may take *)
(* what its entry says.                                                    *)
OwnersKept ==
  /\ mode' = mode /\ stale' = stale
  /\ \A n \in Names :
       /\ record'[n].info = record[n].info
       /\ entry'[n] \in {entry[n], NoInfo}
       /\ accept'[n].info \in {accept[n].info, entry[n], NoInfo}
       /\ registry'[n] \in {registry[n], NoInfo}

(* Such a step keeps Named, *)
LEMMA OwnersKeepNamed ==
  ASSUME Named, OwnersKept
  PROVE  Named'
  <1>1. NoInfo.sender = None
    BY DEF NoInfo
  <1> QED
    BY <1>1 DEF Named, NamedAs, Usable, OwnersKept

SameName(m) ==
  /\ record'[m].info = record[m].info /\ entry'[m] = entry[m]
  /\ accept'[m].info = accept[m].info /\ registry'[m] = registry[m]
  /\ m \in stale' <=> m \in stale

(* and a step on one name keeps what is said of the others. *)
LEMMA NamedOthers ==
  ASSUME Named, mode' = mode, NEW n \in Names, NamedAs(n)',
         \A m \in Names \ {n} : SameName(m)
  PROVE  Named'
  BY DEF Named, NamedAs, Usable, SameName

(* The steps that touch neither the runner's state nor a record. *)
LEMMA StreamsUntouched ==
  ASSUME NEW q \in Requests,
         \/ Check(q) \/ Open(q) \/ Pay(q) \/ SubmitVOD(q) \/ SubmitABR(q)
         \/ LookupInfo(q) \/ TopupTicket(q) \/ TopupRead(q) \/ NoLiveRunner(q)
         \/ EndPhase(q) \/ TicketParams(q) \/ JobStatus(q) \/ StreamStatus(q)
         \/ Arrive(q)
  PROVE  UNCHANGED <<mode, table, entry, accept, record, registry, stale>>
  BY DEF Check, Open, Pay, SubmitVOD, SubmitABR, Submitted, LookupInfo,
         TopupTicket, TopupRead, NoLiveRunner, EndPhase, TicketParams,
         JobStatus, StreamStatus, Found, Arrive, built, live, streams

(* A start's entry and record name its own payment session. *)
LEMMA StreamStartsFacts ==
  ASSUME TypeOK, Shape, Named, NEW q \in Requests, SubmitStream(q), StreamStarts(q)
  PROVE  StateType' /\ Named' /\ \A m \in Names \ {req[q].name} : SameName(m)
  <1>n. PICK n \in Names : n = req[q].name
    BY SubmitStreamFacts
  <1> DEFINE i == InfoOf(q)
  <1>1. /\ StateType /\ n \in Names /\ i \in Info /\ mode' = mode
        /\ registry' = registry /\ accept' = accept
        /\ mode = "paid" => Usable(i)
    BY <1>n, SubmitStreamFacts, InfoOfFacts
    DEF TypeOK, StateType, StreamsType, RegType, RecType, Record, Phases, ReqType,
        built, Shape, Shaped, Idle, Reads, Usable
  <1>2. /\ record' = [record EXCEPT ![n] = [phase |-> "starting", info |-> i]]
        /\ table' = [table EXCEPT ![n] = "pending"]
        /\ entry' = [entry EXCEPT ![n] = i]
        /\ stale' = IF registry[n] \in {NoInfo, i} THEN stale \ {n}
                                                   ELSE stale \cup {n}
    BY <1>n DEF StreamStarts
  <1> HIDE DEF i
  <1>3. /\ RecType' /\ record'[n].phase = "starting" /\ record'[n].info = i
        /\ \A m \in Names \ {n} : record'[m] = record[m]
    BY <1>1, <1>2, BegunFacts DEF Phases, StateType
  <1>4. /\ StreamsType' /\ RegType' /\ entry'[n] = i
        /\ \A m \in Names \ {n} : entry'[m] = entry[m]
    BY <1>1, <1>2 DEF StateType, StreamsType, RegType
  <1>5. \A m \in Names \ {n} : SameName(m)
    BY <1>1, <1>2, <1>3, <1>4 DEF SameName
  <1>6. NamedAs(n)'
    <2>1. mode = "paid" => Usable(accept'[n].info)
      BY <1>1 DEF Named, NamedAs
    <2>2. n \notin stale' => registry'[n] \in {NoInfo, i}
      BY <1>1, <1>2
    <2> QED
      BY <1>1, <1>3, <1>4, <2>1, <2>2 DEF NamedAs, Usable
  <1> QED
    BY <1>1, <1>3, <1>4, <1>5, <1>6, <1>n, NamedOthers DEF StateType

(* The registry is told of a session that may be gone. *)
LEMMA UpsertFacts ==
  ASSUME TypeOK, Shape, Named, NEW q \in Requests, Upsert(q)
  PROVE  StateType' /\ Named'
  <1>n. PICK n \in Names : n = req[q].name
    BY DEF Upsert, Shape, Shaped, Idle
  <1> DEFINE i == InfoOf(q)
  <1>1. /\ StateType /\ n \in Names /\ i \in Info /\ mode' = mode
        /\ UNCHANGED <<table, entry, accept, record>>
    BY <1>n, InfoOfFacts
    DEF Upsert, TypeOK, StateType, StreamsType, RegType, RecType, Record, Phases,
        ReqType, built, streams, Shape, Shaped, Idle
  <1>2. /\ registry' = [registry EXCEPT ![n] = i]
        /\ stale' = IF record[n].info = i /\ entry[n] \in {NoInfo, i}
                    THEN stale \ {n} ELSE stale \cup {n}
    BY <1>n DEF Upsert
  <1> HIDE DEF i
  <1>3. /\ StateType' /\ registry'[n] = i
        /\ \A m \in Names \ {n} : SameName(m)
    BY <1>1, <1>2 DEF StateType, StreamsType, RecType, RegType, SameName
  <1>4. NamedAs(n)'
    <2>1. mode = "paid" =>
            /\ Usable(record'[n].info) /\ Usable(entry'[n])
            /\ Usable(accept'[n].info)
      BY <1>1 DEF Named, NamedAs
    <2>2. n \notin stale' => record'[n].info = i /\ entry'[n] \in {NoInfo, i}
      BY <1>1, <1>2
    <2>3. NoInfo.sender = None
      BY DEF NoInfo
    <2> QED
      BY <1>1, <1>3, <2>1, <2>2, <2>3 DEF NamedAs
  <1> QED
    BY <1>1, <1>3, <1>4, NamedOthers

(* Stop saves a pending entry's own record, and forgets the entry. *)
LEMMA StopKeeps ==
  ASSUME TypeOK, Shape, Named, NEW q \in Requests, Stop(q)
  PROVE  /\ StateType' /\ Named'
         /\ \A m \in Names : entry'[m] \in {entry[m], NoInfo}
  <1>n. PICK n \in Names : n = req[q].name
    BY StopFacts
  <1>1. /\ StateType /\ n \in Names /\ mode' = mode
        /\ UNCHANGED <<accept, registry, stale>>
    BY <1>n, StopFacts
    DEF TypeOK, StateType, StreamsType, RegType, RecType, Record, Phases, built
  <1>2. table' = [table EXCEPT ![n] = None] /\ entry' = [entry EXCEPT ![n] = NoInfo]
    BY <1>n DEF Stop, Forget
  <1>3. \/ record' = [record EXCEPT ![n] = [phase |-> "closed", info |-> entry[n]]]
        \/ record' = [record EXCEPT ![n].phase = "closed"]
        \/ record' = [record EXCEPT ![n] = record[n]]
    BY <1>n DEF Stop
  <1>4. /\ StreamsType' /\ RegType' /\ entry'[n] = NoInfo
        /\ \A m \in Names \ {n} : entry'[m] = entry[m]
    BY <1>1, <1>2, FreshType DEF StateType, StreamsType, RegType
  <1>5. /\ RecType' /\ record'[n].info \in {record[n].info, entry[n]}
        /\ \A m \in Names \ {n} : record'[m] = record[m]
    <2>1. CASE record' = [record EXCEPT ![n] = [phase |-> "closed",
                                                info |-> entry[n]]]
      <3>1. entry[n] \in Info /\ "closed" \in Phases /\ RecType
        BY <1>1 DEF StateType, StreamsType, Phases
      <3> QED
        BY <1>1, <2>1, <3>1, BegunFacts
    <2>2. CASE record' = [record EXCEPT ![n].phase = "closed"]
      BY <1>1, <2>2, SavedFacts DEF StateType, SavedAs, Phases
    <2>3. CASE record' = [record EXCEPT ![n] = record[n]]
      BY <1>1, <2>3 DEF StateType, RecType
    <2> QED
      BY <1>3, <2>1, <2>2, <2>3
  <1>6. \A m \in Names \ {n} : SameName(m)
    BY <1>1, <1>4, <1>5 DEF SameName
  <1>7. NamedAs(n)'
    <2>1. NamedAs(n) /\ NoInfo.sender = None
      BY <1>1 DEF Named, NoInfo
    <2> QED
      BY <1>1, <1>4, <1>5, <2>1 DEF NamedAs, Usable
  <1> QED
    BY <1>1, <1>4, <1>5, <1>6, <1>7, NamedOthers DEF StateType

(* A connection's record names the session it found: it may not be that of *)
(* the record before.                                                      *)
LEMMA AcceptSaveFacts ==
  ASSUME TypeOK, Named, NEW n \in Names, AcceptSave(n)
  PROVE  StateType' /\ Named'
  <1> DEFINE i == accept[n].info
             a == [accept[n] EXCEPT !.at = "saved"]
  <1>1. /\ StateType /\ mode' = mode /\ UNCHANGED <<table, entry, registry>>
        /\ accept[n] \in Acceptance /\ i \in Info
    BY DEF AcceptSave, TypeOK, StateType, StreamsType, RegType, RecType, Record,
           Phases, built, Acceptance
  <1>2. a \in Acceptance /\ a.info = i
    BY <1>1 DEF Acceptance
  <1>3. /\ record' = [record EXCEPT ![n] = [phase |-> "streaming", info |-> i]]
        /\ accept' = [accept EXCEPT ![n] = a]
        /\ stale' = IF record[n].info # i THEN stale \cup {n} ELSE stale
    BY DEF AcceptSave
  <1> HIDE DEF a, i
  <1>4. /\ RecType' /\ record'[n].info = i
        /\ \A m \in Names \ {n} : record'[m] = record[m]
    BY <1>1, <1>3, BegunFacts DEF Phases, StateType
  <1>5. /\ StreamsType' /\ RegType' /\ accept'[n].info = i
        /\ \A m \in Names \ {n} : accept'[m] = accept[m]
    BY <1>1, <1>2, <1>3 DEF StateType, StreamsType, RegType
  <1>6. \A m \in Names \ {n} : SameName(m)
    BY <1>1, <1>3, <1>4, <1>5 DEF SameName
  <1>7. NamedAs(n)'
    <2>1. NamedAs(n) /\ (mode = "paid" => Usable(i))
      BY DEF Named, NamedAs, i
    <2>2. n \notin stale' => record'[n].info = record[n].info /\ n \notin stale
      BY <1>1, <1>3, <1>4
    <2> QED
      BY <1>1, <1>4, <1>5, <2>1, <2>2 DEF NamedAs, Usable
  <1> QED
    BY <1>1, <1>4, <1>5, <1>6, <1>7, NamedOthers DEF StateType

(* It is registered as the session it found. *)
LEMMA AcceptRegisterFacts ==
  ASSUME TypeOK, Named, NEW n \in Names, AcceptRegister(n)
  PROVE  /\ StateType' /\ Named' /\ entry'[n] = accept[n].info
         /\ \A m \in Names \ {n} : entry'[m] = entry[m]
  <1> DEFINE i == accept[n].info
  <1>1. /\ StateType /\ mode' = mode /\ UNCHANGED <<record, registry>>
        /\ accept[n] \in Acceptance /\ i \in Info
    BY DEF AcceptRegister, TypeOK, StateType, StreamsType, RegType, RecType, Record,
           Phases, built, Acceptance
  <1>2. /\ accept' = [accept EXCEPT ![n] = NoConnection]
        /\ table' = [table EXCEPT ![n] = "running"]
        /\ entry' = [entry EXCEPT ![n] = i]
        /\ stale' = IF record[n].info # i THEN stale \cup {n} ELSE stale
    BY DEF AcceptRegister
  <1> HIDE DEF i
  <1>3. /\ StateType' /\ entry'[n] = i /\ accept'[n].info = NoInfo
        /\ \A m \in Names \ {n} : entry'[m] = entry[m] /\ accept'[m] = accept[m]
    BY <1>1, <1>2, NoConnectionFacts DEF StateType, StreamsType, RecType, RegType
  <1>4. \A m \in Names \ {n} : SameName(m)
    BY <1>1, <1>2, <1>3 DEF SameName
  <1>5. NamedAs(n)'
    <2>1. NamedAs(n) /\ (mode = "paid" => Usable(i)) /\ NoInfo.sender = None
      BY DEF Named, NamedAs, i, NoInfo
    <2>2. n \notin stale' => record'[n].info = i /\ n \notin stale
      BY <1>1, <1>2
    <2> QED
      BY <1>1, <1>3, <2>1, <2>2 DEF NamedAs, Usable
  <1> QED
    BY <1>1, <1>3, <1>4, <1>5, NamedOthers DEF i

(* The remaining steps on the runner's state. *)
LEMMA OtherStreamSteps ==
  ASSUME TypeOK, Shape, [Next]_vars
  PROVE  \/ StateType' /\ OwnersKept
         \/ \E q \in Requests : SubmitStream(q) /\ StreamStarts(q)
         \/ \E q \in Requests : Upsert(q) \/ Stop(q)
         \/ \E n \in Names : AcceptSave(n) \/ AcceptRegister(n)
  <1>t. StateType /\ ReqType /\ \A n \in Names : accept[n] \in Acceptance
    BY DEF TypeOK, StateType, StreamsType, RegType, RecType, ReqType, Record, Phases
  <1>u. ASSUME UNCHANGED <<mode, table, entry, accept, record, registry, stale>>
        PROVE  StateType' /\ OwnersKept
    BY <1>u, <1>t DEF StateType, StreamsType, RegType, RecType, OwnersKept
  <1>1. ASSUME NEW q \in Requests, TopupWrite(q)
        PROVE  StateType' /\ OwnersKept
    <2> DEFINE n == req[q].name
               v == req[q].copy
    <2>1. n \in Names /\ v \in Phases /\ record' = [record EXCEPT ![n].phase = v]
      BY <1>1, <1>t DEF TopupWrite, Shape, Shaped, Idle, ReqType, Request, Phases
    <2>2. UNCHANGED <<mode, table, entry, accept, registry, stale>>
      BY <1>1 DEF TopupWrite, built, streams
    <2> HIDE DEF n, v
    <2>3. RecType' /\ \A m \in Names : record'[m].info = record[m].info
      BY <2>1, <1>t, SavedFacts DEF SavedAs, StateType
    <2> QED
      BY <2>2, <2>3, <1>t DEF StateType, StreamsType, RegType, OwnersKept
  <1>2. ASSUME NEW q \in Requests, LookupRecord(q) \/ EndClose(q)
        PROVE  StateType' /\ OwnersKept
    <2> DEFINE n == req[q].name
    <2>1. UNCHANGED <<mode, table, entry, accept, record, stale>>
      BY <1>2 DEF LookupRecord, EndClose, built, streams
    <2>2. registry' = registry \/ registry' = [registry EXCEPT ![n] = NoInfo]
      BY <1>2 DEF LookupRecord, EndClose
    <2> HIDE DEF n
    <2>3. /\ registry' \in [Names -> Info]
          /\ \A m \in Names : registry'[m] \in {registry[m], NoInfo}
      BY <2>2, <1>t, FreshType DEF StateType, RegType
    <2> QED
      BY <2>1, <2>3, <1>t DEF StateType, StreamsType, RegType, RecType, OwnersKept
  <1>3. ASSUME NEW q \in Requests, SubmitStream(q), ~StreamStarts(q)
        PROVE  StateType' /\ OwnersKept
    BY <1>3, <1>u, SubmitStreamFacts DEF built
  <1>4. ASSUME NEW n \in Names, AcceptFind(n) \/ AcceptRefused(n)
        PROVE  StateType' /\ OwnersKept
    <2> DEFINE a == IF AcceptFind(n) THEN [at |-> "found", info |-> entry[n]]
                    ELSE NoConnection
    <2>1. UNCHANGED <<mode, table, entry, record, registry, stale>>
      BY <1>4 DEF AcceptFind, AcceptRefused, built
    <2>2. a \in Acceptance /\ a.info \in {entry[n], NoInfo}
      BY <1>t, NoConnectionFacts DEF Acceptance, StateType, StreamsType
    <2>3. accept' = [accept EXCEPT ![n] = a]
      BY <1>4 DEF AcceptFind, AcceptRefused
    <2> HIDE DEF a
    <2>4. /\ accept' \in [Names -> Acceptance] /\ accept'[n] = a
          /\ \A m \in Names \ {n} : accept'[m] = accept[m]
      BY <2>2, <2>3, <1>t DEF StateType, StreamsType
    <2> QED
      BY <2>1, <2>2, <2>4, <1>t DEF StateType, StreamsType, RegType, RecType, OwnersKept
  <1>5. ASSUME NEW n \in Names, SessionPersists(n)
        PROVE  StateType' /\ OwnersKept
    <2>1. RecType' /\ \A m \in Names : record'[m].info = record[m].info
      BY <1>5, <1>t, SavedFacts DEF SessionPersists, SavedAs, StateType, Phases
    <2>2. /\ UNCHANGED <<mode, entry, accept, registry, stale>>
          /\ table' = [table EXCEPT ![n] = "leaving"]
      BY <1>5 DEF SessionPersists, built
    <2> QED
      BY <2>1, <2>2, <1>t DEF StateType, StreamsType, RegType, OwnersKept
  <1>6. ASSUME NEW n \in Names, SessionLeaves(n)
        PROVE  StateType' /\ OwnersKept
    <2>1. /\ UNCHANGED <<mode, record, accept, registry, stale>>
          /\ table' = [table EXCEPT ![n] = None]
          /\ entry' = [entry EXCEPT ![n] = NoInfo]
      BY <1>6 DEF SessionLeaves, Forget, built
    <2>2. /\ entry' \in [Names -> Info]
          /\ \A m \in Names : entry'[m] \in {entry[m], NoInfo}
      BY <2>1, <1>t, FreshType DEF StateType, StreamsType
    <2> QED
      BY <2>1, <2>2, <1>t DEF StateType, StreamsType, RegType, RecType, OwnersKept
  <1>7. CASE Restart
    <2>1. /\ UNCHANGED <<mode, record, stale>>
          /\ table' = [n \in Names |-> None]
          /\ entry' = [n \in Names |-> NoInfo]
          /\ accept' = [n \in Names |-> NoConnection]
          /\ registry' = [n \in Names |-> NoInfo]
      BY <1>7 DEF Restart
    <2> QED
      BY <2>1, <1>t, FreshType, NoConnectionFacts
      DEF StateType, StreamsType, RegType, RecType, OwnersKept
  <1>8. CASE UNCHANGED vars
    BY <1>8, <1>u DEF vars
  <1>9. ASSUME NEW q \in Requests, RequestStep(q) \/ Arrive(q),
               ~Upsert(q), ~Stop(q), ~(SubmitStream(q) /\ StreamStarts(q))
        PROVE  StateType' /\ OwnersKept
    BY <1>9, <1>1, <1>2, <1>3, <1>u, StreamsUntouched DEF RequestStep
  <1> QED
    BY <1>4, <1>5, <1>6, <1>7, <1>8, <1>9 DEF Next

(* Where no other session came between, the entry, the record and the      *)
(* registry name one payment session.                                      *)
LEMMA NamedInvariant ==
  ASSUME TypeOK, Shape, Named, [Next]_vars
  PROVE  StateType' /\ Named'
  BY OtherStreamSteps, OwnersKeepNamed, StreamStartsFacts, UpsertFacts, StopKeeps,
     AcceptSaveFacts, AcceptRegisterFacts

------------------------------------------------------------------------------
(* What top-ups find. *)
EntriesKept == \A n \in Names : entry'[n] \in {entry[n], NoInfo}

(* An entry is charged to another session only where one begins, or where  *)
(* a connection is registered.                                             *)
LEMMA Entries ==
  ASSUME TypeOK, Shape, Named, [Next]_vars
  PROVE  \/ EntriesKept
         \/ \E q \in Requests : SubmitStream(q) /\ StreamStarts(q)
         \/ \E n \in Names : AcceptRegister(n)
  <1>1. ASSUME NEW q \in Requests, Upsert(q)
        PROVE  EntriesKept
    BY <1>1 DEF Upsert, EntriesKept, streams
  <1>2. ASSUME NEW n \in Names, AcceptSave(n)
        PROVE  EntriesKept
    BY <1>2 DEF AcceptSave, EntriesKept
  <1>3. ASSUME NEW q \in Requests, Stop(q)
        PROVE  EntriesKept
    BY <1>3, StopKeeps DEF EntriesKept
  <1>4. OwnersKept => EntriesKept
    BY DEF OwnersKept, EntriesKept
  <1> QED
    BY <1>1, <1>2, <1>3, <1>4, OtherStreamSteps

(* A request that is kept keeps what it has found, unless its session      *)
(* changed and it was marked.                                              *)
LEMMA FoundKept ==
  ASSUME Shape, PayGrows, mode' = mode, NEW p \in Requests, FoundBy(p), Kept(p),
         \/ entry'[req[p].name] \in {entry[req[p].name], NoInfo}
         \/ req[p].route = "topup" /\ req[p].at \in Midway => req'[p].raced
  PROVE  FoundBy(p)'
  <1> SUFFICES ASSUME req[p].route = "topup", mode = "paid"
               PROVE  FoundBy(p)'
    BY DEF FoundBy, Kept, SameRequest
  <1>1. /\ req'[p].name = req[p].name /\ req'[p].at = req[p].at
        /\ req'[p].info = req[p].info
    BY DEF Kept, SameRequest
  <1>2. /\ /\ req[p].at \in TopupPlaces /\ ~req'[p].raced
           /\ entry'[req[p].name].sender # None
        => req[p].info = entry'[req[p].name]
    <2>1. NoInfo.sender = None
      BY DEF NoInfo
    <2> QED
      BY <2>1 DEF FoundBy, Kept, Midway, TopupPlaces
  <1>3. req[p].at \in {"apply", "write"} /\ req[p].info.sender # None =>
          /\ req[p].info.work \in WorkIDs
          /\ [by |-> p, sender |-> req[p].info.sender]
               \in pay'[req[p].info.work].credits
    BY DEF FoundBy, PayGrows, Grows
  <1> QED
    BY <1>1, <1>2, <1>3 DEF FoundBy, TopupPlaces

(* What top-ups have found stays true, or they are marked. *)
LEMMA FoundInvariant ==
  ASSUME TypeOK, Shape, Named, FoundRight, [Next]_vars
  PROVE  FoundRight'
  <1>t. /\ ReqType /\ PayGrows /\ RoutesAssumption /\ NoInfo.sender = None
        /\ \A p \in Requests : FoundBy(p)
    BY PayInvariant, RoutesAssumption DEF TypeOK, ReqType, FoundRight, NoInfo
  <1>n. \A p \in Requests : req[p].at \in Midway => req[p].name \in Names
    BY DEF Shape, Shaped, Midway, Idle
  <1>k. ASSUME NEW p \in Requests, Kept(p), EntriesKept, mode' = mode
        PROVE  FoundBy(p)'
    <2>1. CASE req[p].at \in Midway
      BY <1>k, <2>1, <1>t, <1>n, FoundKept DEF EntriesKept
    <2>2. CASE req[p].at \notin Midway
      BY <1>k, <2>2 DEF Kept, FoundBy, Midway
    <2> QED
      BY <2>1, <2>2
  <1>o. ASSUME NEW q \in Requests, Others(q), EntriesKept, mode' = mode, FoundBy(q)'
        PROVE  FoundRight'
    <2>1. \A p \in Requests \ {q} : Kept(p)
      BY <1>o DEF Others, Kept, SameRequest
    <2> QED
      BY <1>o, <1>k, <2>1 DEF FoundRight
  <1>m. ASSUME NEW p \in Requests, NEW n \in Names, Kept(p), Marked(n), mode' = mode,
               \A m \in Names \ {n} : entry'[m] = entry[m]
        PROVE  FoundBy(p)'
    <2>1. CASE req[p].at \in Midway /\ req[p].name # n
      BY <1>m, <2>1, <1>t, <1>n, FoundKept
    <2>2. CASE req[p].at \in Midway /\ req[p].name = n
      <3>1. req[p].route = "topup" /\ req[p].at \in Midway => req'[p].raced
        BY <1>m, <2>2 DEF Marked
      <3> QED
        BY <1>m, <3>1, <1>t, FoundKept
    <2>3. CASE req[p].at \notin Midway
      BY <1>m, <2>3 DEF Kept, FoundBy, Midway
    <2> QED
      BY <2>1, <2>2, <2>3
  <1>1. ASSUME NEW q \in Requests, SubmitStream(q), StreamStarts(q)
        PROVE  FoundRight'
    <2> DEFINE n == req[q].name
    <2>1. /\ n \in Names /\ mode' = mode /\ Marked(n) /\ SameRequest(q)
          /\ req[q].route # "topup" /\ q \notin accepted
          /\ \A p \in Requests \ {q} : Kept(p)
      <3>1. accepted' # accepted \/ q \in accepted
        BY <1>1 DEF StreamStarts
      <3> QED
        BY <1>1, <3>1, SubmitStreamFacts DEF built
    <2>2. \A m \in Names \ {n} : entry'[m] = entry[m]
      BY <1>1, <2>1, StreamStartsFacts DEF SameName
    <2>3. FoundBy(q)'
      BY <2>1 DEF FoundBy, SameRequest
    <2> HIDE DEF n
    <2> QED
      BY <1>m, <2>1, <2>2, <2>3 DEF FoundRight
  <1>2. ASSUME NEW n \in Names, AcceptRegister(n)
        PROVE  FoundRight'
    <2>1. /\ mode' = mode
          /\ req' = IF entry[n] = accept[n].info THEN req ELSE Race(req, n)
      BY <1>2 DEF AcceptRegister, built
    <2>2. CASE entry[n] = accept[n].info
      <3>1. EntriesKept
        BY <1>2, <2>2, AcceptRegisterFacts DEF EntriesKept
      <3>2. \A p \in Requests : Kept(p)
        BY <2>1, <2>2 DEF Kept, SameRequest
      <3> QED
        BY <2>1, <3>1, <3>2, <1>k DEF FoundRight
    <2>3. CASE entry[n] # accept[n].info
      <3>1. Marked(n) /\ \A p \in Requests : Kept(p)
        BY <2>1, <2>3, <1>t, RacedFacts
      <3>2. \A m \in Names \ {n} : entry'[m] = entry[m]
        BY <1>2, AcceptRegisterFacts
      <3> QED
        BY <2>1, <3>1, <3>2, <1>m DEF FoundRight
    <2> QED
      BY <2>2, <2>3
  <1>3. ASSUME EntriesKept, NEW q \in Requests, Quiet(q)
        PROVE  FoundRight'
    <2>1. Others(q) /\ Outcome(q)
      BY <1>3, QuietSteps
    <2>2. mode' = mode
      BY <1>3
      DEF Quiet, Check, SubmitVOD, SubmitABR, Submitted, Upsert,
          LookupRecord, TopupTicket, TopupRead, TopupWrite, NoLiveRunner, EndPhase,
          EndClose, JobStatus, StreamStatus, Found, TicketParams, Arrive, built
    <2>3. CASE req'[q].route = "topup" /\ req'[q].at \in TopupPlaces
      <3>1. /\ SameRequest(q) /\ req[q].route = "topup"
            /\ req[q].at \in {"ticket", "apply"}
            /\ req'[q].info = req[q].info /\ req'[q].raced = req[q].raced
            /\ mode = "paid" /\ req'[q].at \in {"apply", "write"} =>
                 req[q].at = "apply"
        BY <2>1, <2>3 DEF Outcome, SameRequest, TopupPlaces
      <3>2. entry'[req[q].name] \in {entry[req[q].name], NoInfo}
        BY <1>3, <3>1, <1>n DEF EntriesKept, Midway
      <3>3. FoundBy(q)
        BY <1>t
      <3>4. mode = "paid" /\ req'[q].at \in {"apply", "write"} /\ req[q].info.sender # None =>
              /\ req[q].info.work \in WorkIDs
              /\ [by |-> q, sender |-> req[q].info.sender]
                   \in pay'[req[q].info.work].credits
        BY <3>1, <3>3, <1>t DEF FoundBy, PayGrows, Grows
      <3>5. FoundBy(q)'
        BY <2>2, <3>1, <3>2, <3>3, <3>4, <1>t DEF FoundBy, SameRequest
      <3> QED
        BY <1>3, <2>1, <2>2, <3>5, <1>o
    <2>4. CASE ~(req'[q].route = "topup" /\ req'[q].at \in TopupPlaces)
      <3>1. FoundBy(q)'
        BY <2>4 DEF FoundBy, TopupPlaces
      <3> QED
        BY <1>3, <2>1, <2>2, <3>1, <1>o
    <2> QED
      BY <2>3, <2>4
  <1>4. ASSUME EntriesKept, NEW q \in Requests, LookupInfo(q)
        PROVE  FoundRight'
    <2> DEFINE n == req[q].name
               stored == record[n].info
    <2>1. mode' = mode /\ entry' = entry
      BY <1>4, StreamsUntouched
    <2>2. /\ Others(q) /\ SameRequest(q) /\ n \in Names
          /\ req'[q].at \in {"phase", "ticket"}
          /\ registry[n] # NoInfo => req'[q].info = registry[n]
          /\ registry[n] = NoInfo /\ stored.work # None => req'[q].info = stored
          /\ req[q].route = "topup" /\ n \in stale => req'[q].raced
      BY <1>4, LookupInfoFacts
    <2>4. mode = "paid" /\ n \notin stale /\ entry[n].sender # None =>
            /\ stored = entry[n] /\ stored.work # None
            /\ registry[n] # NoInfo => registry[n] = stored
      BY <2>2, <1>t DEF Named, NamedAs, Usable, RoutesAssumption, WorkIDs
    <2> HIDE DEF stored
    <2>5. FoundBy(q)'
      BY <2>1, <2>2, <2>4 DEF FoundBy, SameRequest
    <2> QED
      BY <1>4, <2>1, <2>2, <2>5, <1>o
  <1>5. ASSUME EntriesKept, NEW q \in Requests, Pay(q)
        PROVE  FoundRight'
    <2>1. mode' = mode
      BY <1>5 DEF Pay, built
    <2>2. CASE req'[q].at = "refused"
      BY <1>5, <2>1, <2>2, <1>o, PaySteps DEF FoundBy
    <2>3. CASE req'[q].at # "refused"
      <3>1. /\ Others(q) /\ req[q].at = "pay"
            /\ req'[q].at = IF req[q].route \in Starts THEN "submit" ELSE "apply"
            /\ req'[q].route = req[q].route /\ req'[q].name = req[q].name
            /\ req'[q].info = req[q].info /\ req'[q].raced = req[q].raced
            /\ PaysFor(q) \in WorkIDs
            /\ [by |-> q, sender |-> req'[q].sender] \in pay'[PaysFor(q)].credits
            /\ req[q].route = "topup" =>
                 req[q].info.sender \in {None, req'[q].sender}
        BY <1>5, <2>3, PaySteps
      <3>2. entry'[req[q].name] \in {entry[req[q].name], NoInfo}
        BY <1>5, <3>1, <1>n DEF EntriesKept, Midway
      <3>3. req[q].route = "topup" => PaysFor(q) = req[q].info.work
        BY DEF PaysFor
      <3>a. req[q].route = "topup" /\ req[q].info.sender # None =>
              /\ req[q].info.work \in WorkIDs
              /\ [by |-> q, sender |-> req[q].info.sender]
                   \in pay'[req[q].info.work].credits
        BY <3>1, <3>3
      <3>b. FoundBy(q)
        BY <1>t
      <3>c. req'[q].route = "topup" /\ mode = "paid" /\ ~req'[q].raced
              /\ entry'[req[q].name].sender # None
              => req'[q].info = entry'[req[q].name]
        BY <3>1, <3>2, <3>b, <1>t DEF FoundBy
      <3>4. FoundBy(q)'
        BY <2>1, <3>1, <3>a, <3>c DEF FoundBy
      <3> QED
        BY <1>5, <2>1, <3>1, <3>4, <1>o
    <2> QED
      BY <2>2, <2>3
  <1>6. ASSUME EntriesKept, NEW q \in Requests, Open(q)
        PROVE  FoundRight'
    <2>1. mode' = mode
      BY <1>6 DEF Open, built
    <2>2. Others(q) /\ req'[q].route \in Starts
      BY <1>6, OpenSteps
    <2>3. FoundBy(q)'
      BY <2>2 DEF FoundBy, Starts
    <2> QED
      BY <1>6, <2>1, <2>2, <2>3, <1>o
  <1>7. ASSUME EntriesKept, NEW q \in Requests, SubmitStream(q), ~StreamStarts(q)
        PROVE  FoundRight'
    <2>1. Others(q) /\ req'[q].at = "refused" /\ mode' = mode
      BY <1>7, SubmitStreamFacts DEF built
    <2> QED
      BY <1>7, <2>1, <1>o DEF FoundBy
  <1>8. ASSUME EntriesKept, NEW q \in Requests, Stop(q)
        PROVE  FoundRight'
    <2>1. /\ mode' = mode /\ SameRequest(q) /\ req[q].route \in {"end", "stop"}
          /\ \A p \in Requests \ {q} : Kept(p)
      BY <1>8, StopFacts DEF built
    <2>2. FoundBy(q)'
      BY <2>1 DEF FoundBy, SameRequest
    <2> QED
      BY <1>8, <2>1, <2>2, <1>k DEF FoundRight
  <1>9. ASSUME EntriesKept, NEW n \in Names, RunnerStep(n)
        PROVE  FoundRight'
    <2>1. mode' = mode /\ (req' = req \/ req' = Race(req, n))
      BY <1>9
      DEF RunnerStep, AcceptFind, AcceptSave, AcceptRefused, AcceptRegister,
          SessionPersists, SessionLeaves, built
    <2>2. \A p \in Requests : Kept(p)
      BY <2>1, <1>t, RacedFacts DEF Kept, SameRequest
    <2> QED
      BY <1>9, <2>1, <2>2, <1>k DEF FoundRight
  <1>10. ASSUME Restart
         PROVE  FoundRight'
    <2>1. ASSUME NEW p \in Requests
          PROVE  FoundBy(p)'
      <3>1. req'[p].at \in {"new", "done", "refused", "dead"}
        BY <1>10, <1>t, RestartFacts
      <3> QED
        BY <3>1 DEF FoundBy
    <2> QED
      BY <2>1 DEF FoundRight
  <1>11. CASE UNCHANGED vars
    BY <1>11 DEF vars, FoundRight, FoundBy
  <1>12. CASE EntriesKept
    BY <1>1, <1>2, <1>3, <1>4, <1>5, <1>6, <1>7, <1>8, <1>9, <1>10, <1>11, <1>12
    DEF Next, RequestStep, RunnerStep, Quiet
  <1> QED
    BY <1>1, <1>2, <1>12, Entries

------------------------------------------------------------------------------
(* What is left of the types. *)
LEMMA OtherTypes ==
  ASSUME TypeOK, [Next]_vars
  PROVE  /\ mode' \in Modes /\ wired' \in Runners /\ restarts' \in 0..MaxRestarts
         /\ accepted' \subseteq Requests
  <1> USE RoutesAssumption DEF TypeOK, RoutesAssumption, built
  <1>1. ASSUME NEW q \in Requests, RequestStep(q) \/ Arrive(q)
        PROVE  /\ UNCHANGED <<mode, wired, restarts>>
               /\ accepted' = accepted \/ accepted' = accepted \cup {q}
    BY <1>1
    DEF RequestStep, Check, Open, Pay, SubmitVOD, SubmitABR, Submitted, Accepted,
        SubmitStream, Upsert, LookupRecord, LookupInfo, TopupTicket, TopupRead,
        TopupWrite, NoLiveRunner, EndPhase, Stop, EndClose, TicketParams,
        JobStatus, StreamStatus, Found, Arrive
  <1>2. ASSUME NEW n \in Names, RunnerStep(n)
        PROVE  UNCHANGED <<mode, wired, restarts, accepted>>
    BY <1>2 DEF RunnerStep, AcceptFind, AcceptSave, AcceptRefused,
          AcceptRegister, SessionPersists, SessionLeaves
  <1>3. CASE Restart
    BY <1>3 DEF Restart
  <1>4. CASE UNCHANGED vars
    BY <1>4 DEF vars
  <1> QED
    BY <1>1, <1>2, <1>3, <1>4 DEF Next, RunnerStep

(* The invariant holds of the freshly built server. *)
LEMMA Initially ==
  Init => IInv
  <1> SUFFICES ASSUME Init PROVE IInv
    OBVIOUS
  <1> USE RoutesAssumption DEF RoutesAssumption, Init
  <1>1. /\ Fresh \in Request /\ Fresh.at = "new" /\ Fresh.route = None
        /\ NoInfo \in Info /\ NoInfo.sender = None
    BY FreshType DEF Fresh, NoInfo
  <1>2. NoSession \in Session
    BY Zenon DEF NoSession, Session
  <1>3. Absent \in Record /\ Absent.phase = "none" /\ Absent.info = NoInfo
    BY <1>1 DEF Absent, Record, Phases
  <1>4. TypeOK
    BY <1>1, <1>2, <1>3, NoConnectionFacts DEF TypeOK, Record, Phases
  <1>5. Shape
    BY <1>1 DEF Shape, Shaped, Idle
  <1>6. Billed /\ FoundRight
    BY <1>1 DEF Billed, BilledTo, FoundRight, FoundBy
  <1>7. Named
    BY <1>1, <1>3, NoConnectionFacts DEF Named, NamedAs, Usable
  <1> QED
    BY <1>4, <1>5, <1>6, <1>7 DEF IInv

(* The invariant is inductive: every interleaving of handlers, sessions    *)
(* and restarts keeps it.                                                  *)
THEOREM Inductive == Spec => []IInv
  <1>1. IInv /\ [Next]_vars => IInv'
    <2> SUFFICES ASSUME IInv, [Next]_vars PROVE IInv'
      OBVIOUS
    <2>1. TypeOK /\ Shape /\ Billed /\ FoundRight /\ Named
      BY DEF IInv
    <2>2. TypeOK'
      BY <2>1, ShapeInvariant, PayInvariant, NamedInvariant, OtherTypes
      DEF TypeOK, ReqType, PayGrows, PayType, StateType, StreamsType, RecType,
          Record, Phases, RegType
    <2> QED
      BY <2>1, <2>2, ShapeInvariant, BilledInvariant, FoundInvariant,
         NamedInvariant DEF IInv
  <1> QED
    BY <1>1, Initially, PTL DEF Spec

(* Every variable of the routes keeps its type. *)
THEOREM TypeCorrect == Spec => []TypeOK
  <1>1. IInv => TypeOK
    BY DEF IInv
  <1> QED
    BY <1>1, Inductive, PTL

(* With a broker, no runner is ever handed work whose own request was not  *)
(* credited for it, whatever the other requests do.                        *)
THEOREM NothingUnpaid == Spec => []NoUnpaidWork
  <1>1. IInv => NoUnpaidWork
    BY DEF IInv, TypeOK, Billed, BilledTo, Credit, NoUnpaidWork
  <1> QED
    BY <1>1, Inductive, PTL

(* A top-up that no start, end, connection or stale registry entry crosses *)
(* is credited to the very payment session its stream is charged to.       *)
THEOREM TopupsReachSession == Spec => []TopupCreditsSession
  <1>1. IInv => TopupCreditsSession
    BY DEF IInv, FoundRight, FoundBy, TopupCreditsSession
  <1> QED
    BY <1>1, Inductive, PTL
=============================================================================
