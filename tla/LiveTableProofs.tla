--------------------------- MODULE LiveTableProofs --------------------------
(***************************************************************************)
(* The live runner's table, for any number of streams, connections and     *)
(* requests.                                                               *)
(*                                                                         *)
(* While only one connection at a time uses a stream (Lone), everything    *)
(* its session needs is its own: its entry, the cancel and done in it, and *)
(* from its registration on its place in the table (Held).  A paid session *)
(* is either still pending, untouched, or somebody is bound to close it    *)
(* (Bound); an end request that is going to remove it while it is pending  *)
(* has seen that it is (Owned).                                            *)
(***************************************************************************)
EXTENDS LiveTable, TLAPS

Begun == {"registered", "done"}

(* An entry and everybody who holds it are about the same stream, and an   *)
(* entry that is not a paid session's is in use.                           *)
Shape ==
  /\ \A o \in Entries : ctl[o].work = IF o \in Starts THEN o ELSE None
  /\ \A o \in Entries : ctl[o].done # None => StreamOf[ctl[o].done] = StreamOf[o]
  /\ \A s \in Streams : streams[s] # None =>
       /\ StreamOf[streams[s]] = s
       /\ streams[s] \in Conns => ctl[streams[s]].done # None
  /\ \A c \in Conns : conn[c].at \in InUse =>
       /\ conn[c].ctl # None /\ StreamOf[conn[c].ctl] = StreamOf[c]
       /\ conn[c].at \in {"set"} \cup HasSession => ctl[conn[c].ctl].done # None
       /\ conn[c].at \in HasSession \ {"launched"} => conn[c].done # None
  /\ \A e \in Enders :
       /\ ender[e].at \in {"cancel", "wait"} => ender[e].ctl # None
       /\ ender[e].at = "new" => ender[e].work = None

(* A paid session that anything refers to has been registered. *)
Known ==
  /\ \A s \in Streams :
       /\ streams[s] \in Starts => start[streams[s]] \in Begun
       /\ record[s].work # None =>
            StreamOf[record[s].work] = s /\ start[record[s].work] \in Begun
       /\ registry[s] # None =>
            StreamOf[registry[s]] = s /\ start[registry[s]] \in Begun
  /\ \A c \in Conns : conn[c].ctl \in Starts => start[conn[c].ctl] \in Begun
  /\ \A e \in Enders : ender[e].work # None =>
       /\ StreamOf[ender[e].work] = StreamOf[e]
       /\ start[ender[e].work] \in Begun

(* Two connections use a stream at a time only if it is marked. *)
Lone ==
  \A c, d \in Conns :
    /\ conn[c].at \in InUse /\ conn[d].at \in InUse
    /\ StreamOf[c] = StreamOf[d] /\ StreamOf[c] \notin overlap
    => c = d

(* What a connection has put into its entry and the table stays there. *)
Held ==
  \A c \in Conns : StreamOf[c] \notin overlap =>
    /\ conn[c].at \in {"cancel", "set"} \cup HasSession =>
         ctl[conn[c].ctl].cancel = c
    /\ conn[c].at \in {"set"} \cup HasSession => ctl[conn[c].ctl].done = c
    /\ conn[c].at \in HasSession => streams[StreamOf[c]] = conn[c].ctl

(* The payment session is closed, or whoever has to close it is under way. *)
Bound(q) ==
  \/ payment[q] # "open"
  \/ \E c \in Conns :
       conn[c].at \in InUse \ {"persist", "cleanup"} /\ conn[c].ctl = q
  \/ \E e \in Enders :
       /\ ender[e].at \in {"cancel", "wait", "waiting", "stopped"}
       /\ ender[e].starting /\ ender[e].work = q

(* Nothing has come for the session yet. *)
Pending(q) ==
  /\ streams[StreamOf[q]] = q
  /\ record[StreamOf[q]] = [phase |-> "starting", work |-> q]

Lost(q) == q \in stranded \/ StreamOf[q] \in overlap

(* A session's goroutine closes its payment session before the record. *)
ClosesFirst ==
  \A c \in Conns : conn[c].at \in {"persist", "cleanup"} /\ conn[c].ctl \in Starts
    => payment[conn[c].ctl] # "open"

Owned ==
  \A q \in Starts : start[q] \in Begun =>
    \/ Lost(q) \/ Bound(q)
    \/ /\ Pending(q)
       /\ \A e \in Enders : ender[e].work = q /\ ender[e].at = "lock" =>
            ender[e].starting

IInv ==
  /\ TypeOK /\ Shape /\ Known /\ Lone /\ Held /\ LeasesFollowSessions
  /\ ClosesFirst /\ Owned

------------------------------------------------------------------------------
(* What an action does to the tables of records it assigns to. *)

(* A connection goes on to another place. *)
LEMMA GoFacts ==
  ASSUME conn \in [Conns -> Conn], NEW c \in Conns, NEW place \in ConnPlaces,
         Go(c, place)
  PROVE  /\ conn' \in [Conns -> Conn]
         /\ conn'[c].at = place /\ conn'[c].ctl = conn[c].ctl
         /\ conn'[c].done = conn[c].done
         /\ \A d \in Conns \ {c} : conn'[d] = conn[d]
  BY DEF Go, Conn

(* The constants. *)
LEMMA ConstFacts ==
  /\ \A o \in Entries : StreamOf[o] \in Streams /\ o # None
  /\ \A o \in Entries : o \in Conns <=> o \notin Starts
  /\ \A e \in Enders : StreamOf[e] \in Streams
  /\ None \notin Conns /\ None \notin Starts /\ None \notin Entries
  /\ Conns \subseteq Entries /\ Starts \subseteq Entries
  BY TableAssumption DEF TableAssumption, Entries

(* What the types say of a connection, an entry and a record. *)
LEMMA TypeFacts ==
  ASSUME TypeOK
  PROVE  /\ \A c \in Conns : /\ conn[c].at \in ConnPlaces
                             /\ conn[c].ctl \in Entries \cup {None}
                             /\ conn[c].done \in Conns \cup {None}
         /\ \A o \in Entries : /\ ctl[o].cancel \in Conns \cup {None}
                               /\ ctl[o].done \in Conns \cup {None}
                               /\ ctl[o].work \in Starts \cup {None}
         /\ \A s \in Streams : /\ streams[s] \in Entries \cup {None}
                               /\ registry[s] \in Starts \cup {None}
                               /\ record[s].work \in Starts \cup {None}
         /\ \A e \in Enders : /\ ender[e].work \in Starts \cup {None}
                              /\ ender[e].ctl \in Entries \cup {None}
         /\ \A q \in Starts : payment[q] \in Payment
  BY DEF TypeOK, Conn, Ctl, StreamRecord, Ender

------------------------------------------------------------------------------
(* Accept keeps the invariant. *)

(* A connection that is refused before it has anything, or whose session   *)
(* leaves its loop, disturbs nothing.                                      *)
LEMMA QuietMove ==
  ASSUME IInv, NEW c \in Conns, NEW place \in ConnPlaces, Go(c, place),
         \/ conn[c].at \in {"new", "checked"} /\ place \in {"checked", "refused"}
         \/ conn[c].at = "running" /\ place = "close",
         UNCHANGED <<streams, ctl, record, registry, cancelled, leases, closed,
                     start, ender, payment, shutdown, overlap, stranded>>
  PROVE  IInv'
  <1>t. TypeOK /\ conn \in [Conns -> Conn]
    BY DEF IInv, TypeOK
  <1>1. /\ conn' \in [Conns -> Conn]
        /\ conn'[c].at = place /\ conn'[c].ctl = conn[c].ctl
        /\ conn'[c].done = conn[c].done
        /\ \A d \in Conns \ {c} : conn'[d] = conn[d]
    BY <1>t, GoFacts
  <1>a. TypeOK'
    BY <1>1, <1>t DEF TypeOK
  <1> USE DEF InUse, HasLease, HasSession, ConnPlaces
  <1>b. Shape'
    BY <1>1 DEF IInv, Shape
  <1>c. Known'
    BY <1>1 DEF IInv, Known
  <1>d. Lone' /\ Held' /\ LeasesFollowSessions'
    BY <1>1 DEF IInv, Lone, Held, LeasesFollowSessions
  <1>e. ClosesFirst' /\ Owned'
    BY <1>1 DEF IInv, ClosesFirst, Owned, Bound, Pending, Lost
  <1> QED
    BY <1>a, <1>b, <1>c, <1>d, <1>e DEF IInv

(* AcceptCheck. *)
LEMMA AcceptCheckKeeps ==
  ASSUME IInv, NEW c \in Conns, AcceptCheck(c)
  PROVE  IInv'
  <1> DEFINE place == IF /\ MaxStreams > 0
                         /\ Cardinality({s \in Streams : streams[s] # None}) >= MaxStreams
                      THEN "refused" ELSE "checked"
  <1>0. /\ place \in {"refused", "checked"} /\ Go(c, place) /\ conn[c].at = "new"
        /\ UNCHANGED <<streams, ctl, record, registry, cancelled, leases, closed,
                       start, ender, payment, shutdown, overlap, stranded>>
    BY DEF AcceptCheck, ghosts
  <1> HIDE DEF place
  <1> QED
    BY <1>0, QuietMove DEF ConnPlaces

(* AcceptLookup: the entry in the table, or a new one of its own.  Another *)
(* connection on the stream marks it.                                      *)
LEMMA AcceptLookupKeeps ==
  ASSUME IInv, NEW c \in Conns, AcceptLookup(c)
  PROVE  IInv'
  <1> DEFINE s == StreamOf[c]
             o == IF streams[s] = None THEN c ELSE streams[s]
  <1>0. /\ conn[c].at = "checked"
        /\ UNCHANGED <<streams, ctl, record, registry, cancelled, leases, closed,
                       start, ender, payment, shutdown, stranded>>
    BY DEF AcceptLookup
  <1>1. CASE Go(c, "refused") /\ UNCHANGED overlap
    BY <1>0, <1>1, QuietMove DEF ConnPlaces
  <1>2. CASE /\ conn' = [conn EXCEPT ![c].at = "found", ![c].ctl = o]
             /\ overlap' = IF \E d \in Conns : StreamOf[d] = s /\ conn[d].at \in InUse
                           THEN overlap \cup {s} ELSE overlap
    <2>t. TypeOK /\ conn \in [Conns -> Conn] /\ s \in Streams
      BY ConstFacts DEF IInv, TypeOK
    <2>1. /\ o \in Entries /\ StreamOf[o] = s
          /\ o \in Starts => start[o] \in Begun /\ o = streams[s]
      BY <2>t, TypeFacts, ConstFacts DEF IInv, Shape, Known
    <2> HIDE DEF o
    <2>2. /\ conn' \in [Conns -> Conn]
          /\ conn'[c].at = "found" /\ conn'[c].ctl = o /\ conn'[c].done = conn[c].done
          /\ \A d \in Conns \ {c} : conn'[d] = conn[d]
      BY <1>2, <2>t, <2>1 DEF Conn, ConnPlaces
    <2>3. /\ overlap \subseteq overlap' /\ overlap' \subseteq Streams
          /\ \A r \in Streams \ {s} : r \in overlap' <=> r \in overlap
          /\ \A d \in Conns : StreamOf[d] = s /\ conn[d].at \in InUse => s \in overlap'
      BY <1>2, <2>t DEF TypeOK
    <2>a. TypeOK'
      BY <1>0, <2>2, <2>3, <2>t DEF TypeOK
    <2> USE DEF InUse, HasLease, HasSession, ConnPlaces
    <2>b. Shape'
      BY <1>0, <2>1, <2>2, ConstFacts DEF IInv, Shape
    <2>c. Known'
      BY <1>0, <2>1, <2>2 DEF IInv, Known
    <2>d. Lone' /\ Held' /\ LeasesFollowSessions'
      BY <1>0, <2>2, <2>3 DEF IInv, Lone, Held, LeasesFollowSessions
    <2>e. ClosesFirst' /\ Owned'
      BY <1>0, <2>2, <2>3 DEF IInv, ClosesFirst, Owned, Bound, Pending, Lost
    <2> QED
      BY <2>a, <2>b, <2>c, <2>d, <2>e DEF IInv
  <1> QED
    BY <1>1, <1>2 DEF AcceptLookup

(* AcceptSave: whose record it overwrites is stranded. *)
LEMMA AcceptSaveKeeps ==
  ASSUME IInv, NEW c \in Conns, AcceptSave(c)
  PROVE  IInv'
  <1> DEFINE s == StreamOf[c]
             o == conn[c].ctl
             work == ctl[o].work
  <1>0. /\ conn[c].at = "found" /\ Go(c, "saved")
        /\ record' = [record EXCEPT ![s] = [phase |-> "streaming", work |-> work]]
        /\ stranded' = stranded \cup ({record[s].work} \ {work, None})
        /\ UNCHANGED <<streams, ctl, registry, cancelled, leases, closed, start,
                       ender, payment, shutdown, overlap>>
    BY DEF AcceptSave
  <1>t. TypeOK /\ conn \in [Conns -> Conn] /\ s \in Streams
    BY ConstFacts DEF IInv, TypeOK
  <1>1. /\ conn' \in [Conns -> Conn]
        /\ conn'[c].at = "saved" /\ conn'[c].ctl = conn[c].ctl
        /\ conn'[c].done = conn[c].done
        /\ \A d \in Conns \ {c} : conn'[d] = conn[d]
    BY <1>0, <1>t, GoFacts DEF ConnPlaces
  <1>2. /\ o \in Entries /\ StreamOf[o] = s
        /\ work = IF o \in Starts THEN o ELSE None
        /\ o \in Starts => start[o] \in Begun
    BY <1>0, <1>t, TypeFacts DEF IInv, Shape, Known, InUse, ConnPlaces
  <1>3. /\ record'[s] = [phase |-> "streaming", work |-> work]
        /\ record' \in [Streams -> StreamRecord]
        /\ \A r \in Streams \ {s} : record'[r] = record[r]
    BY <1>0, <1>2, <1>t DEF TypeOK, StreamRecord
  <1>4. stranded \subseteq stranded' /\ stranded' \subseteq Starts
    BY <1>0, <1>t, TypeFacts DEF TypeOK
  <1>a. TypeOK'
    BY <1>0, <1>1, <1>3, <1>4, <1>t DEF TypeOK
  <1> USE DEF InUse, HasLease, HasSession, ConnPlaces
  <1>b. Shape'
    BY <1>0, <1>1 DEF IInv, Shape
  <1>c. Known'
    BY <1>0, <1>1, <1>2, <1>3 DEF IInv, Known
  <1>d. Lone' /\ Held' /\ LeasesFollowSessions' /\ ClosesFirst'
    BY <1>0, <1>1 DEF IInv, Lone, Held, LeasesFollowSessions, ClosesFirst
  <1>e. Owned'
    <2>1. ASSUME NEW q \in Starts, start[q] \in Begun
          PROVE  (Lost(q) => Lost(q)') /\ (Bound(q) => Bound(q)')
      BY <1>0, <1>1, <1>4 DEF Lost, Bound
    <2>2. ASSUME NEW q \in Starts, Pending(q), ~Pending(q)'
          PROVE  Lost(q)' \/ Bound(q)'
      <3>1. StreamOf[q] = s /\ record[s].work = q
        BY <1>0, <1>3, <2>2, ConstFacts DEF Pending
      <3>2. CASE work = q
        <4>1. conn'[c].ctl = q /\ conn'[c].at \in InUse \ {"persist", "cleanup"}
          BY <1>1, <1>2, <3>2, ConstFacts
        <4> QED
          BY <4>1 DEF Bound
      <3>3. CASE work # q
        BY <1>0, <3>1, <3>3, ConstFacts DEF Lost
      <3> QED
        BY <3>2, <3>3
    <2> QED
      BY <1>0, <2>1, <2>2 DEF IInv, Owned
  <1> QED
    BY <1>a, <1>b, <1>c, <1>d, <1>e DEF IInv

(* AcceptAcquire: a connection that is refused strands what it came for. *)
LEMMA AcceptAcquireKeeps ==
  ASSUME IInv, NEW c \in Conns, AcceptAcquire(c)
  PROVE  IInv'
  <1> DEFINE o == conn[c].ctl
  <1>0. /\ conn[c].at = "saved"
        /\ UNCHANGED <<streams, ctl, record, registry, cancelled, closed, start,
                       ender, payment, shutdown, overlap>>
    BY DEF AcceptAcquire
  <1>t. TypeOK /\ conn \in [Conns -> Conn] /\ o \in Entries
    BY <1>0, TypeFacts DEF IInv, TypeOK, Shape, InUse, ConnPlaces
  <1>1. CASE leases' = leases \cup {c} /\ Go(c, "leased") /\ UNCHANGED stranded
    <2>1. /\ conn' \in [Conns -> Conn]
          /\ conn'[c].at = "leased" /\ conn'[c].ctl = conn[c].ctl
          /\ conn'[c].done = conn[c].done
          /\ \A d \in Conns \ {c} : conn'[d] = conn[d]
      BY <1>1, <1>t, GoFacts DEF ConnPlaces
    <2>a. TypeOK'
      BY <1>0, <1>1, <2>1, <1>t DEF TypeOK
    <2> USE DEF InUse, HasLease, HasSession, ConnPlaces
    <2>b. Shape' /\ Known'
      BY <1>0, <2>1 DEF IInv, Shape, Known
    <2>c. Lone' /\ Held' /\ LeasesFollowSessions'
      BY <1>0, <1>1, <2>1 DEF IInv, Lone, Held, LeasesFollowSessions
    <2>d. ClosesFirst' /\ Owned'
      BY <1>0, <1>1, <2>1 DEF IInv, ClosesFirst, Owned, Bound, Pending, Lost
    <2> QED
      BY <2>a, <2>b, <2>c, <2>d DEF IInv
  <1>2. CASE /\ Go(c, "refused") /\ UNCHANGED leases
             /\ stranded' = stranded \cup ({ctl[o].work} \ {None})
    <2>1. /\ conn' \in [Conns -> Conn]
          /\ conn'[c].at = "refused" /\ conn'[c].ctl = conn[c].ctl
          /\ conn'[c].done = conn[c].done
          /\ \A d \in Conns \ {c} : conn'[d] = conn[d]
      BY <1>2, <1>t, GoFacts DEF ConnPlaces
    <2>2. /\ stranded \subseteq stranded' /\ stranded' \subseteq Starts
          /\ o \in Starts => o \in stranded'
      BY <1>2, <1>t, TypeFacts, ConstFacts DEF IInv, TypeOK, Shape
    <2>a. TypeOK'
      BY <1>0, <1>2, <2>1, <2>2, <1>t DEF TypeOK
    <2> USE DEF InUse, HasLease, HasSession, ConnPlaces
    <2>b. Shape' /\ Known'
      BY <1>0, <2>1 DEF IInv, Shape, Known
    <2>c. Lone' /\ Held' /\ LeasesFollowSessions'
      BY <1>0, <1>2, <2>1 DEF IInv, Lone, Held, LeasesFollowSessions
    <2>d. ClosesFirst' /\ Owned'
      BY <1>0, <2>1, <2>2 DEF IInv, ClosesFirst, Owned, Bound, Pending, Lost
    <2> QED
      BY <2>a, <2>b, <2>c, <2>d DEF IInv
  <1> QED
    BY <1>1, <1>2 DEF AcceptAcquire

(* AcceptSetCancel: a second connection on the entry would have marked the *)
(* stream.                                                                 *)
LEMMA AcceptSetCancelKeeps ==
  ASSUME IInv, NEW c \in Conns, AcceptSetCancel(c)
  PROVE  IInv'
  <1> DEFINE o == conn[c].ctl
  <1>0. /\ conn[c].at = "leased" /\ Go(c, "cancel")
        /\ ctl' = [ctl EXCEPT ![o].cancel = c]
        /\ UNCHANGED <<streams, record, registry, cancelled, leases, closed,
                       start, ender, payment, shutdown, overlap, stranded>>
    BY DEF AcceptSetCancel, ghosts
  <1>t. /\ TypeOK /\ conn \in [Conns -> Conn]
        /\ o \in Entries /\ StreamOf[o] = StreamOf[c]
    BY <1>0, TypeFacts DEF IInv, TypeOK, Shape, InUse, ConnPlaces
  <1>1. /\ conn' \in [Conns -> Conn]
        /\ conn'[c].at = "cancel" /\ conn'[c].ctl = conn[c].ctl
        /\ conn'[c].done = conn[c].done
        /\ \A d \in Conns \ {c} : conn'[d] = conn[d]
    BY <1>0, <1>t, GoFacts DEF ConnPlaces
  <1>2. /\ ctl' \in [Entries -> Ctl] /\ ctl'[o].cancel = c
        /\ \A p \in Entries : ctl'[p].done = ctl[p].done /\ ctl'[p].work = ctl[p].work
        /\ \A p \in Entries \ {o} : ctl'[p] = ctl[p]
    BY <1>0, <1>t DEF TypeOK, Ctl
  <1>a. TypeOK'
    BY <1>0, <1>1, <1>2, <1>t DEF TypeOK
  <1> USE DEF InUse, HasLease, HasSession, ConnPlaces
  <1>b. Shape'
    BY SMTT(30), <1>0, <1>1, <1>2, <1>t, TypeFacts, ConstFacts DEF IInv, Shape
  <1>c. Known' /\ Lone' /\ LeasesFollowSessions'
    BY <1>0, <1>1 DEF IInv, Known, Lone, LeasesFollowSessions
  <1>d. Held'
    <2> SUFFICES ASSUME NEW d \in Conns, StreamOf[d] \notin overlap
                 PROVE  (/\ conn[d].at \in {"cancel", "set"} \cup HasSession =>
                              ctl[conn[d].ctl].cancel = d
                         /\ conn[d].at \in {"set"} \cup HasSession =>
                              ctl[conn[d].ctl].done = d
                         /\ conn[d].at \in HasSession =>
                              streams[StreamOf[d]] = conn[d].ctl)'
      BY <1>0, Zenon DEF Held
    <2>1. CASE d = c
      BY <1>0, <1>1, <1>2, <2>1
    <2>2. CASE d # c /\ conn[d].at \in InUse
      <3>1. conn[d].ctl # o /\ conn[d].ctl \in Entries
        BY <1>0, <1>t, <2>2, TypeFacts DEF IInv, Lone, Shape
      <3> QED
        BY <1>0, <1>1, <1>2, <2>2, <3>1 DEF IInv, Held
    <2>3. CASE d # c /\ conn[d].at \notin InUse
      BY <1>1, <2>3
    <2> QED
      BY <2>1, <2>2, <2>3
  <1>e. ClosesFirst' /\ Owned'
    BY <1>0, <1>1 DEF IInv, ClosesFirst, Owned, Bound, Pending, Lost
  <1> QED
    BY <1>a, <1>b, <1>c, <1>d, <1>e DEF IInv

(* AcceptSetDone, the same for done. *)
LEMMA AcceptSetDoneKeeps ==
  ASSUME IInv, NEW c \in Conns, AcceptSetDone(c)
  PROVE  IInv'
  <1> DEFINE o == conn[c].ctl
  <1>0. /\ conn[c].at = "cancel" /\ Go(c, "set")
        /\ ctl' = [ctl EXCEPT ![o].done = c]
        /\ UNCHANGED <<streams, record, registry, cancelled, leases, closed,
                       start, ender, payment, shutdown, overlap, stranded>>
    BY DEF AcceptSetDone, ghosts
  <1>t. /\ TypeOK /\ conn \in [Conns -> Conn]
        /\ o \in Entries /\ StreamOf[o] = StreamOf[c]
    BY <1>0, TypeFacts DEF IInv, TypeOK, Shape, InUse, ConnPlaces
  <1>1. /\ conn' \in [Conns -> Conn]
        /\ conn'[c].at = "set" /\ conn'[c].ctl = conn[c].ctl
        /\ conn'[c].done = conn[c].done
        /\ \A d \in Conns \ {c} : conn'[d] = conn[d]
    BY <1>0, <1>t, GoFacts DEF ConnPlaces
  <1>2. /\ ctl' \in [Entries -> Ctl] /\ ctl'[o].done = c
        /\ \A p \in Entries : ctl'[p].cancel = ctl[p].cancel /\ ctl'[p].work = ctl[p].work
        /\ \A p \in Entries \ {o} : ctl'[p] = ctl[p]
    BY SMTT(60), <1>0, <1>t DEF TypeOK, Ctl
  <1>a. TypeOK'
    BY <1>0, <1>1, <1>2, <1>t DEF TypeOK
  <1> USE DEF InUse, HasLease, HasSession, ConnPlaces
  <1>b. Shape'
    BY <1>0, <1>1, <1>2, <1>t, TypeFacts, ConstFacts DEF IInv, Shape
  <1>c. Known' /\ Lone' /\ LeasesFollowSessions'
    BY <1>0, <1>1 DEF IInv, Known, Lone, LeasesFollowSessions
  <1>d. Held'
    <2> SUFFICES ASSUME NEW d \in Conns, StreamOf[d] \notin overlap
                 PROVE  (/\ conn[d].at \in {"cancel", "set"} \cup HasSession =>
                              ctl[conn[d].ctl].cancel = d
                         /\ conn[d].at \in {"set"} \cup HasSession =>
                              ctl[conn[d].ctl].done = d
                         /\ conn[d].at \in HasSession =>
                              streams[StreamOf[d]] = conn[d].ctl)'
      BY <1>0, Zenon DEF Held
    <2>1. CASE d = c
      BY <1>0, <1>1, <1>2, <1>t, <2>1 DEF IInv, Held
    <2>2. CASE d # c /\ conn[d].at \in InUse
      <3>1. conn[d].ctl # o /\ conn[d].ctl \in Entries
        BY <1>0, <1>t, <2>2, TypeFacts DEF IInv, Lone, Shape
      <3> QED
        BY <1>0, <1>1, <1>2, <2>2, <3>1 DEF IInv, Held
    <2>3. CASE d # c /\ conn[d].at \notin InUse
      BY <1>1, <2>3
    <2> QED
      BY <2>1, <2>2, <2>3
  <1>e. ClosesFirst' /\ Owned'
    BY <1>0, <1>1 DEF IInv, ClosesFirst, Owned, Bound, Pending, Lost
  <1> QED
    BY <1>a, <1>b, <1>c, <1>d, <1>e DEF IInv

(* AcceptRegister: what it overwrites in the table is stranded. *)
LEMMA AcceptRegisterKeeps ==
  ASSUME IInv, NEW c \in Conns, AcceptRegister(c)
  PROVE  IInv'
  <1> DEFINE o == conn[c].ctl
             s == StreamOf[c]
  <1>0. /\ conn[c].at = "set" /\ Go(c, "launched")
        /\ streams' = [streams EXCEPT ![s] = o]
        /\ stranded' = stranded \cup (({streams[s]} \ {o}) \cap Starts)
        /\ UNCHANGED <<ctl, record, registry, cancelled, leases, closed, start,
                       ender, payment, shutdown, overlap>>
    BY DEF AcceptRegister
  <1>t. /\ TypeOK /\ conn \in [Conns -> Conn] /\ s \in Streams
        /\ o \in Entries /\ StreamOf[o] = s /\ ctl[o].done # None
        /\ o \in Starts => start[o] \in Begun
    BY <1>0, TypeFacts, ConstFacts DEF IInv, TypeOK, Shape, Known, InUse, ConnPlaces
  <1>1. /\ conn' \in [Conns -> Conn]
        /\ conn'[c].at = "launched" /\ conn'[c].ctl = conn[c].ctl
        /\ conn'[c].done = conn[c].done
        /\ \A d \in Conns \ {c} : conn'[d] = conn[d]
    BY <1>0, <1>t, GoFacts DEF ConnPlaces
  <1>2. /\ streams' \in [Streams -> Entries \cup {None}] /\ streams'[s] = o
        /\ \A r \in Streams \ {s} : streams'[r] = streams[r]
    BY <1>0, <1>t DEF TypeOK
  <1>3. stranded \subseteq stranded' /\ stranded' \subseteq Starts
    BY <1>0, <1>t DEF TypeOK
  <1>a. TypeOK'
    BY <1>0, <1>1, <1>2, <1>3, <1>t DEF TypeOK
  <1> USE DEF InUse, HasLease, HasSession, ConnPlaces
  <1>b. Shape' /\ Known'
    BY <1>0, <1>1, <1>2, <1>t DEF IInv, Shape, Known
  <1>c. Lone' /\ LeasesFollowSessions' /\ ClosesFirst'
    BY <1>0, <1>1 DEF IInv, Lone, LeasesFollowSessions, ClosesFirst
  <1>d. Held'
    BY <1>0, <1>1, <1>2, <1>t, ConstFacts DEF IInv, Held, Lone
  <1>e. Owned'
    <2>1. ASSUME NEW q \in Starts, start[q] \in Begun
          PROVE  (Lost(q) => Lost(q)') /\ (Bound(q) => Bound(q)')
      BY <1>0, <1>1, <1>3 DEF Lost, Bound
    <2>2. ASSUME NEW q \in Starts, Pending(q), ~Pending(q)'
          PROVE  Lost(q)' \/ Bound(q)'
      BY <1>0, <1>2, <2>2, ConstFacts DEF Pending, Lost
    <2> QED
      BY <1>0, <2>1, <2>2 DEF IInv, Owned
  <1> QED
    BY <1>a, <1>b, <1>c, <1>d, <1>e DEF IInv

------------------------------------------------------------------------------
(* runSession keeps the invariant. *)

(* SessionStart: the done it was given is its own, or the stream marked. *)
LEMMA SessionStartKeeps ==
  ASSUME IInv, NEW c \in Conns, SessionStart(c)
  PROVE  IInv'
  <1> DEFINE o == conn[c].ctl
  <1>0. /\ conn[c].at = "launched"
        /\ conn' = [conn EXCEPT ![c].at = "running", ![c].done = ctl[o].done]
        /\ UNCHANGED <<streams, ctl, record, registry, cancelled, leases, closed,
                       start, ender, payment, shutdown, overlap, stranded>>
    BY DEF SessionStart, ghosts
  <1>t. /\ TypeOK /\ conn \in [Conns -> Conn]
        /\ o \in Entries /\ ctl[o].done \in Conns
    BY <1>0, TypeFacts DEF IInv, TypeOK, Shape, InUse, HasLease, HasSession, ConnPlaces
  <1>1. /\ conn' \in [Conns -> Conn]
        /\ conn'[c].at = "running" /\ conn'[c].ctl = o
        /\ conn'[c].done = ctl[o].done
        /\ \A d \in Conns \ {c} : conn'[d] = conn[d]
    BY <1>0, <1>t DEF Conn, ConnPlaces
  <1>a. TypeOK'
    BY <1>0, <1>1, <1>t DEF TypeOK
  <1> USE DEF InUse, HasLease, HasSession, ConnPlaces
  <1>2. \A d \in Conns :
          /\ conn'[d].ctl = conn[d].ctl
          /\ conn'[d].at \in InUse <=> conn[d].at \in InUse
          /\ conn'[d].at \in HasSession <=> conn[d].at \in HasSession
          /\ conn'[d].at = "cancel" <=> conn[d].at = "cancel"
          /\ conn'[d].at = "set" <=> conn[d].at = "set"
          /\ \/ conn'[d] = conn[d]
             \/ conn'[d].at = "running" /\ conn'[d].done # None
    BY <1>0, <1>1, <1>t, ConstFacts
  <1>b. Shape'
    <2>1. \A d \in Conns : conn[d].at \in InUse =>
            /\ conn[d].ctl # None /\ StreamOf[conn[d].ctl] = StreamOf[d]
            /\ conn[d].at \in {"set"} \cup HasSession => ctl[conn[d].ctl].done # None
            /\ conn[d].at \in HasSession \ {"launched"} => conn[d].done # None
      BY DEF IInv, Shape
    <2>2. \A d \in Conns : conn'[d].at \in InUse =>
            /\ conn'[d].ctl # None /\ StreamOf[conn'[d].ctl] = StreamOf[d]
            /\ conn'[d].at \in {"set"} \cup HasSession => ctl[conn'[d].ctl].done # None
            /\ conn'[d].at \in HasSession \ {"launched"} => conn'[d].done # None
      <3> HIDE DEF InUse, HasLease, HasSession, ConnPlaces
      <3> QED BY <1>2, <2>1
    <2> HIDE DEF InUse, HasLease, HasSession, ConnPlaces
    <2> QED BY <1>0, <2>2 DEF IInv, Shape
  <1>k. Known'
    BY <1>0, <1>2 DEF IInv, Known
  <1>c. Lone' /\ Held'
    <2> HIDE DEF InUse, HasLease, HasSession, ConnPlaces
    <2>1. Lone'
      <3>1. \A d \in Conns : conn'[d].at \in InUse => conn[d].at \in InUse
        BY <1>2
      <3>2. overlap' = overlap BY <1>0
      <3>3. Lone BY DEF IInv
      <3> QED BY <3>1, <3>2, <3>3 DEF Lone
    <2>2. Held'
      <3>1. ctl' = ctl /\ streams' = streams /\ overlap' = overlap BY <1>0
      <3>2. Held BY DEF IInv
      <3>3. \A d \in Conns :
              /\ conn'[d].at \in {"set"} \cup HasSession
                   => conn[d].at \in {"set"} \cup HasSession
              /\ conn'[d].at \in {"cancel", "set"} \cup HasSession
                   => conn[d].at \in {"cancel", "set"} \cup HasSession
        BY <1>2
      <3> QED BY <1>2, <3>1, <3>2, <3>3 DEF Held
    <2> QED BY <2>1, <2>2
  <1>l. LeasesFollowSessions'
    BY <1>0, <1>1 DEF IInv, LeasesFollowSessions
  <1>d. ClosesFirst' /\ Owned'
    BY <1>0, <1>1 DEF IInv, ClosesFirst, Owned, Bound, Pending, Lost
  <1> QED
    BY <1>a, <1>b, <1>k, <1>c, <1>l, <1>d DEF IInv

(* SessionClose: from here on the call to the daemon has been made. *)
LEMMA SessionCloseKeeps ==
  ASSUME IInv, NEW c \in Conns, SessionClose(c)
  PROVE  IInv'
  <1> DEFINE o == conn[c].ctl
             work == ctl[o].work
  <1>0. /\ conn[c].at = "close" /\ Go(c, "persist")
        /\ CloseSucceeds(work) \/ CloseFails(work)
        /\ UNCHANGED <<streams, ctl, record, registry, cancelled, leases, closed,
                       start, ender, shutdown, overlap, stranded>>
    BY DEF SessionClose, ghosts
  <1>t. /\ TypeOK /\ conn \in [Conns -> Conn] /\ payment \in [Starts -> Payment]
        /\ o \in Entries /\ work = IF o \in Starts THEN o ELSE None
    BY <1>0, TypeFacts DEF IInv, TypeOK, Shape, InUse, ConnPlaces
  <1>1. /\ conn' \in [Conns -> Conn]
        /\ conn'[c].at = "persist" /\ conn'[c].ctl = conn[c].ctl
        /\ conn'[c].done = conn[c].done
        /\ \A d \in Conns \ {c} : conn'[d] = conn[d]
    BY <1>0, <1>t, GoFacts DEF ConnPlaces
  <1>2. /\ payment' \in [Starts -> Payment]
        /\ o \in Starts => payment'[o] # "open"
        /\ \A q \in Starts : payment[q] # "open" => payment'[q] # "open"
    BY <1>0, <1>t, ConstFacts DEF CloseSucceeds, CloseFails, Payment
  <1>a. TypeOK'
    BY <1>0, <1>1, <1>2, <1>t DEF TypeOK
  <1> USE DEF InUse, HasLease, HasSession, ConnPlaces
  <1>b. Shape' /\ Known'
    BY <1>0, <1>1 DEF IInv, Shape, Known
  <1>c. Lone' /\ Held' /\ LeasesFollowSessions'
    BY <1>0, <1>1 DEF IInv, Lone, Held, LeasesFollowSessions
  <1>d. ClosesFirst'
    BY <1>0, <1>1, <1>2 DEF IInv, ClosesFirst
  <1>e. \A q \in Starts : Bound(q) => Bound(q)'
    BY <1>0, <1>1, <1>2 DEF Bound
  <1>f. Owned'
    BY <1>0, <1>e DEF IInv, Owned, Pending, Lost
  <1> QED
    BY <1>a, <1>b, <1>c, <1>d, <1>f DEF IInv

(* SessionPersist: a session that runs has the stream's place in the       *)
(* table, so the record it closes is of no other session that is pending.  *)
LEMMA SessionPersistKeeps ==
  ASSUME IInv, NEW c \in Conns, SessionPersist(c)
  PROVE  IInv'
  <1> DEFINE o == conn[c].ctl
             s == StreamOf[c]
  <1>0. /\ conn[c].at = "persist" /\ Go(c, "cleanup")
        /\ record' = [record EXCEPT ![s].phase = "closed"]
        /\ UNCHANGED <<streams, ctl, registry, cancelled, leases, closed, start,
                       ender, payment, shutdown, overlap, stranded>>
    BY DEF SessionPersist, ghosts
  <1>t. TypeOK /\ conn \in [Conns -> Conn] /\ s \in Streams
    BY ConstFacts DEF IInv, TypeOK
  <1>1. /\ conn' \in [Conns -> Conn]
        /\ conn'[c].at = "cleanup" /\ conn'[c].ctl = conn[c].ctl
        /\ conn'[c].done = conn[c].done
        /\ \A d \in Conns \ {c} : conn'[d] = conn[d]
    BY <1>0, <1>t, GoFacts DEF ConnPlaces
  <1>2. /\ record' \in [Streams -> StreamRecord]
        /\ \A r \in Streams : record'[r].work = record[r].work
        /\ \A r \in Streams \ {s} : record'[r] = record[r]
    BY <1>0, <1>t DEF TypeOK, StreamRecord
  <1>a. TypeOK'
    BY <1>0, <1>1, <1>2, <1>t DEF TypeOK
  <1> USE DEF InUse, HasLease, HasSession, ConnPlaces
  <1>b. Shape'
    BY <1>0, <1>1 DEF IInv, Shape
  <1>c. Known'
    BY <1>0, <1>1, <1>2 DEF IInv, Known
  <1>d. Lone' /\ Held' /\ LeasesFollowSessions' /\ ClosesFirst'
    BY <1>0, <1>1 DEF IInv, Lone, Held, LeasesFollowSessions, ClosesFirst
  <1>e. Owned'
    <2>1. ASSUME NEW q \in Starts
          PROVE  (Lost(q) => Lost(q)') /\ (Bound(q) => Bound(q)')
      BY <1>0, <1>1 DEF Lost, Bound
    <2>2. ASSUME NEW q \in Starts, Pending(q), ~Pending(q)'
          PROVE  Lost(q)' \/ Bound(q)'
      <3>1. StreamOf[q] = s /\ streams[s] = q
        BY <1>0, <1>2, <2>2, ConstFacts DEF Pending
      <3>2. CASE s \in overlap
        BY <1>0, <3>1, <3>2 DEF Lost
      <3>3. CASE s \notin overlap
        BY <1>0, <3>1, <3>3 DEF IInv, Held, ClosesFirst, Bound
      <3> QED
        BY <3>2, <3>3
    <2> QED
      BY <1>0, <2>1, <2>2 DEF IInv, Owned
  <1> QED
    BY <1>a, <1>b, <1>c, <1>d, <1>e DEF IInv

(* SessionCleanup: the lease it gives up is its own, or of a connection on *)
(* the same marked stream; so is the place in the table.                   *)
LEMMA SessionCleanupKeeps ==
  ASSUME IInv, NEW c \in Conns, SessionCleanup(c)
  PROVE  IInv'
  <1> DEFINE o == conn[c].ctl
             s == StreamOf[c]
             given == ctl[o].done
  <1>0. /\ conn[c].at = "cleanup" /\ Go(c, "done")
        /\ leases' = leases \ {given}
        /\ streams' = [streams EXCEPT ![s] = None]
        /\ closed' = closed \cup {conn[c].done}
        /\ UNCHANGED <<ctl, record, registry, cancelled, start, ender, payment,
                       shutdown, overlap, stranded>>
    BY DEF SessionCleanup, ghosts
  <1>t. /\ TypeOK /\ conn \in [Conns -> Conn] /\ s \in Streams
        /\ conn[c].done \in Conns /\ o \in Entries
        /\ given \in Conns /\ StreamOf[given] = s
        /\ s \notin overlap => given = c /\ streams[s] = o
    BY <1>0, TypeFacts, ConstFacts DEF IInv, TypeOK, Shape, Held, InUse, HasLease,
       HasSession, ConnPlaces
  <1>1. /\ conn' \in [Conns -> Conn]
        /\ conn'[c].at = "done" /\ conn'[c].ctl = conn[c].ctl
        /\ conn'[c].done = conn[c].done
        /\ \A d \in Conns \ {c} : conn'[d] = conn[d]
    BY <1>0, <1>t, GoFacts DEF ConnPlaces
  <1>2. /\ streams' \in [Streams -> Entries \cup {None}] /\ streams'[s] = None
        /\ \A r \in Streams \ {s} : streams'[r] = streams[r]
    BY <1>0, <1>t DEF TypeOK
  <1>a. TypeOK'
    BY <1>0, <1>1, <1>2, <1>t DEF TypeOK
  <1> USE DEF InUse, HasLease, HasSession, ConnPlaces
  <1>b. Shape' /\ Known'
    BY <1>0, <1>1, <1>2, ConstFacts DEF IInv, Shape, Known
  <1>c. Lone' /\ LeasesFollowSessions' /\ ClosesFirst'
    BY <1>0, <1>1, <1>t DEF IInv, Lone, LeasesFollowSessions, ClosesFirst
  <1>d. Held'
    BY <1>0, <1>1, <1>2, <1>t, ConstFacts DEF IInv, Held, Lone
  <1>e. Owned'
    <2>1. ASSUME NEW q \in Starts
          PROVE  (Lost(q) => Lost(q)') /\ (Bound(q) => Bound(q)')
      BY <1>0, <1>1 DEF Lost, Bound
    <2>2. ASSUME NEW q \in Starts, Pending(q), ~Pending(q)'
          PROVE  Lost(q)' \/ Bound(q)'
      <3>1. StreamOf[q] = s /\ streams[s] = q
        BY <1>0, <1>2, <2>2, ConstFacts DEF Pending
      <3>2. CASE s \in overlap
        BY <1>0, <3>1, <3>2 DEF Lost
      <3>3. CASE s \notin overlap
        BY <1>0, <1>t, <3>1, <3>3 DEF IInv, ClosesFirst, Bound
      <3> QED
        BY <3>2, <3>3
    <2> QED
      BY <1>0, <2>1, <2>2 DEF IInv, Owned
  <1> QED
    BY <1>a, <1>b, <1>c, <1>d, <1>e DEF IInv

(* A cancel and a done channel waited for are nothing to the rest. *)
LEMMA CancelKeeps ==
  ASSUME IInv, cancelled' \subseteq Conns,
         shutdown' \in [at : {"no", "waiting", "done"}, waits : SUBSET Conns],
         UNCHANGED <<streams, ctl, record, registry, conn, leases, closed, start,
                     ender, payment, overlap, stranded>>
  PROVE  IInv'
  <1>1. TypeOK'
    BY DEF IInv, TypeOK
  <1>2. Shape' /\ Known' /\ Lone' /\ Held' /\ LeasesFollowSessions' /\ ClosesFirst'
    BY DEF IInv, Shape, Known, Lone, Held, LeasesFollowSessions, ClosesFirst
  <1>3. Owned'
    BY DEF IInv, Owned, Bound, Pending, Lost
  <1> QED
    BY <1>1, <1>2, <1>3 DEF IInv

(* What a connection's own steps do. *)
LEMMA ConnKeeps ==
  ASSUME IInv, NEW c \in Conns,
         AcceptCheck(c) \/ ConnStep(c) \/ SessionEnds(c) \/ OnEnd(c)
  PROVE  IInv'
  <1>1. CASE SessionEnds(c)
    BY <1>1, QuietMove DEF SessionEnds, ghosts, ConnPlaces
  <1>2. CASE OnEnd(c)
    BY <1>2, CancelKeeps DEF OnEnd, ghosts, IInv, TypeOK
  <1> QED
    BY <1>1, <1>2, AcceptCheckKeeps, AcceptLookupKeeps, AcceptSaveKeeps,
       AcceptAcquireKeeps, AcceptSetCancelKeeps, AcceptSetDoneKeeps,
       AcceptRegisterKeeps, SessionStartKeeps, SessionCloseKeeps,
       SessionPersistKeeps, SessionCleanupKeeps DEF ConnStep

------------------------------------------------------------------------------
(* The start request keeps the invariant. *)

(* StartPay: nothing knows of the session yet. *)
LEMMA StartPayKeeps ==
  ASSUME IInv, NEW q \in Starts, StartPay(q)
  PROVE  IInv'
  <1>0. /\ start[q] = "new"
        /\ UNCHANGED <<streams, ctl, record, registry, conn, cancelled, leases,
                       closed, ender, payment, shutdown, overlap, stranded>>
    BY DEF StartPay, ghosts
  <1>t. TypeOK
    BY DEF IInv
  <1>1. /\ start' \in [Starts -> {"new", "paid", "registered", "done", "refused"}]
        /\ \A p \in Starts : start'[p] \in Begun <=> start[p] \in Begun
    BY <1>t DEF StartPay, TypeOK, Begun
  <1>a. TypeOK'
    BY <1>0, <1>1, <1>t DEF TypeOK
  <1>b. Shape' /\ Lone' /\ Held' /\ LeasesFollowSessions' /\ ClosesFirst'
    BY <1>0 DEF IInv, Shape, Lone, Held, LeasesFollowSessions, ClosesFirst
  <1>c. Known'
    BY <1>0, <1>1, <1>t, TypeFacts DEF IInv, Known
  <1>d. Owned'
    BY <1>0, <1>1 DEF IInv, Owned, Bound, Pending, Lost
  <1> QED
    BY <1>a, <1>b, <1>c, <1>d DEF IInv

(* StartRegister: the stream had no entry, so no session of it is pending  *)
(* or running, and nobody knows of the new one.                            *)
LEMMA StartRegisterKeeps ==
  ASSUME IInv, NEW q \in Starts, StartRegister(q)
  PROVE  IInv'
  <1> DEFINE s == StreamOf[q]
  <1>0. /\ start[q] = "paid"
        /\ UNCHANGED <<ctl, registry, conn, cancelled, leases, closed, ender,
                       payment, shutdown, overlap, stranded>>
    BY DEF StartRegister, ghosts
  <1>t. TypeOK /\ s \in Streams
    BY ConstFacts DEF IInv
  <1>1. CASE start' = [start EXCEPT ![q] = "refused"] /\ UNCHANGED <<streams, record>>
    <2>1. /\ start' \in [Starts -> {"new", "paid", "registered", "done", "refused"}]
          /\ \A p \in Starts : start'[p] \in Begun <=> start[p] \in Begun
      BY <1>0, <1>1, <1>t DEF TypeOK, Begun
    <2>a. TypeOK'
      BY <1>0, <1>1, <2>1, <1>t DEF TypeOK
    <2>b. Shape' /\ Lone' /\ Held' /\ LeasesFollowSessions' /\ ClosesFirst'
      BY <1>0, <1>1 DEF IInv, Shape, Lone, Held, LeasesFollowSessions, ClosesFirst
    <2>c. Known'
      BY <1>0, <1>1, <2>1, <1>t, TypeFacts DEF IInv, Known
    <2>d. Owned'
      BY <1>0, <1>1, <2>1 DEF IInv, Owned, Bound, Pending, Lost
    <2> QED
      BY <2>a, <2>b, <2>c, <2>d DEF IInv
  <1>2. CASE /\ streams[s] = None
             /\ record' = [record EXCEPT ![s] = [phase |-> "starting", work |-> q]]
             /\ streams' = [streams EXCEPT ![s] = q]
             /\ start' = [start EXCEPT ![q] = "registered"]
    <2>1. /\ start' \in [Starts -> {"new", "paid", "registered", "done", "refused"}]
          /\ start'[q] \in Begun
          /\ \A p \in Starts \ {q} : start'[p] = start[p]
      BY <1>0, <1>2, <1>t DEF TypeOK, Begun
    <2>2. /\ streams' \in [Streams -> Entries \cup {None}] /\ streams'[s] = q
          /\ \A r \in Streams \ {s} : streams'[r] = streams[r]
      BY <1>2, <1>t, ConstFacts DEF TypeOK
    <2>3. /\ record' \in [Streams -> StreamRecord]
          /\ record'[s] = [phase |-> "starting", work |-> q]
          /\ \A r \in Streams \ {s} : record'[r] = record[r]
      BY <1>2, <1>t DEF TypeOK, StreamRecord
    <2>a. TypeOK'
      BY <1>0, <2>1, <2>2, <2>3, <1>t DEF TypeOK
    <2>b. Shape'
      BY <1>0, <2>2, ConstFacts DEF IInv, Shape
    <2>c. Known'
      BY <1>0, <1>t, <2>1, <2>2, <2>3, TypeFacts, ConstFacts DEF IInv, Known
    <2>d. Held'
      <3>1. \A c \in Conns : conn[c].at \in HasSession => conn[c].ctl # None
        BY DEF IInv, Shape, HasSession, HasLease, InUse, ConnPlaces
      <3> QED
        BY <1>0, <1>2, <2>2, <3>1, ConstFacts DEF IInv, Held
    <2>e. Lone' /\ LeasesFollowSessions' /\ ClosesFirst'
      BY <1>0 DEF IInv, Lone, LeasesFollowSessions, ClosesFirst
    <2>f. Owned'
      <3>1. \A p \in Starts \ {q} : Pending(p) => Pending(p)'
        BY <1>2, <2>2, <2>3, ConstFacts DEF Pending
      <3>2. Pending(q)'
        BY <2>2, <2>3 DEF Pending
      <3>3. \A e \in Enders : ender[e].work # q
        BY <1>0, ConstFacts DEF IInv, Known, Begun
      <3>4. \A p \in Starts : (Lost(p) => Lost(p)') /\ (Bound(p) => Bound(p)')
        BY <1>0 DEF Lost, Bound
      <3> QED
        BY <1>0, <2>1, <3>1, <3>2, <3>3, <3>4 DEF IInv, Owned
    <2> QED
      BY <2>a, <2>b, <2>c, <2>d, <2>e, <2>f DEF IInv
  <1> QED
    BY <1>1, <1>2 DEF StartRegister

(* StartUpsert. *)
LEMMA StartUpsertKeeps ==
  ASSUME IInv, NEW q \in Starts, StartUpsert(q)
  PROVE  IInv'
  <1>0. /\ start[q] = "registered" /\ start' = [start EXCEPT ![q] = "done"]
        /\ registry' = [registry EXCEPT ![StreamOf[q]] = q]
        /\ UNCHANGED <<streams, ctl, record, conn, cancelled, leases, closed,
                       ender, payment, shutdown, overlap, stranded>>
    BY DEF StartUpsert, ghosts
  <1>t. TypeOK /\ StreamOf[q] \in Streams
    BY ConstFacts DEF IInv
  <1>1. /\ start' \in [Starts -> {"new", "paid", "registered", "done", "refused"}]
        /\ \A p \in Starts : start'[p] \in Begun <=> start[p] \in Begun
        /\ start[q] \in Begun
    BY <1>0, <1>t DEF TypeOK, Begun
  <1>a. TypeOK'
    BY <1>0, <1>1, <1>t DEF TypeOK
  <1>b. Shape' /\ Lone' /\ Held' /\ LeasesFollowSessions' /\ ClosesFirst'
    BY <1>0 DEF IInv, Shape, Lone, Held, LeasesFollowSessions, ClosesFirst
  <1>c. Known'
    BY <1>0, <1>1, <1>t, TypeFacts DEF IInv, Known, TypeOK
  <1>d. Owned'
    BY <1>0, <1>1 DEF IInv, Owned, Bound, Pending, Lost
  <1> QED
    BY <1>a, <1>b, <1>c, <1>d DEF IInv

------------------------------------------------------------------------------
(* The requests that end or stop keep the invariant. *)

(* EndLookup: it may forget the registry's entry of a closed session. *)
LEMMA EndLookupKeeps ==
  ASSUME IInv, NEW e \in Enders, EndLookup(e)
  PROVE  IInv'
  <1> DEFINE s == StreamOf[e]
             place == IF record[s].phase \in {"starting", "streaming"}
                      THEN "phase" ELSE "refused"
             work == IF registry[s] # None THEN registry[s] ELSE record[s].work
             yes == TRUE
  <1>0. /\ ender[e].at = "new"
        /\ registry' = IF record[s].phase = "closed"
                       THEN [registry EXCEPT ![s] = None] ELSE registry
        /\ ender' = [ender EXCEPT ![e].at = place, ![e].ends = yes, ![e].work = work]
        /\ UNCHANGED <<streams, ctl, record, conn, cancelled, leases, closed,
                       start, payment, shutdown, overlap, stranded>>
    BY DEF EndLookup, ghosts
  <1>t. TypeOK /\ s \in Streams
    BY ConstFacts DEF IInv
  <1>1. /\ work \in Starts \cup {None}
        /\ work # None => StreamOf[work] = s /\ start[work] \in Begun
    BY <1>t, TypeFacts DEF IInv, Known
  <1>2. place \in {"phase", "refused"}
    OBVIOUS
  <1>y. yes \in BOOLEAN
    BY Zenon
  <1> HIDE DEF work, place, yes
  <1> DEFINE asked == [ender[e] EXCEPT !.at = place, !.ends = yes, !.work = work]
  <1>3. /\ ender' \in [Enders -> Ender]
        /\ ender'[e].at = place /\ ender'[e].work = work
        /\ \A f \in Enders \ {e} : ender'[f] = ender[f]
    <2>1. ender \in [Enders -> Ender] /\ ender[e] \in Ender
      BY <1>t DEF TypeOK
    <2>2. asked \in Ender /\ asked.at = place /\ asked.work = work
      BY <1>1, <1>2, <1>y, <2>1 DEF Ender
    <2>3. ender' = [ender EXCEPT ![e] = asked]
      BY <1>0, <2>1
    <2> HIDE DEF asked
    <2> QED
      BY <2>1, <2>2, <2>3
  <1>4. /\ registry' \in [Streams -> Starts \cup {None}]
        /\ \A r \in Streams : registry'[r] \in {registry[r], None}
    BY <1>0, <1>t DEF TypeOK
  <1>a. TypeOK'
    BY <1>0, <1>3, <1>4, <1>t DEF TypeOK
  <1>b. Shape'
    BY <1>0, <1>2, <1>3 DEF IInv, Shape
  <1>c. Known'
    BY <1>0, <1>1, <1>3, <1>4 DEF IInv, Known
  <1>d. Lone' /\ Held' /\ LeasesFollowSessions' /\ ClosesFirst'
    BY <1>0 DEF IInv, Lone, Held, LeasesFollowSessions, ClosesFirst
  <1>e. Owned'
    BY <1>0, <1>2, <1>3 DEF IInv, Owned, Bound, Pending, Lost
  <1> QED
    BY <1>a, <1>b, <1>c, <1>d, <1>e DEF IInv

(* EndPhase: a session that is still pending is seen to be. *)
LEMMA EndPhaseKeeps ==
  ASSUME IInv, NEW e \in Enders, EndPhase(e)
  PROVE  IInv'
  <1> DEFINE s == StreamOf[e]
             starting == record[s].phase = "starting"
  <1>0. /\ ender[e].at = "phase"
        /\ ender' = [ender EXCEPT ![e].at = "lock", ![e].starting = starting]
        /\ UNCHANGED <<streams, ctl, record, registry, conn, cancelled, leases,
                       closed, start, payment, shutdown, overlap, stranded>>
    BY DEF EndPhase, ghosts
  <1>t. TypeOK /\ ender \in [Enders -> Ender] /\ s \in Streams
    BY ConstFacts DEF IInv, TypeOK
  <1>1. starting \in BOOLEAN
    BY Zenon
  <1>2. starting <=> record[s].phase = "starting"
    BY Zenon
  <1> HIDE DEF starting
  <1>3. /\ ender' \in [Enders -> Ender]
        /\ ender'[e].at = "lock" /\ ender'[e].work = ender[e].work
        /\ ender'[e].starting = starting
        /\ \A f \in Enders \ {e} : ender'[f] = ender[f]
    BY ZenonT(60), <1>0, <1>1, <1>t DEF Ender
  <1>a. TypeOK'
    BY <1>0, <1>3, <1>t DEF TypeOK
  <1>b. Shape' /\ Known'
    BY <1>0, <1>3 DEF IInv, Shape, Known
  <1>c. Lone' /\ Held' /\ LeasesFollowSessions' /\ ClosesFirst'
    BY <1>0 DEF IInv, Lone, Held, LeasesFollowSessions, ClosesFirst
  <1>d. Owned'
    <2>1. \A q \in Starts : /\ Lost(q) => Lost(q)'
                            /\ Bound(q) => Bound(q)'
                            /\ Pending(q) => Pending(q)'
      BY <1>0, <1>3 DEF Lost, Bound, Pending
    <2>2. ASSUME NEW q \in Starts, Pending(q), ender[e].work = q
          PROVE  ender'[e].starting
      <3>1. StreamOf[q] = s
        BY <2>2, ConstFacts DEF IInv, Known
      <3> QED
        BY <1>2, <1>3, <2>2, <3>1 DEF Pending
    <2> QED
      BY <1>0, <1>3, <2>1, <2>2 DEF IInv, Owned
  <1> QED
    BY <1>a, <1>b, <1>c, <1>d DEF IInv

(* StopLock: it removes a pending session that it will also close, or      *)
(* strands it.                                                             *)
LEMMA StopLockKeeps ==
  ASSUME IInv, NEW e \in Enders, StopLock(e)
  PROVE  IInv'
  <1> DEFINE s == StreamOf[e]
             o == streams[s]
             place == IF o = None THEN "stopped" ELSE "cancel"
  <1>0. /\ ender[e].at \in {"new", "lock"}
        /\ ender' = [ender EXCEPT ![e].at = place, ![e].ctl = o]
        /\ UNCHANGED <<ctl, registry, conn, cancelled, leases, closed, start,
                       payment, shutdown, overlap>>
    BY DEF StopLock
  <1>t. /\ TypeOK /\ ender \in [Enders -> Ender] /\ s \in Streams
        /\ o \in Entries \cup {None}
    BY ConstFacts, TypeFacts DEF IInv, TypeOK
  <1>1. place \in {"stopped", "cancel"} /\ (o = None <=> place = "stopped")
    OBVIOUS
  <1> HIDE DEF place
  <1>2. /\ ender' \in [Enders -> Ender]
        /\ ender'[e].at = place /\ ender'[e].ctl = o
        /\ ender'[e].work = ender[e].work /\ ender'[e].starting = ender[e].starting
        /\ \A f \in Enders \ {e} : ender'[f] = ender[f]
    BY ZenonT(60), <1>0, <1>1, <1>t DEF Ender
  <1>3. \A q \in Starts : Bound(q) => Bound(q)'
    BY <1>0, <1>2 DEF Bound
  <1>4. CASE o # None /\ ctl[o].done = None
    <2>1. /\ o \in Starts /\ ctl[o].work = o /\ StreamOf[o] = s
          /\ start[o] \in Begun
      BY <1>4, <1>t, ConstFacts DEF IInv, Shape, Known
    <2>2. /\ record' = [record EXCEPT ![s] = [phase |-> "closed", work |-> o]]
          /\ streams' = [streams EXCEPT ![s] = None]
          /\ stranded' = IF ender[e].work = o THEN stranded ELSE stranded \cup {o}
      BY <1>4, <2>1 DEF StopLock
    <2>3. /\ record' \in [Streams -> StreamRecord] /\ record'[s].work = o
          /\ \A r \in Streams \ {s} : record'[r] = record[r]
      BY <2>1, <2>2, <1>t DEF TypeOK, StreamRecord
    <2>4. /\ streams' \in [Streams -> Entries \cup {None}] /\ streams'[s] = None
          /\ \A r \in Streams \ {s} : streams'[r] = streams[r]
      BY <2>2, <1>t DEF TypeOK
    <2>5. /\ stranded \subseteq stranded' /\ stranded' \subseteq Starts
          /\ ender[e].work # o => o \in stranded'
      BY <2>1, <2>2, <1>t DEF TypeOK
    <2>a. TypeOK'
      BY <1>0, <1>2, <2>3, <2>4, <2>5, <1>t DEF TypeOK
    <2>b. Shape'
      BY <1>0, <1>1, <1>2, <2>4, ConstFacts DEF IInv, Shape
    <2>c. Known'
      BY <1>0, <1>2, <2>1, <2>3, <2>4, ConstFacts DEF IInv, Known
    <2>d. Held'
      <3>1. \A c \in Conns : /\ conn[c].at \in HasSession /\ StreamOf[c] \notin overlap
                            => StreamOf[c] # s
        BY <1>4, ConstFacts DEF IInv, Held
      <3> QED
        BY <1>0, <2>4, <3>1, ConstFacts DEF IInv, Held
    <2>e. Lone' /\ LeasesFollowSessions' /\ ClosesFirst'
      BY <1>0 DEF IInv, Lone, LeasesFollowSessions, ClosesFirst
    <2>f. Owned'
      <3>1. \A q \in Starts \ {o} : Pending(q) => Pending(q)'
        BY <2>3, <2>4, ConstFacts DEF Pending
      <3>2. \A q \in Starts : Lost(q) => Lost(q)'
        BY <1>0, <2>5 DEF Lost
      <3>3. ASSUME NEW p \in Starts, p = o
            PROVE  Lost(p)' \/ Bound(p)'
        <4>1. CASE ender[e].work # p
          BY <2>5, <3>3, <4>1 DEF Lost
        <4>2. CASE ender[e].work = p
          <5>1. ender[e].at = "lock"
            BY <1>0, <4>2, ConstFacts DEF IInv, Shape
          <5>2. CASE Lost(p) \/ Bound(p)
            BY <1>3, <3>2, <5>2
          <5>3. CASE ender[e].starting
            <6>1. /\ ender'[e].at = "cancel" /\ ender'[e].starting
                  /\ ender'[e].work = p
              BY <1>1, <1>2, <1>4, <4>2, <5>3
            <6> QED
              BY <6>1 DEF Bound
          <5> QED
            BY <2>1, <3>3, <4>2, <5>1, <5>2, <5>3 DEF IInv, Owned
        <4> QED
          BY <4>1, <4>2
      <3>4. \A f \in Enders : ender'[f].at = "lock" => ender'[f] = ender[f]
        BY <1>1, <1>2
      <3> QED
        BY <1>0, <1>3, <3>1, <3>2, <3>3, <3>4 DEF IInv, Owned
    <2> QED
      BY <2>a, <2>b, <2>c, <2>d, <2>e, <2>f DEF IInv
  <1>5. CASE ~(o # None /\ ctl[o].done = None)
    <2>1. UNCHANGED <<record, streams, stranded>>
      BY <1>5 DEF StopLock
    <2>a. TypeOK'
      BY <1>0, <1>2, <2>1, <1>t DEF TypeOK
    <2>b. Shape' /\ Known'
      BY <1>0, <1>1, <1>2, <2>1 DEF IInv, Shape, Known
    <2>c. Lone' /\ Held' /\ LeasesFollowSessions' /\ ClosesFirst'
      BY <1>0, <2>1 DEF IInv, Lone, Held, LeasesFollowSessions, ClosesFirst
    <2>d. Owned'
      BY <1>0, <1>1, <1>2, <1>3, <2>1 DEF IInv, Owned, Pending, Lost
    <2> QED
      BY <2>a, <2>b, <2>c, <2>d DEF IInv
  <1> QED
    BY <1>4, <1>5

(* The rest of Stop only moves the request along. *)
LEMMA StopMoveKeeps ==
  ASSUME IInv, NEW e \in Enders, ender' \in [Enders -> Ender], cancelled' \subseteq Conns,
         ender[e].at \in {"cancel", "wait", "waiting"},
         ender'[e].at \in {"wait", "waiting", "stopped"},
         ender'[e].at = "wait" => ender'[e].ctl = ender[e].ctl /\ ender[e].at = "cancel",
         ender'[e].work = ender[e].work, ender'[e].starting = ender[e].starting,
         \A f \in Enders \ {e} : ender'[f] = ender[f],
         UNCHANGED <<streams, ctl, record, registry, conn, leases, closed, start,
                     payment, shutdown, overlap, stranded>>
  PROVE  IInv'
  <1>a. TypeOK'
    BY DEF IInv, TypeOK
  <1>b. Shape' /\ Known'
    BY DEF IInv, Shape, Known
  <1>c. Lone' /\ Held' /\ LeasesFollowSessions' /\ ClosesFirst'
    BY DEF IInv, Lone, Held, LeasesFollowSessions, ClosesFirst
  <1>d. Owned'
    BY DEF IInv, Owned, Bound, Pending, Lost
  <1> QED
    BY <1>a, <1>b, <1>c, <1>d DEF IInv

(* StopCancel, StopWait and StopReturns. *)
LEMMA StopRestKeeps ==
  ASSUME IInv, NEW e \in Enders, StopCancel(e) \/ StopWait(e) \/ StopReturns(e)
  PROVE  IInv'
  <1>t. /\ TypeOK /\ ender \in [Enders -> Ender]
        /\ ender[e].at \in {"cancel", "wait"} => ender[e].ctl \in Entries
    BY TypeFacts DEF IInv, TypeOK, Shape
  <1>1. CASE StopCancel(e)
    <2>1. /\ ender' \in [Enders -> Ender] /\ ender'[e].at = "wait"
          /\ ender'[e].work = ender[e].work /\ ender'[e].starting = ender[e].starting
          /\ ender'[e].ctl = ender[e].ctl
          /\ \A f \in Enders \ {e} : ender'[f] = ender[f]
      BY <1>1, <1>t DEF StopCancel, Ender
    <2>2. cancelled' \subseteq Conns
      BY <1>1, <1>t, TypeFacts DEF StopCancel, TypeOK
    <2> QED
      BY <1>1, <2>1, <2>2, StopMoveKeeps DEF StopCancel, ghosts
  <1>2. CASE StopWait(e)
    <2> DEFINE c == ctl[ender[e].ctl].done
               place == IF c = None THEN "stopped" ELSE "waiting"
    <2>1. c \in Conns \cup {None} /\ place \in {"stopped", "waiting"}
      BY <1>2, <1>t, TypeFacts DEF StopWait
    <2>2. ender' = [ender EXCEPT ![e].at = place, ![e].conn = c]
      BY <1>2 DEF StopWait
    <2> HIDE DEF c, place
    <2>3. /\ ender' \in [Enders -> Ender] /\ ender'[e].at = place
          /\ ender'[e].work = ender[e].work /\ ender'[e].starting = ender[e].starting
          /\ \A f \in Enders \ {e} : ender'[f] = ender[f]
      BY ZenonT(60), <2>1, <2>2, <1>t DEF Ender
    <2> QED
      BY <1>2, <1>t, <2>1, <2>3, StopMoveKeeps DEF StopWait, ghosts, TypeOK
  <1>3. CASE StopReturns(e)
    <2>1. /\ ender' \in [Enders -> Ender] /\ ender'[e].at = "stopped"
          /\ ender'[e].work = ender[e].work /\ ender'[e].starting = ender[e].starting
          /\ \A f \in Enders \ {e} : ender'[f] = ender[f]
      BY <1>3, <1>t DEF StopReturns, Ender
    <2> QED
      BY <1>3, <1>t, <2>1, StopMoveKeeps DEF StopReturns, ghosts, TypeOK
  <1> QED
    BY <1>1, <1>2, <1>3

(* EndClose: the request does what it was bound to. *)
LEMMA EndCloseKeeps ==
  ASSUME IInv, NEW e \in Enders, EndClose(e)
  PROVE  IInv'
  <1> DEFINE work == ender[e].work
  <1>0. /\ ender[e].at = "stopped"
        /\ ender' = [ender EXCEPT ![e].at = "done"]
        /\ \/ ~ender[e].starting /\ UNCHANGED payment
           \/ ender[e].starting /\ (CloseSucceeds(work) \/ CloseFails(work))
        /\ registry' = [registry EXCEPT ![StreamOf[e]] = None] \/ UNCHANGED registry
        /\ UNCHANGED <<streams, ctl, record, conn, cancelled, leases, closed,
                       start, shutdown, overlap, stranded>>
    BY DEF EndClose, ghosts
  <1>t. /\ TypeOK /\ ender \in [Enders -> Ender] /\ payment \in [Starts -> Payment]
        /\ work \in Starts \cup {None}
    BY TypeFacts DEF IInv, TypeOK
  <1>1. /\ ender' \in [Enders -> Ender] /\ ender'[e].at = "done"
        /\ ender'[e].work = work
        /\ \A f \in Enders \ {e} : ender'[f] = ender[f]
    BY <1>0, <1>t DEF Ender
  <1>2. /\ payment' \in [Starts -> Payment]
        /\ \A q \in Starts : payment[q] # "open" => payment'[q] # "open"
        /\ ender[e].starting /\ work # None => payment'[work] # "open"
    BY <1>0, <1>t DEF CloseSucceeds, CloseFails, Payment
  <1>3. /\ registry' \in [Streams -> Starts \cup {None}]
        /\ \A r \in Streams : registry'[r] \in {registry[r], None}
    BY <1>0, <1>t DEF TypeOK
  <1>a. TypeOK'
    BY <1>0, <1>1, <1>2, <1>3, <1>t DEF TypeOK
  <1>b. Shape' /\ Known'
    BY <1>0, <1>1, <1>3 DEF IInv, Shape, Known
  <1>c. Lone' /\ Held' /\ LeasesFollowSessions'
    BY <1>0 DEF IInv, Lone, Held, LeasesFollowSessions
  <1>d. ClosesFirst'
    BY <1>0, <1>2 DEF IInv, ClosesFirst
  <1>e. Owned'
    <2>1. \A q \in Starts : Bound(q) => Bound(q)'
      BY <1>0, <1>1, <1>2, ConstFacts DEF Bound
    <2> QED
      BY <1>0, <1>1, <2>1 DEF IInv, Owned, Pending, Lost
  <1> QED
    BY <1>a, <1>b, <1>c, <1>d, <1>e DEF IInv

------------------------------------------------------------------------------
(* Shutdown keeps the invariant: what it removes is stranded. *)

(* Shutdown. *)
LEMMA ShutdownKeeps ==
  ASSUME IInv, Shutdown
  PROVE  IInv'
  <1> DEFINE pending == {s \in Streams : streams[s] # None /\ ctl[streams[s]].done = None}
  <1>0. /\ cancelled' = cancelled \cup ({ctl[o].cancel : o \in Registered} \ {None})
        /\ streams' = [s \in Streams |-> IF s \in pending THEN None ELSE streams[s]]
        /\ shutdown' = [at |-> "waiting",
                        waits |-> {ctl[o].done : o \in Registered} \ {None}]
        /\ stranded' = stranded \cup {streams[s] : s \in pending}
        /\ UNCHANGED <<ctl, record, registry, conn, leases, closed, start, ender,
                       payment, overlap>>
    BY DEF Shutdown
  <1>t. TypeOK
    BY DEF IInv
  <1>1. Registered \subseteq Entries
    BY <1>t DEF TypeOK, Registered, Range
  <1>2. /\ cancelled' \subseteq Conns
        /\ shutdown' \in [at : {"no", "waiting", "done"}, waits : SUBSET Conns]
    BY <1>0, <1>1, <1>t, TypeFacts DEF TypeOK
  <1>3. \A s \in pending : streams[s] \in Starts
    BY <1>t, TypeFacts, ConstFacts DEF IInv, Shape
  <1>4. /\ stranded \subseteq stranded' /\ stranded' \subseteq Starts
        /\ \A s \in pending : streams[s] \in stranded'
    BY <1>0, <1>3, <1>t DEF TypeOK
  <1>5. /\ streams' \in [Streams -> Entries \cup {None}]
        /\ \A s \in Streams : streams'[s] = IF s \in pending THEN None ELSE streams[s]
    BY <1>0, <1>t DEF TypeOK
  <1>a. TypeOK'
    BY <1>0, <1>2, <1>4, <1>5, <1>t DEF TypeOK
  <1>b. Shape' /\ Known'
    BY <1>0, <1>5, ConstFacts DEF IInv, Shape, Known
  <1>c. Lone' /\ LeasesFollowSessions' /\ ClosesFirst'
    BY <1>0 DEF IInv, Lone, LeasesFollowSessions, ClosesFirst
  <1>d. Held'
    <2>1. \A c \in Conns : /\ conn[c].at \in HasSession /\ StreamOf[c] \notin overlap
                          => StreamOf[c] \notin pending
      BY ConstFacts DEF IInv, Held
    <2> QED
      BY <1>0, <1>5, <2>1, ConstFacts DEF IInv, Held
  <1>e. Owned'
    <2>1. \A q \in Starts : (Lost(q) => Lost(q)') /\ (Bound(q) => Bound(q)')
      BY <1>0, <1>4 DEF Lost, Bound
    <2>2. \A q \in Starts : Pending(q) => Pending(q)' \/ Lost(q)'
      BY <1>0, <1>4, <1>5, ConstFacts DEF Pending, Lost
    <2> QED
      BY <1>0, <2>1, <2>2 DEF IInv, Owned
  <1> QED
    BY <1>a, <1>b, <1>c, <1>d, <1>e DEF IInv

(* ShutdownReturns. *)
LEMMA ShutdownReturnsKeeps ==
  ASSUME IInv, ShutdownReturns
  PROVE  IInv'
  <1>1. shutdown' \in [at : {"no", "waiting", "done"}, waits : SUBSET Conns]
    BY DEF ShutdownReturns, IInv, TypeOK
  <1> QED
    BY <1>1, CancelKeeps DEF ShutdownReturns, ghosts, IInv, TypeOK

------------------------------------------------------------------------------
(* Nothing is there at the start. *)
LEMMA Initially ==
  Init => IInv
  <1> SUFFICES ASSUME Init PROVE IInv
    OBVIOUS
  <1> USE DEF Init
  <1>1. TypeOK
    <2>1. ender \in [Enders -> Ender]
      BY DEF Ender
    <2>2. /\ ctl \in [Entries -> Ctl] /\ conn \in [Conns -> Conn]
          /\ record \in [Streams -> StreamRecord]
      BY DEF Ctl, Conn, StreamRecord, ConnPlaces
    <2> QED
      BY <2>1, <2>2 DEF TypeOK, Payment
  <1>2. Shape /\ Known
    BY ConstFacts DEF Shape, Known, InUse, ConnPlaces
  <1>3. Lone /\ Held /\ LeasesFollowSessions /\ ClosesFirst
    BY DEF Lone, Held, LeasesFollowSessions, ClosesFirst, HasSession, HasLease, InUse
  <1>4. Owned
    BY DEF Owned, Begun
  <1> QED
    BY <1>1, <1>2, <1>3, <1>4 DEF IInv

(* The invariant holds in every state of the table, whatever the requests  *)
(* and connections do and in whichever order.                              *)
THEOREM Inductive == Spec => []IInv
  <1>1. ASSUME IInv, [Next]_vars
        PROVE  IInv'
    <2>1. ASSUME NEW c \in Conns,
                 AcceptCheck(c) \/ ConnStep(c) \/ SessionEnds(c) \/ OnEnd(c)
          PROVE  IInv'
      BY <1>1, <2>1, ConnKeeps
    <2>2. ASSUME NEW q \in Starts, StartPay(q) \/ StartRegister(q) \/ StartUpsert(q)
          PROVE  IInv'
      BY <1>1, <2>2, StartPayKeeps, StartRegisterKeeps, StartUpsertKeeps
    <2>3. ASSUME NEW e \in Enders, EnderStep(e)
          PROVE  IInv'
      BY <1>1, <2>3, EndLookupKeeps, EndPhaseKeeps, StopLockKeeps, StopRestKeeps,
         EndCloseKeeps DEF EnderStep
    <2>4. CASE Shutdown \/ ShutdownReturns
      BY <1>1, <2>4, ShutdownKeeps, ShutdownReturnsKeeps
    <2>5. CASE UNCHANGED vars
      BY <1>1, <2>5, CancelKeeps DEF vars, ghosts, IInv, TypeOK
    <2> QED
      BY <1>1, <2>1, <2>2, <2>3, <2>4, <2>5 DEF Next
  <1> QED
    BY Initially, <1>1, PTL DEF Spec

(* Every variable of the table keeps its type; in particular no done       *)
(* channel that is closed is nil, and only paid sessions are stranded.     *)
THEOREM TypeCorrect == Spec => []TypeOK
  <1>1. IInv => TypeOK
    BY DEF IInv
  <1> QED
    BY Inductive, <1>1, PTL

(* A connection holds its GPU lease exactly as long as its session lasts,  *)
(* unless connections overlap on the stream.                               *)
THEOREM LeasesExact == Spec => []LeasesFollowSessions
  <1>1. IInv => LeasesFollowSessions
    BY DEF IInv
  <1> QED
    BY Inductive, <1>1, PTL

(* Stop and Shutdown find every session in the table, with its own cancel  *)
(* and done, unless connections overlap on the stream.                     *)
THEOREM AllReachable == Spec => []SessionsReachable
  <1>1. IInv => SessionsReachable
    BY DEF IInv, Held, SessionsReachable
  <1> QED
    BY Inductive, <1>1, PTL

(* CloseSession has been called for every paid session that is over, and   *)
(* has closed it at the payment daemon unless the call failed, but for the *)
(* ways of losing it that PaymentsClose names.                             *)
THEOREM AllPaymentsClose == Spec => []PaymentsClose
  <1>1. ASSUME IInv PROVE PaymentsClose
    <2> SUFFICES ASSUME NEW q \in Starts, Over(q), q \notin stranded,
                        StreamOf[q] \notin overlap
                 PROVE  payment[q] # "open"
      BY <1>1 DEF PaymentsClose, IInv, TypeOK, Payment
    <2>t. TypeOK /\ StreamOf[q] \in Streams
      BY <1>1, ConstFacts DEF IInv
    <2>1. start[q] \in Begun /\ ~Lost(q)
      BY DEF Over, Lost, Begun
    <2>2. ~Pending(q)
      <3>1. q \notin Range(streams)
        BY ConstFacts DEF Over, Registered
      <3> QED
        BY <2>t, <3>1 DEF Pending, Range, TypeOK
    <2>3. Bound(q)
      BY <1>1, <2>1, <2>2 DEF IInv, Owned
    <2>4. \A c \in Conns : ~(/\ conn[c].at \in InUse \ {"persist", "cleanup"}
                             /\ conn[c].ctl = q)
      BY DEF Over
    <2>5. \A e \in Enders :
            ~(/\ ender[e].at \in {"cancel", "wait", "waiting", "stopped"}
              /\ ender[e].work = q)
      BY <1>1, ConstFacts DEF IInv, Known, Over
    <2> QED
      BY <2>3, <2>4, <2>5 DEF Bound
  <1> QED
    BY Inductive, <1>1, PTL
=============================================================================
