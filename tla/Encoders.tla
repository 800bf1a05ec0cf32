------------------------------ MODULE Encoders ------------------------------
(***************************************************************************)
(* The FFmpeg children and what feeds them: SystemRunner.Run for a batch   *)
(* encode (internal/providers/ffmpeg), and for a live one the RTMP         *)
(* connection (internal/providers/ingest/rtmp), the pipe of its session,   *)
(* the adapter of internal/service/liverunner and LiveSystemEncoder.Start. *)
(*                                                                         *)
(* A connection's handlers run one after another on its goroutine.  It may *)
(* publish more than once; every publish has a pipe and, if accepted, a    *)
(* session of its own.  The session is only its end here: LiveSession has  *)
(* the rest.  exec.Cmd, io.Pipe and the RTMP library are external.         *)
(***************************************************************************)
EXTENDS Naturals, FiniteSets

CONSTANTS
  MaxPublishes,  \* bound: publish commands on the connection
  Scenarios      \* what to look at, each with its bounds

(* A batch encode, a live one, or the listener by itself; how often the    *)
(* connection publishes, how many chunks of media each publish brings, how *)
(* many encodes are cancelled or children fail by themselves.              *)
ASSUME EncodersAssumption ==
  /\ MaxPublishes \in Nat \ {0}
  /\ Scenarios \subseteq [kind : {"batch", "live", "listen"},
                          publishes : 0..MaxPublishes, chunks : Nat, faults : Nat]

VARIABLES
  setup,      \* the scenario, fixed
  conn,       \* what the connection's goroutine is in
  cur,        \* the publish whose pipe connHandler holds, 0 none
  onEnd,      \* the session connHandler.onEnd ends, 0 none
  wclosed,    \* the pipe's writer is closed
  rclosed,    \* the pipe's reader is closed
  session,    \* runSession
  cancelled,  \* the context given to Start or Run is done
  copier,     \* the goroutine of exec.Cmd that feeds stdin, or how it ended
  child,      \* the process
  line,       \* the progress on stderr that is not read yet, 0 none
  fed,        \* ghost: chunks that reached the child
  scan,       \* the goroutine that reads stderr
  processed,  \* the reading: tenths of seconds, here chunks
  progress,   \* the channel of a batch encode is closed
  start,      \* Start and Run, or what they returned
  provider,   \* Provider.Listen
  server,     \* Provider.server is set
  listener,   \* Provider.listener is set
  serve,      \* the goroutine Listen starts for srv.Serve
  done,       \* the context given to Listen is done
  faults      \* counter for the bound

handler == <<conn, cur, onEnd>>
pipe == <<wclosed, rclosed>>
process == <<copier, child, line, fed>>
reading == <<scan, processed, progress>>
ingest == <<provider, server, listener, serve, done>>
encodersVars == <<setup, handler, pipe, session, cancelled, process, reading,
                  start, ingest, faults>>

------------------------------------------------------------------------------
Publishes == 1..MaxPublishes
kind == setup.kind

(* A child that hangs is alive, but reads and prints nothing any more. *)
Alive == {"running", "hangs"}

(* exec.Cmd.Wait is over; so are Start and Run. *)
Returned == {"nil", "error"}
CopierOver == {"eof", "broken", "epipe"}

AllOf(value) == [k \in Publishes |-> value]

(* A batch encode has no connection, and its child no stdin to feed.       *)
(* Once a connection is made, what becomes of the listener is nothing to   *)
(* it, so each is looked at by itself.                                     *)
EncodersInit ==
  /\ setup \in Scenarios
  /\ conn = "none" /\ cur = 0 /\ onEnd = 0
  /\ wclosed = AllOf(FALSE) /\ rclosed = AllOf(FALSE)
  /\ session = AllOf("none") /\ cancelled = AllOf(FALSE)
  /\ copier = [k \in Publishes |-> IF kind = "batch" THEN "eof" ELSE "off"]
  /\ child = AllOf("off") /\ line = AllOf(0) /\ fed = AllOf(0)
  /\ scan = AllOf("off") /\ processed = AllOf(0) /\ progress = FALSE
  /\ start = [k \in Publishes |-> IF kind = "batch" /\ k = 1 THEN "called"
                                                              ELSE "off"]
  /\ provider = (IF kind = "live" THEN "selecting" ELSE "new")
  /\ serve = (IF kind = "live" THEN "accepting" ELSE "off")
  /\ server = (kind = "live") /\ listener = (kind = "live")
  /\ done = FALSE /\ faults = 0

Set(f, k, value) == [f EXCEPT ![k] = value]

------------------------------------------------------------------------------
(* Provider.Listen and Stop. *)

Listen ==
  /\ kind = "listen" /\ provider = "new"
  /\ \/ listener' = TRUE /\ provider' = "bound"
     \/ UNCHANGED listener /\ provider' = "returned"
  /\ UNCHANGED <<setup, handler, pipe, session, cancelled, process, reading,
                 start, server, serve, done, faults>>

(* The server is made after the lock was given up, and a goroutine is      *)
(* started to serve it.                                                    *)
NewServer ==
  /\ provider = "bound"
  /\ server' = TRUE /\ provider' = "selecting" /\ serve' = "started"
  /\ UNCHANGED <<setup, handler, pipe, session, cancelled, process, reading,
                 start, listener, done, faults>>

(* The goroutine reaches srv.Serve.  What the library does with a server   *)
(* that is closed already is not in this repository: it may refuse it, or  *)
(* accept on a listener that nobody will close any more.  Accept may also  *)
(* fail by itself.                                                         *)
Serve ==
  /\ \/ serve \in {"started", "closed"} /\ serve' = "accepting" /\ UNCHANGED faults
     \/ serve = "closed" /\ serve' = "over" /\ UNCHANGED faults
     \/ /\ kind = "listen" /\ serve = "accepting" /\ serve' = "over"
        /\ faults < setup.faults /\ faults' = faults + 1
  /\ UNCHANGED <<setup, handler, pipe, session, cancelled, process, reading,
                 start, provider, server, listener, done>>

(* srv.Close: it ends a Serve that accepts.                                *)
ServerClose ==
  serve' = CASE serve = "started" -> "closed"
             [] serve = "accepting" -> "over"
             [] OTHER -> serve

(* Provider.Stop.  Without a listener it is an error; without a server yet *)
(* the bound listener is left open, and Listen goes on to serve it.        *)
StopProvider ==
  /\ listener' = FALSE /\ server' = (server /\ ~listener)
  /\ IF listener /\ server THEN ServerClose ELSE UNCHANGED serve

(* A call of Stop from outside. *)
Stop ==
  /\ kind = "listen" /\ listener /\ StopProvider
  /\ UNCHANGED <<setup, handler, pipe, session, cancelled, process, reading,
                 start, provider, done, faults>>

Cancel ==
  /\ kind = "listen" /\ ~done /\ done' = TRUE
  /\ UNCHANGED <<setup, handler, pipe, session, cancelled, process, reading,
                 start, provider, server, listener, serve, faults>>

(* The context is done: Listen calls Stop and then waits for Serve. *)
ListenDone ==
  /\ provider = "selecting" /\ done
  /\ provider' = "draining" /\ StopProvider
  /\ UNCHANGED <<setup, handler, pipe, session, cancelled, process, reading,
                 start, done, faults>>

(* serveErr, in either of the two places that receive it. *)
ListenReturns ==
  /\ provider \in {"selecting", "draining"} /\ serve = "over"
  /\ provider' = "returned"
  /\ UNCHANGED <<setup, handler, pipe, session, cancelled, process, reading,
                 start, server, listener, serve, done, faults>>

------------------------------------------------------------------------------
(* connHandler.  An error from a handler ends the connection. *)

Connect ==
  /\ kind = "live" /\ conn = "none"
  /\ conn' = "idle"
  /\ UNCHANGED <<setup, cur, onEnd, pipe, session, cancelled, process, reading,
                 start, ingest, faults>>

(* OnPublish: the new pipe takes the place of any other. *)
OnPublish ==
  /\ conn = "idle" /\ cur < setup.publishes
  /\ cur' = cur + 1 /\ conn' = "accepting"
  /\ UNCHANGED <<setup, onEnd, pipe, session, cancelled, process, reading,
                 start, ingest, faults>>

(* OnPublish after Accept, which starts runSession, or refuses. *)
Accepted ==
  /\ conn = "accepting"
  /\ \/ /\ session' = Set(session, cur, "running")
        /\ start' = Set(start, cur, "called")
        /\ onEnd' = cur /\ conn' = "idle"
        /\ UNCHANGED pipe
     \/ /\ wclosed' = Set(wclosed, cur, TRUE)
        /\ rclosed' = Set(rclosed, cur, TRUE)
        /\ conn' = "closing"
        /\ UNCHANGED <<session, start, onEnd>>
  /\ UNCHANGED <<setup, cur, cancelled, process, reading, ingest, faults>>

(* OnAudio, OnVideo: without a pipe the chunk is dropped. *)
pipeData ==
  /\ conn = "idle" /\ cur # 0
  /\ fed[cur] + (IF copier[cur] = "writing" THEN 1 ELSE 0) < setup.chunks
  /\ conn' = "writing"
  /\ UNCHANGED <<setup, cur, onEnd, pipe, session, cancelled, process, reading,
                 start, ingest, faults>>

(* The write to a pipe closed at either end fails. *)
WriteFails ==
  /\ conn = "writing" /\ (wclosed[cur] \/ rclosed[cur])
  /\ conn' = "closing"
  /\ UNCHANGED <<setup, cur, onEnd, pipe, session, cancelled, process, reading,
                 start, ingest, faults>>

(* The publisher goes away; a handler that is blocked does not notice. *)
HangUp ==
  /\ conn = "idle"
  /\ conn' = "closing"
  /\ UNCHANGED <<setup, cur, onEnd, pipe, session, cancelled, process, reading,
                 start, ingest, faults>>

(* OnClose: first the pipe's writer. *)
OnClose ==
  /\ conn = "closing"
  /\ conn' = "closed"
  /\ wclosed' = IF cur = 0 THEN wclosed ELSE Set(wclosed, cur, TRUE)
  /\ UNCHANGED <<setup, cur, onEnd, rclosed, session, cancelled, process,
                 reading, start, ingest, faults>>

(* OnClose: then its reader, and OnEnd cancels the session's context. *)
Ended ==
  /\ conn = "closed"
  /\ conn' = "gone" /\ onEnd' = 0
  /\ rclosed' = IF cur = 0 THEN rclosed ELSE Set(rclosed, cur, TRUE)
  /\ cancelled' = IF onEnd = 0 THEN cancelled ELSE Set(cancelled, onEnd, TRUE)
  /\ UNCHANGED <<setup, cur, wclosed, session, process, reading, start, ingest,
                 faults>>

------------------------------------------------------------------------------
(* runSession. *)

(* session.Close, on one end of the pipe. *)
Close(end, k) == Set(end, k, TRUE)

(* It ends on the context, on the encoder's exit or for lack of balance;   *)
(* then the deferred sess.Close closes the writer and the reader.          *)
SessionEnds(k) ==
  /\ session[k] = "running"
  /\ session' = Set(session, k, "closing")
  /\ wclosed' = Close(wclosed, k)
  /\ UNCHANGED <<setup, handler, rclosed, cancelled, process, reading, start,
                 ingest, faults>>

SessionCloses(k) ==
  /\ session[k] = "closing"
  /\ session' = Set(session, k, "over")
  /\ rclosed' = Close(rclosed, k)
  /\ UNCHANGED <<setup, handler, wclosed, cancelled, process, reading, start,
                 ingest, faults>>

(* Stop and Shutdown of the live runner; for a batch encode the signal. *)
CancelEncode(k) ==
  /\ start[k] # "off" /\ ~cancelled[k]
  /\ faults < setup.faults /\ faults' = faults + 1
  /\ cancelled' = Set(cancelled, k, TRUE)
  /\ UNCHANGED <<setup, handler, pipe, session, process, reading, start,
                 ingest>>

------------------------------------------------------------------------------
(* The child and exec.Cmd. *)

(* cmd.Start and the goroutines beside it; if it fails nothing is started, *)
(* and a batch encode leaves its progress channel open.                    *)
Spawn(k) ==
  /\ start[k] = "called"
  /\ \/ /\ start' = Set(start, k, "waiting")
        /\ child' = Set(child, k, "running") /\ scan' = Set(scan, k, "scanning")
        /\ copier' = IF kind = "batch" THEN copier ELSE Set(copier, k, "reading")
        /\ UNCHANGED faults
     \/ /\ start' = Set(start, k, "error") /\ UNCHANGED <<child, scan, copier>>
        /\ faults < setup.faults /\ faults' = faults + 1
  /\ UNCHANGED <<setup, handler, pipe, session, cancelled, line, fed, processed,
                 progress, ingest>>

(* A read of the pipe: a closed reader wins over a closed writer, and that *)
(* over a chunk.                                                           *)
CopierReads(k) ==
  /\ copier[k] = "reading"
  /\ \/ rclosed[k] /\ copier' = Set(copier, k, "broken") /\ UNCHANGED conn
     \/ /\ ~rclosed[k] /\ wclosed[k]
        /\ copier' = Set(copier, k, "eof") /\ UNCHANGED conn
     \/ /\ ~rclosed[k] /\ ~wclosed[k] /\ conn = "writing" /\ cur = k
        /\ copier' = Set(copier, k, "writing") /\ conn' = "idle"
  /\ UNCHANGED <<setup, cur, onEnd, pipe, session, cancelled, child, line, fed,
                 reading, start, ingest, faults>>

(* The write to the child's stdin; it fails once the child is gone, and    *)
(* blocks as long as the child is there and does not read.                 *)
CopierWrites(k) ==
  /\ copier[k] = "writing"
  /\ \/ /\ child[k] = "running"
        /\ fed' = Set(fed, k, fed[k] + 1)
        /\ copier' = Set(copier, k, "reading")
     \/ /\ child[k] \notin Alive
        /\ copier' = Set(copier, k, "epipe") /\ UNCHANGED fed
  /\ UNCHANGED <<setup, handler, pipe, session, cancelled, child, line, reading,
                 start, ingest, faults>>

(* A batch child reads its input itself. *)
ChildReads(k) ==
  /\ kind = "batch" /\ child[k] = "running" /\ fed[k] < setup.chunks
  /\ fed' = Set(fed, k, fed[k] + 1)
  /\ UNCHANGED <<setup, handler, pipe, session, cancelled, copier, child, line,
                 reading, start, ingest, faults>>

(* A progress line; not every one is later than the one before. *)
ChildPrints(k) ==
  /\ child[k] = "running" /\ line[k] = 0
  /\ \E t \in 1..fed[k] : line' = Set(line, k, t)
  /\ UNCHANGED <<setup, handler, pipe, session, cancelled, copier, child, fed,
                 reading, start, ingest, faults>>

(* At the end of its input the child ends, in order or not; a batch one    *)
(* reads a file.                                                           *)
ChildEnds(k) ==
  /\ child[k] = "running"
  /\ copier[k] \in {"eof", "broken"}
  /\ \E how \in {"ok", "bad"} : child' = Set(child, k, how)
  /\ UNCHANGED <<setup, handler, pipe, session, cancelled, copier, line, fed,
                 reading, start, ingest, faults>>

(* It stops reading its stdin. *)
ChildHangs(k) ==
  /\ kind = "live" /\ child[k] = "running"
  /\ faults < setup.faults /\ faults' = faults + 1
  /\ child' = Set(child, k, "hangs")
  /\ UNCHANGED <<setup, handler, pipe, session, cancelled, copier, line, fed,
                 reading, start, ingest>>

(* SIGTERM may end it, and it may fail by itself. *)
ChildFails(k) ==
  /\ child[k] \in Alive
  /\ \/ start[k] = "term" /\ UNCHANGED faults
     \/ faults < setup.faults /\ faults' = faults + 1
  /\ child' = Set(child, k, "bad")
  /\ UNCHANGED <<setup, handler, pipe, session, cancelled, copier, line, fed,
                 reading, start, ingest>>

------------------------------------------------------------------------------
(* stderr *)

parseLiveProgress(k) ==
  IF line[k] <= processed[k] THEN processed[k] ELSE line[k]

(* A live line is applied at once, a batch one is sent to the channel. *)
Scan(k) ==
  /\ scan[k] = "scanning"
  /\ line[k] # 0 /\ line' = Set(line, k, 0)
  /\ IF kind = "live"
     THEN /\ processed' = Set(processed, k, parseLiveProgress(k))
          /\ UNCHANGED scan
     ELSE scan' = Set(scan, k, "sending") /\ UNCHANGED processed
  /\ UNCHANGED <<setup, handler, pipe, session, cancelled, copier, child, fed,
                 progress, start, ingest, faults>>

(* The runner's goroutine takes what is sent; after the block that says    *)
(* "end", ParseProgressStream reads no more.                               *)
Drain(k) ==
  /\ scan[k] = "sending"
  /\ \E next \in {"scanning", "done"} : scan' = Set(scan, k, next)
  /\ UNCHANGED <<setup, handler, pipe, session, cancelled, process, processed,
                 progress, start, ingest, faults>>

(* End of stderr: the child is gone and nothing is left, or Wait has       *)
(* closed it over a line that nobody will read.                            *)
ScanEnds(k) ==
  /\ scan[k] = "scanning"
  /\ \/ child[k] \notin Alive /\ line[k] = 0
     \/ start[k] = "reaped"
  /\ scan' = Set(scan, k, "done")
  /\ UNCHANGED <<setup, handler, pipe, session, cancelled, process, processed,
                 progress, start, ingest, faults>>

------------------------------------------------------------------------------
(* LiveSystemEncoder.Start and SystemRunner.Run. *)

Terminate(k) ==
  /\ start[k] = "waiting" /\ cancelled[k]
  /\ start' = Set(start, k, "term")
  /\ UNCHANGED <<setup, handler, pipe, session, cancelled, process, reading,
                 ingest, faults>>

(* Mutant of Kill: the grace period has no end. *)
KillNever(k) ==
  /\ FALSE
  /\ UNCHANGED encodersVars

(* The grace period is over. *)
Kill(k) ==
  /\ start[k] = "term"
  /\ start' = Set(start, k, "killed")
  /\ child' = IF child[k] \in Alive THEN Set(child, k, "bad") ELSE child
  /\ UNCHANGED <<setup, handler, pipe, session, cancelled, copier, line, fed,
                 reading, ingest, faults>>

(* Mutant of Wait: the select has lost its second case. *)
WaitCancelled(k) ==
  /\ start[k] \in {"term", "killed"}
  /\ child[k] \notin Alive /\ copier[k] \in CopierOver
  /\ start' = Set(start, k, "reaped")
  /\ UNCHANGED <<setup, handler, pipe, session, cancelled, process, reading,
                 ingest, faults>>

(* cmd.Wait: the child is gone and so is the copier. *)
Wait(k) ==
  /\ start[k] \in {"waiting", "term", "killed"}
  /\ child[k] \notin Alive /\ copier[k] \in CopierOver
  /\ start' = Set(start, k, "reaped")
  /\ UNCHANGED <<setup, handler, pipe, session, cancelled, process, reading,
                 ingest, faults>>

(* The result: an exit code, or else an error of the copier, is an error;  *)
(* EPIPE is not.                                                           *)
Result(k) ==
  IF child[k] = "ok" /\ copier[k] # "broken" THEN "nil" ELSE "error"

(* Mutant of Return: the stderr goroutine is not waited for. *)
ReturnEarly(k) ==
  /\ start[k] = "reaped"
  /\ start' = Set(start, k, Result(k))
  /\ progress' = (kind = "batch")
  /\ UNCHANGED <<setup, handler, pipe, session, cancelled, process, scan,
                 processed, ingest, faults>>

(* wg.Wait, and a batch encode closes its channel. *)
Return(k) ==
  /\ start[k] = "reaped" /\ scan[k] = "done"
  /\ start' = Set(start, k, Result(k))
  /\ progress' = (kind = "batch")
  /\ UNCHANGED <<setup, handler, pipe, session, cancelled, process, scan,
                 processed, ingest, faults>>

------------------------------------------------------------------------------
(* One disjunct for each goroutine. *)
Publisher == Connect \/ OnPublish \/ pipeData \/ HangUp
Handler == Accepted \/ WriteFails \/ OnClose \/ Ended
Provider == Listen \/ NewServer \/ ListenDone \/ ListenReturns
Copier(k) == CopierReads(k) \/ CopierWrites(k)
Child(k) == ChildReads(k) \/ ChildPrints(k) \/ ChildHangs(k) \/ ChildFails(k)
Stderr(k) == Scan(k) \/ Drain(k) \/ ScanEnds(k)
StartOrRun(k) == Spawn(k) \/ Terminate(k) \/ Kill(k) \/ Wait(k) \/ Return(k)

EncodersNext ==
  \/ Publisher \/ Handler \/ Provider \/ Serve \/ Stop \/ Cancel
  \/ \E k \in Publishes :
       \/ SessionEnds(k) \/ SessionCloses(k) \/ CancelEncode(k)
       \/ Copier(k) \/ Child(k) \/ ChildEnds(k) \/ Stderr(k) \/ StartOrRun(k)

(* A session has to end once it is cancelled or its encoder has returned. *)
SessionMust(k) ==
  \/ SessionEnds(k) /\ (cancelled[k] \/ start[k] \in Returned)
  \/ SessionCloses(k)

(* Goroutines run, timers fire, and a live child that reads its stdin ends *)
(* at the end of it.  A child may hang.  Nothing makes a publisher send or *)
(* leave, a child fail or obey SIGTERM, an Accept fail.                    *)
EncodersFairness ==
  /\ WF_encodersVars(Provider) /\ WF_encodersVars(serve # "accepting" /\ Serve)
  /\ WF_encodersVars(Handler)
  /\ \A k \in Publishes :
       /\ WF_encodersVars(SessionMust(k)) /\ WF_encodersVars(Copier(k))
       /\ WF_encodersVars(kind = "live" /\ ChildEnds(k))
       /\ WF_encodersVars(Stderr(k)) /\ WF_encodersVars(StartOrRun(k))

EncodersSpec == EncodersInit /\ [][EncodersNext]_encodersVars /\ EncodersFairness

------------------------------------------------------------------------------
(* Properties. *)

(* Every variable has its type. *)
EncodersTypeOK ==
  /\ setup \in Scenarios /\ cur \in 0..MaxPublishes /\ onEnd \in 0..MaxPublishes
  /\ conn \in {"none", "idle", "accepting", "writing", "closing", "closed",
               "gone"}
  /\ wclosed \in [Publishes -> BOOLEAN] /\ rclosed \in [Publishes -> BOOLEAN]
  /\ session \in [Publishes -> {"none", "running", "closing", "over"}]
  /\ cancelled \in [Publishes -> BOOLEAN]
  /\ copier \in [Publishes -> {"off", "reading", "writing"} \cup CopierOver]
  /\ child \in [Publishes -> {"off", "ok", "bad"} \cup Alive]
  /\ line \in [Publishes -> 0..setup.chunks]
  /\ processed \in [Publishes -> 0..setup.chunks]
  /\ fed \in [Publishes -> 0..setup.chunks]
  /\ scan \in [Publishes -> {"off", "scanning", "sending", "done"}]
  /\ progress \in BOOLEAN
  /\ start \in [Publishes -> {"off", "called", "waiting", "term", "killed",
                              "reaped"} \cup Returned]
  /\ provider \in {"new", "bound", "selecting", "draining", "returned"}
  /\ serve \in {"off", "started", "closed", "accepting", "over"}
  /\ server \in BOOLEAN /\ listener \in BOOLEAN
  /\ done \in BOOLEAN /\ faults \in 0..setup.faults

(* The progress channel is closed only when nothing will be sent to it:    *)
(* a send on a closed channel would end the process.                       *)
NoSendAfterClose == progress => scan[1] \notin {"scanning", "sending"}

(* A cancelled encode ends, and so does one whose connection is gone, for  *)
(* every order of the connection closing, the copier being blocked, the    *)
(* child hanging or ignoring SIGTERM and stderr not being read to its end. *)
(* So does one whose session is over, unless its child hangs: the end of a *)
(* session closes the pipe but does not cancel the encode.  The exception: *)
(* closing a connection tells only the session of its last accepted        *)
(* publish, not one it published before.                                   *)
EncodersEnd ==
  \A k \in Publishes :
    /\ (/\ start[k] # "off"
        /\ \/ cancelled[k]
           \/ /\ conn = "gone"
              /\ \A later \in Publishes : later > k => session[later] = "none")
         ~> (start[k] \in Returned)
    /\ (start[k] # "off" /\ session[k] = "over")
         ~> (start[k] \in Returned \/ child[k] = "hangs")

(* A child that failed is noticed with the next chunk the publisher sends: *)
(* not before, because Wait also waits for the copier, which is reading.   *)
CrashNoticed ==
  \A k \in Publishes :
    (child[k] = "bad" /\ conn = "writing" /\ cur = k)
      ~> (start[k] \in Returned)
=============================================================================
