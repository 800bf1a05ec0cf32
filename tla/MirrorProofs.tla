---------------------------- MODULE MirrorProofs ----------------------------
(***************************************************************************)
(* What the mirror loop guarantees for every set of segments, any number   *)
(* of versions and of scans, and whatever FFmpeg does between two of them. *)
(*                                                                         *)
(* The invariant relates the four pictures of a file: the file itself, the *)
(* size the last scan knew, the size this scan has read, and the sink.     *)
(* Ages: a picture of a file that still exists is never ahead of it.       *)
(* Fresh: without faults the sink is not behind what a finished scan knew, *)
(* so a file whose size has not changed since need not be uploaded again.  *)
(* Exact: with FFmpeg gone, the final scan makes the two agree.            *)
(*                                                                         *)
(* The last part is about single calls over HTTP, the module Delivery,     *)
(* which shares no state with the loop.                                    *)
(***************************************************************************)
EXTENDS Mirror, Delivery, TLAPS

Types ==
  /\ local \in [Files -> 0..MaxVersion] /\ sink \in [Files -> 0..MaxVersion]
  /\ known \in [Files -> 0..MaxVersion] /\ current \in [Files -> 0..MaxVersion]
  /\ unlinked \subseteq Segments /\ listed \subseteq Segments
  /\ pending \subseteq Files /\ stage \in Stages
  /\ ffmpeg \in BOOLEAN /\ cancelled \in BOOLEAN
  /\ final \in BOOLEAN /\ quiet \in BOOLEAN
  /\ faults \in 0..MaxFaults

Ages ==
  /\ \A f \in unlinked : local[f] = 0
  /\ \A f \in Files \ unlinked :
       /\ sink[f] <= local[f]
       /\ known[f] # 0 => local[f] # 0
       /\ current[f] # 0 => local[f] # 0
  /\ \A f \in Segments \ unlinked : current[f] <= local[f]

(* What a scan visits in its second and third stage; only a file that was  *)
(* rotated out is found missing.                                           *)
Visits ==
  /\ stage = "upload" => \A f \in pending : current[f] # 0
  /\ stage = "delete" => pending \subseteq Deletions
  /\ \A f \in Files \ unlinked :
       \/ stage \in {"wait", "done"}
       \/ stage = "walk" /\ f \in pending
       \/ known[f] # 0 => current[f] # 0

Listing ==
  /\ \A f \in Segments : sink[f] # 0 => f \in listed
  /\ \A f \in listed : sink[f] # 0 \/ f \in unlinked

Fresh ==
  faults = 0 => \A f \in Files :
    /\ stage \in {"walk", "wait", "done"} =>
         /\ known[f] = 0 => sink[f] = 0
         /\ f \in Segments \ unlinked => known[f] <= sink[f]
    /\ stage = "upload" =>
         /\ known[f] = 0 /\ current[f] = 0 => sink[f] = 0
         /\ f \in Segments \ (unlinked \cup pending) => current[f] <= sink[f]
    /\ stage = "delete" =>
         /\ current[f] = 0 /\ f \notin pending => sink[f] = 0
         /\ f \in Segments \ unlinked => current[f] <= sink[f]

Gone ==
  quiet =>
    /\ final /\ ~ffmpeg
    /\ \A f \in Files :
         \/ stage = "walk" /\ f \in pending
         \/ current[f] = Size(f)

Exact ==
  quiet /\ faults = 0 => \A f \in Files :
    /\ stage = "upload" /\ f \notin pending /\ local[f] # 0 => sink[f] = local[f]
    /\ stage = "delete" =>
         /\ local[f] # 0 => sink[f] = local[f]
         /\ f \notin pending => sink[f] = local[f]
    /\ stage = "done" => sink[f] = local[f]

IInv == Types /\ Ages /\ Visits /\ Listing /\ Fresh /\ Gone /\ Exact
------------------------------------------------------------------------------
(* The invariant holds before the first scan. *)
LEMMA InitIInv == Init => IInv
<1> SUFFICES ASSUME Init PROVE IInv OBVIOUS
<1>1. Types
  <2>1. Nothing \in [Files -> 0..MaxVersion] BY MirrorAssumption DEF Nothing
  <2>2. /\ ffmpeg \in BOOLEAN /\ cancelled \in BOOLEAN
        /\ final \in BOOLEAN /\ quiet \in BOOLEAN
    BY Zenon DEF Init
  <2>3. QED BY <2>1, <2>2, MirrorAssumption DEF Init, Stages, Types
<1>2. \A f \in Files : local[f] = 0 /\ sink[f] = 0 /\ known[f] = 0 /\ current[f] = 0
  BY DEF Init, Nothing
<1>3. Ages /\ Visits /\ Listing /\ Fresh /\ Gone /\ Exact
  BY <1>2 DEF Init, Files, Ages, Visits, Listing, Fresh, Gone, Exact
<1>4. QED BY <1>1, <1>3 DEF IInv

(* FFmpeg appends to a file or rewrites the playlist. *)
LEMMA WriteStep ==
  ASSUME IInv, NEW f \in Files, Write(f)
  PROVE  IInv'
<1> USE MirrorAssumption DEF IInv, Types, Files, encoder
<1>1. Types' BY DEF Write
<1>2. Ages' BY DEF Write, Ages, Size, isPlaylist
<1>3. Visits' BY DEF Write, Ages, Visits, Deletions, Uploads, Size, isPlaylist
<1>4. Listing' BY DEF Write, Ages, Visits, Listing, Deletions
<1>5. Fresh' BY DEF Write, Ages, Visits, Fresh, Uploads, Deletions, isPlaylist
<1>6. Gone' BY DEF Write, Gone, Size, isPlaylist
<1>7. Exact' BY DEF Write, Ages, Visits, Fresh, Gone, Exact, Size, Uploads, Deletions, isPlaylist
<1>8. QED BY <1>1, <1>2, <1>3, <1>4, <1>5, <1>6, <1>7

(* FFmpeg rotates a segment out. *)
LEMMA UnlinkStep ==
  ASSUME IInv, NEW f \in Files, Unlink(f)
  PROVE  IInv'
<1> USE MirrorAssumption DEF IInv, Types, Files, encoder
<1>1. Types' BY DEF Unlink
<1>2. Ages' BY DEF Unlink, Ages, Size, isPlaylist
<1>3. Visits' BY DEF Unlink, Ages, Visits, Deletions, Uploads, Size, isPlaylist
<1>4. Listing' BY DEF Unlink, Ages, Visits, Listing, Deletions
<1>5. Fresh' BY DEF Unlink, Ages, Visits, Fresh, Uploads, Deletions, isPlaylist
<1>6. Gone' BY DEF Unlink, Gone, Size, isPlaylist
<1>7. Exact' BY DEF Unlink, Ages, Visits, Fresh, Gone, Exact, Size, Uploads, Deletions, isPlaylist
<1>8. QED BY <1>1, <1>2, <1>3, <1>4, <1>5, <1>6, <1>7

(* FFmpeg ends. *)
LEMMA ExitStep ==
  ASSUME IInv, FFmpegExits
  PROVE  IInv'
<1> USE MirrorAssumption DEF IInv, Types, Files, encoder
<1>1. Types' BY DEF FFmpegExits
<1>2. Ages' BY DEF FFmpegExits, Ages, Size, isPlaylist
<1>3. Visits' BY DEF FFmpegExits, Ages, Visits, Deletions, Uploads, Size, isPlaylist
<1>4. Listing' BY DEF FFmpegExits, Ages, Visits, Listing, Deletions
<1>5. Fresh' BY DEF FFmpegExits, Ages, Visits, Fresh, Uploads, Deletions, isPlaylist
<1>6. Gone' BY DEF FFmpegExits, Gone, Size, isPlaylist
<1>7. Exact' BY DEF FFmpegExits, Ages, Visits, Fresh, Gone, Exact, Size, Uploads, Deletions, isPlaylist
<1>8. QED BY <1>1, <1>2, <1>3, <1>4, <1>5, <1>6, <1>7

(* The context is done. *)
LEMMA CancelStep ==
  ASSUME IInv, Cancel
  PROVE  IInv'
<1> USE MirrorAssumption DEF IInv, Types, Files, encoder
<1>1. Types' BY DEF Cancel
<1>2. Ages' BY DEF Cancel, Ages, Size, isPlaylist
<1>3. Visits' BY DEF Cancel, Ages, Visits, Deletions, Uploads, Size, isPlaylist
<1>4. Listing' BY DEF Cancel, Ages, Visits, Listing, Deletions
<1>5. Fresh' BY DEF Cancel, Ages, Visits, Fresh, Uploads, Deletions, isPlaylist
<1>6. Gone' BY DEF Cancel, Gone, Size, isPlaylist
<1>7. Exact' BY DEF Cancel, Ages, Visits, Fresh, Gone, Exact, Size, Uploads, Deletions, isPlaylist
<1>8. QED BY <1>1, <1>2, <1>3, <1>4, <1>5, <1>6, <1>7

(* The walk reads a size. *)
LEMMA WalkStep ==
  ASSUME IInv, NEW f \in Files, Walk(f)
  PROVE  IInv'
<1> USE MirrorAssumption DEF IInv, Types, Files, encoder
<1>1. Types'
  <2>1. Size(f) \in 0..MaxVersion BY DEF Size
  <2>2. QED BY <2>1 DEF Walk
<1>2. Ages' BY DEF Walk, Ages, Size, isPlaylist
<1>3. Visits' BY DEF Walk, Ages, Visits, Deletions, Uploads, Size, isPlaylist
<1>4. Listing' BY DEF Walk, Ages, Visits, Listing, Deletions
<1>5. Fresh' BY DEF Walk, Ages, Visits, Fresh, Uploads, Deletions, isPlaylist
<1>6. Gone' BY DEF Walk, Gone, Size, isPlaylist
<1>7. Exact' BY DEF Walk, Ages, Visits, Fresh, Gone, Exact, Size, Uploads, Deletions, isPlaylist
<1>8. QED BY <1>1, <1>2, <1>3, <1>4, <1>5, <1>6, <1>7

(* A file is uploaded, or not. *)
LEMMA UploadStep ==
  ASSUME IInv, NEW f \in Files, Upload(f)
  PROVE  IInv'
<1> USE MirrorAssumption DEF IInv, Types, Files, encoder, Put
<1>1. Types' BY DEF Upload
<1>2. Ages' BY DEF Upload, Ages, Size, isPlaylist
<1>3. Visits' BY DEF Upload, Ages, Visits, Deletions, Uploads, Size, isPlaylist
<1>4. Listing' BY DEF Upload, Ages, Visits, Listing, Deletions
<1>5. Fresh' BY DEF Upload, Ages, Visits, Fresh, Uploads, Deletions, isPlaylist
<1>6. Gone' BY DEF Upload, Gone, Size, isPlaylist
<1>7. Exact' BY DEF Upload, Ages, Visits, Fresh, Gone, Exact, Size, Uploads, Deletions, isPlaylist
<1>8. QED BY <1>1, <1>2, <1>3, <1>4, <1>5, <1>6, <1>7

(* A file is removed from the sink, or not. *)
LEMMA DeleteStep ==
  ASSUME IInv, NEW f \in Files, Delete(f)
  PROVE  IInv'
<1> USE MirrorAssumption DEF IInv, Types, Files, encoder, Remove
<1>1. Types' BY DEF Delete
<1>2. Ages' BY DEF Delete, Ages, Size, isPlaylist
<1>3. Visits' BY DEF Delete, Ages, Visits, Deletions, Uploads, Size, isPlaylist
<1>4. Listing' BY DEF Delete, Ages, Visits, Listing, Deletions
<1>5. Fresh' BY DEF Delete, Ages, Visits, Fresh, Uploads, Deletions, isPlaylist
<1>6. Gone' BY DEF Delete, Gone, Size, isPlaylist
<1>7. Exact' BY DEF Delete, Ages, Visits, Fresh, Gone, Exact, Size, Uploads, Deletions, isPlaylist
<1>8. QED BY <1>1, <1>2, <1>3, <1>4, <1>5, <1>6, <1>7

(* A stage of the scan ends. *)
LEMMA StageStep ==
  ASSUME IInv, StageEnds
  PROVE  IInv'
<1> USE MirrorAssumption DEF IInv, Types, Files, encoder, Stages
<1>1. Types' BY DEF StageEnds, Uploads, Deletions
<1>2. Ages' BY DEF StageEnds, Ages, Size, isPlaylist
<1>3. Visits' BY DEF StageEnds, Ages, Visits, Deletions, Uploads, Size, isPlaylist
<1>4. Listing' BY DEF StageEnds, Ages, Visits, Listing, Deletions
<1>5. Fresh' BY DEF StageEnds, Ages, Visits, Fresh, Uploads, Deletions, isPlaylist
<1>6. Gone' BY DEF StageEnds, Gone, Size, isPlaylist
<1>7. Exact' BY DEF StageEnds, Ages, Visits, Fresh, Gone, Exact, Size, Uploads, Deletions, isPlaylist
<1>8. QED BY <1>1, <1>2, <1>3, <1>4, <1>5, <1>6, <1>7

(* Another scan begins. *)
LEMMA ScanStep ==
  ASSUME IInv, NextScan
  PROVE  IInv'
<1> USE MirrorAssumption DEF IInv, Types, Files, encoder, Stages
<1>1. Types' BY DEF NextScan
<1>2. Ages' BY DEF NextScan, Ages, Size, isPlaylist
<1>3. Visits' BY DEF NextScan, Ages, Visits, Deletions, Uploads, Size, isPlaylist
<1>4. Listing' BY DEF NextScan, Ages, Visits, Listing, Deletions
<1>5. Fresh' BY DEF NextScan, Ages, Visits, Fresh, Uploads, Deletions, isPlaylist
<1>6. Gone' BY DEF NextScan, Gone, Size, isPlaylist
<1>7. Exact' BY DEF NextScan, Ages, Visits, Fresh, Gone, Exact, Size, Uploads, Deletions, isPlaylist
<1>8. QED BY <1>1, <1>2, <1>3, <1>4, <1>5, <1>6, <1>7

(* The final scan begins. *)
LEMMA FinalStep ==
  ASSUME IInv, FinalScan
  PROVE  IInv'
<1> USE MirrorAssumption DEF IInv, Types, Files, encoder, Stages
<1>1. Types' BY DEF FinalScan
<1>2. Ages' BY DEF FinalScan, Ages, Size, isPlaylist
<1>3. Visits' BY DEF FinalScan, Ages, Visits, Deletions, Uploads, Size, isPlaylist
<1>4. Listing' BY DEF FinalScan, Ages, Visits, Listing, Deletions
<1>5. Fresh' BY DEF FinalScan, Ages, Visits, Fresh, Uploads, Deletions, isPlaylist
<1>6. Gone' BY DEF FinalScan, Gone, Size, isPlaylist
<1>7. Exact' BY DEF FinalScan, Ages, Visits, Fresh, Gone, Exact, Size, Uploads, Deletions, isPlaylist
<1>8. QED BY <1>1, <1>2, <1>3, <1>4, <1>5, <1>6, <1>7

(* A step that changes nothing. *)
LEMMA Stutter == IInv /\ UNCHANGED vars => IInv'
BY DEF vars, IInv, Types, Ages, Visits, Listing, Fresh, Gone, Exact, Deletions,
       Size, isPlaylist

(* The inductive invariant holds in every reachable state of the loop. *)
THEOREM Inductive == Spec => []IInv
<1>1. IInv /\ [Next]_vars => IInv'
  BY WriteStep, UnlinkStep, ExitStep, CancelStep, WalkStep, UploadStep,
     DeleteStep, StageStep, ScanStep, FinalStep, Stutter
  DEF Next, MirrorStep
<1>2. QED BY <1>1, InitIInv, PTL DEF Spec

(* Type correctness of the mirror loop. *)
THEOREM TypeCorrect == Spec => []TypeOK
<1>1. IInv => TypeOK BY DEF IInv, Types, TypeOK
<1>2. QED BY <1>1, Inductive, PTL

(* When FFmpeg was gone before the final scan and nothing failed, the sink *)
(* and the list for the recording bridge agree with the local directory.   *)
THEOREM MirrorIsFaithful == Spec => []SinkMatches
<1>1. IInv => SinkMatches
  <2> SUFFICES ASSUME IInv, stage = "done", quiet, faults = 0
               PROVE  /\ sink = local
                      /\ {f \in Segments : sink[f] # 0} \subseteq listed
                      /\ \A f \in listed : sink[f] # 0 \/ f \in unlinked
    BY DEF SinkMatches
  <2>1. \A f \in Files : sink[f] = local[f] BY DEF IInv, Exact
  <2>2. sink = local BY <2>1 DEF IInv, Types
  <2>3. QED BY <2>2 DEF IInv, Listing
<1>2. QED BY <1>1, Inductive, PTL

------------------------------------------------------------------------------
(* The calls over HTTP, the module Delivery: how often the other side is   *)
(* called, however long each request takes.                                *)
(*                                                                         *)
(* The bounds are matters of time.  Send's backoffs are a lower bound of   *)
(* the age of its context (Backing): before a fourth attempt it would be   *)
(* 31 seconds, and no attempt begins after 30.  The client's timeouts and  *)
(* the pauses are an upper bound of the age of an event (Hurrying).        *)

(* What is under way, and which attempts were made. *)
Calls ==
  /\ kind \in Kinds
  /\ at \in {"new", "ready", "waiting", "asleep"} \cup Returned
  /\ attempts \in 0..3 /\ age \in Nat
  /\ at = "new" => attempts = 0
  /\ at \in {"ready", "asleep"} => attempts < Attempts
  /\ at \in {"waiting", "asleep"} => attempts > 0
  /\ attempts <= Attempts
  /\ flying \subseteq 1..attempts /\ received \subseteq 1..attempts

(* Send has slept through the backoffs before the attempt it is at. *)
Backing ==
  kind = "webhook" =>
    /\ at \in {"ready", "waiting"} => age < 30
    /\ at = "ready" => attempts <= 2
    /\ attempts >= 2 => age >= 1
    /\ attempts >= 3 => age >= 6
    /\ at = "ready" /\ attempts >= 1 => age >= 1
    /\ at = "ready" /\ attempts >= 2 => age >= 6
    /\ at = "new" => age = 0

(* Six seconds for each attempt of an event and the pause after it; the    *)
(* context of a closing session leaves no more than its own five.          *)
Hurrying ==
  /\ kind = "finalEvent" => age <= 5 /\ (at \in {"waiting", "asleep"} => age < 5)
  /\ kind = "event" =>
       /\ at = "new" => age = 0
       /\ at = "ready" => age <= 6 * attempts
       /\ at = "waiting" => age <= 6 * (attempts - 1)
       /\ at = "asleep" => age <= 6 * attempts - 1
       /\ at \in Returned => age <= 17

CallInv ==
  Calls /\ Backing /\ Hurrying

(* The backoffs, the attempts and the times of each kind of call. *)
LEMMA CallFacts ==
  /\ Len(Backoffs) = 3
  /\ Backoffs[1] = 1 /\ Backoffs[2] = 5 /\ Backoffs[3] = 25
  /\ kind = "webhook" => Attempts = 4 /\ Timeout = 10 /\ Deadline = 30
  /\ kind \in {"event", "finalEvent"} => Attempts = 3 /\ Timeout = 5
  /\ kind = "finalEvent" => Deadline = 5
  /\ kind \in {"post", "fetch", "upload"} => Attempts = 1
  /\ Timeout \in Nat /\ Attempts \in {1, 3, 4}
<1>1. /\ Len(Backoffs) = 3
      /\ Backoffs[1] = 1 /\ Backoffs[2] = 5 /\ Backoffs[3] = 25
  BY DEF Backoffs
<1>2. QED
  BY <1>1 DEF Attempts, Timeout, Deadline, Events, workerEventPostAttempts

(* A request takes no longer than it may. *)
LEMMA RequestTime ==
  ASSUME Calls, Backing, Hurrying, at = "waiting",
         NEW took \in Durations
  PROVE  /\ took \in Nat
         /\ kind \in {"event", "finalEvent"} => took <= 5
         /\ kind = "finalEvent" => age + took <= 5
<1>1. kind = "webhook" \/ kind = "finalEvent" \/ ~Expires BY DEF Expires
<1>2. /\ Longest \in Nat /\ Longest <= Timeout
      /\ kind = "finalEvent" => age + Longest <= 5
  BY <1>1, CallFacts DEF Longest, Expires, Calls, Backing, Hurrying
<1>3. took \in Nat /\ took <= Longest
  BY <1>2, DeliveryAssumption DEF Durations
<1>4. QED BY <1>2, <1>3, CallFacts DEF Calls

(* No call is under way at first. *)
LEMMA CallInit ==
  DeliveryInit => CallInv
<1> SUFFICES ASSUME DeliveryInit PROVE CallInv OBVIOUS
<1>1. /\ at = "new" /\ attempts = 0 /\ kind \in Kinds
      /\ flying = {} /\ received = {}
  BY DEF DeliveryInit
<1>2. /\ age \in Nat
      /\ kind # "finalEvent" => age = 0
      /\ kind = "finalEvent" => age <= 5
  BY CallFacts, DeliveryAssumption DEF DeliveryInit
<1>3. QED
  BY <1>1, <1>2, CallFacts DEF CallInv, Calls, Backing, Hurrying, Returned,
     Errors

(* The call begins: nothing is sent yet. *)
LEMMA BeginStep ==
  ASSUME CallInv, Call \/ ShellCall \/ emitEvent
  PROVE  CallInv'
<1>1. /\ at = "new" /\ attempts = 0
      /\ UNCHANGED <<kind, url, attempts, age, flying, received, dest>>
      /\ at' \in {"ready", "nil", "failed"}
  BY DEF CallInv, Calls, Call, ShellCall, emitEvent
<1>2. Attempts' = Attempts BY <1>1 DEF Attempts
<1>3. Calls' BY <1>1, <1>2, CallFacts DEF CallInv, Calls, Returned, Errors
<1>4. Backing' BY <1>1 DEF CallInv, Backing
<1>5. Hurrying' BY <1>1 DEF CallInv, Hurrying, Returned, Errors
<1>6. QED BY <1>3, <1>4, <1>5 DEF CallInv

(* An attempt, sent or not. *)
LEMMA RequestStep ==
  ASSUME CallInv, Request \/ PostUnsent
  PROVE  CallInv'
<1>1. /\ at = "ready" /\ attempts' = attempts + 1
      /\ UNCHANGED <<kind, url, age, received, dest>>
      /\ \/ /\ at' = "waiting" /\ flying' = flying \cup {attempts'}
            /\ ~(Expires /\ age >= Deadline)
         \/ /\ at' = "failed" /\ flying' = flying /\ kind \in {"event", "finalEvent"}
  BY DEF Request, PostUnsent, ContextDone, Events
<1>2. Attempts' = Attempts BY <1>1 DEF Attempts
<1>3. Calls'
  <2>1. attempts' \in 0..3 /\ attempts' <= Attempts /\ attempts' > 0
    BY <1>1, CallFacts DEF CallInv, Calls, Backing, Kinds, Events
  <2>2. flying' \subseteq 1..attempts' /\ received' \subseteq 1..attempts'
    <3>1. /\ attempts \in Nat /\ attempts' = attempts + 1
          /\ flying \subseteq 1..attempts /\ received \subseteq 1..attempts
          /\ flying' \subseteq flying \cup {attempts'} /\ received' = received
      BY <1>1 DEF CallInv, Calls
    <3>2. 1..attempts \subseteq 1..attempts' /\ attempts' \in 1..attempts'
      BY <3>1
    <3>3. QED BY <3>1, <3>2
  <2>3. QED BY <1>1, <1>2, <2>1, <2>2 DEF CallInv, Calls, Returned, Errors
<1>4. Backing' BY <1>1, CallFacts DEF CallInv, Calls, Backing, Expires
<1>5. Hurrying'
  BY <1>1, CallFacts DEF CallInv, Calls, Hurrying, Expires, Returned, Errors
<1>6. QED BY <1>3, <1>4, <1>5 DEF CallInv

(* Another attempt is made only if one is left and, for an event, its      *)
(* context is not done.                                                    *)
LEMMA AgainFacts ==
  ASSUME CallInv, at = "waiting", age' \in Nat, kind' = kind
  PROVE  /\ Again \in {"failed", "asleep"}
         /\ Again = "asleep" =>
              /\ attempts < Attempts
              /\ kind = "finalEvent" => age' < 5
BY CallFacts DEF CallInv, Calls, Again, GivesUp, ContextDone, Expires,
   Events

(* An attempt ends, with or without an answer. *)
LEMMA AnswerStep ==
  ASSUME CallInv, Answer \/ NoAnswer
  PROVE  CallInv'
<1>1. /\ at = "waiting" /\ UNCHANGED <<kind, url, attempts, flying, received>>
      /\ \E took \in Durations : age' = age + took
  BY DEF Answer, NoAnswer
<1>2. /\ age' \in Nat /\ age' >= age
      /\ kind = "event" => age' <= age + 5
      /\ kind = "finalEvent" => age' <= 5
  <2>1. PICK took \in Durations : age' = age + took BY <1>1
  <2>2. QED BY <1>1, <2>1, RequestTime DEF CallInv, Calls
<1>3. /\ Again \in {"failed", "asleep"}
      /\ Again = "asleep" =>
           attempts < Attempts /\ (kind = "finalEvent" => age' < 5)
  BY <1>1, <1>2, AgainFacts
<1>4. /\ at' \in {"asleep"} \cup Returned
      /\ at' = "asleep" =>
           attempts < Attempts /\ (kind = "finalEvent" => age' < 5)
  <2>1. CASE NoAnswer
    BY <1>3, <2>1 DEF NoAnswer, Returned, Errors
  <2>2. CASE Answer
    <3>1. PICK status \in Statuses :
            \/ at' = Sent(status)
            \/ \E decodes \in BOOLEAN : at' = Posted(status, decodes)
            \/ at' \in {"nil", "failed", Again}
      BY <2>2 DEF Answer, Copied
    <3>2. \A decodes \in BOOLEAN : Posted(status, decodes) \in Returned
      BY DEF Posted, Returned, Errors
    <3>3. Sent(status) \in {"nil", Again}
      BY DEF Sent
    <3>4. QED BY <1>3, <3>1, <3>2, <3>3 DEF Returned, Errors
  <2>3. QED BY <2>1, <2>2
<1>5. Attempts' = Attempts BY <1>1 DEF Attempts
<1>6. at' \notin {"new", "ready", "waiting"} BY <1>4 DEF Returned, Errors
<1>7. Calls' BY <1>1, <1>2, <1>4, <1>5, <1>6 DEF CallInv, Calls
<1>8. Backing' BY <1>1, <1>2, <1>6 DEF CallInv, Calls, Backing
<1>9. Hurrying'
  BY <1>1, <1>2, <1>4, <1>6, CallFacts DEF CallInv, Calls, Hurrying, Returned,
     Errors
<1>10. QED BY <1>7, <1>8, <1>9 DEF CallInv

(* The sleep between two attempts. *)
LEMMA WakeStep ==
  ASSUME CallInv, Wake
  PROVE  CallInv'
<1>1. /\ at = "asleep" /\ UNCHANGED <<kind, url, attempts, flying, received, dest>>
      /\ age' = age + Pause
      /\ at' = IF kind = "webhook" /\ age' >= Deadline THEN "deadline" ELSE "ready"
  BY DEF Wake
<1>2. /\ attempts \in 1..3 /\ attempts < Attempts
      /\ kind \in {"event", "finalEvent", "webhook"}
  BY CallFacts, <1>1 DEF CallInv, Calls, Kinds, Events
<1>3. /\ kind = "webhook" => Pause = IF attempts = 1 THEN 1
                                   ELSE IF attempts = 2 THEN 5 ELSE 25
      /\ kind # "webhook" => Pause = 1
  BY <1>2, CallFacts DEF Pause, Events
<1>4. age \in Nat /\ age' \in Nat BY <1>1, <1>2, <1>3 DEF CallInv, Calls
<1>5. Attempts' = Attempts BY <1>1 DEF Attempts
<1>6. at' \in {"ready", "deadline"} BY <1>1
<1>7. Calls' BY <1>1, <1>2, <1>4, <1>5, <1>6 DEF CallInv, Calls, Returned, Errors
<1>8. Backing' BY <1>1, <1>2, <1>3, <1>4, CallFacts DEF CallInv, Backing
<1>9. Hurrying'
  BY <1>1, <1>2, <1>3, <1>4, CallFacts DEF CallInv, Hurrying, Returned, Errors
<1>10. QED BY <1>7, <1>8, <1>9 DEF CallInv

(* The network and the session's context; the call does not see them. *)
LEMMA NetworkStep ==
  ASSUME CallInv, Receive \/ Lose \/ CancelContext \/ UNCHANGED deliveryVars
  PROVE  CallInv'
<1>1. /\ UNCHANGED <<kind, url, at, attempts, age>>
      /\ flying' \subseteq flying /\ received \subseteq received'
      /\ received' \subseteq received \cup flying
  <2>1. CASE Receive
    BY <2>1 DEF Receive
  <2>2. CASE Lose
    BY <2>2 DEF Lose
  <2>3. CASE CancelContext \/ UNCHANGED deliveryVars
    BY <2>3 DEF CancelContext, deliveryVars
  <2>4. QED BY <2>1, <2>2, <2>3
<1>2. Attempts' = Attempts BY <1>1 DEF Attempts
<1>3. Calls' BY <1>1, <1>2 DEF CallInv, Calls
<1>4. Backing' /\ Hurrying' BY <1>1 DEF CallInv, Backing, Hurrying
<1>5. QED BY <1>3, <1>4 DEF CallInv

(* The invariant holds in every state of a call, for any durations. *)
THEOREM CallInductive == DeliverySpec => []CallInv
<1>1. CallInv /\ [DeliveryNext]_deliveryVars => CallInv'
  BY BeginStep, RequestStep, AnswerStep, WakeStep, NetworkStep DEF DeliveryNext
<1>2. QED BY <1>1, CallInit, PTL DEF DeliverySpec

(* What Calls does not say of the types. *)
Switches ==
  url \in BOOLEAN /\ stopped \in BOOLEAN /\ dest \in {"none", "part", "whole"}

(* Type correctness of a call; no more attempts are made than there are. *)
THEOREM CallTypes == DeliverySpec => []DeliveryTypeOK
<1>1. DeliveryInit => Switches
  BY Zenon DEF DeliveryInit, Switches
<1>2. Switches /\ [DeliveryNext]_deliveryVars => Switches'
  <2> SUFFICES ASSUME Switches, [DeliveryNext]_deliveryVars PROVE Switches'
    OBVIOUS
  <2>1. CASE Call \/ ShellCall \/ emitEvent \/ PostUnsent \/ Request
    BY <2>1, Zenon DEF Switches, Call, ShellCall, emitEvent, PostUnsent, Request
  <2>2. CASE NoAnswer \/ Wake \/ CancelContext
    BY <2>2, Zenon DEF Switches, NoAnswer, Wake, CancelContext
  <2>3. CASE Receive \/ Lose
    BY <2>3, Zenon DEF Switches, Receive, Lose
  <2>4. CASE Answer
    <3>1. UNCHANGED <<url, stopped>> /\ dest' \in {dest, "whole", "part"}
      BY <2>4, Zenon DEF Answer
    <3>2. QED BY <3>1, Zenon DEF Switches
  <2>5. CASE UNCHANGED deliveryVars
    BY <2>5, Zenon DEF Switches, deliveryVars
  <2>6. QED BY <2>1, <2>2, <2>3, <2>4, <2>5 DEF DeliveryNext
<1>3. CallInv /\ Switches => DeliveryTypeOK
  <2> SUFFICES ASSUME CallInv, Switches PROVE DeliveryTypeOK OBVIOUS
  <2>1. /\ kind \in Kinds /\ attempts \in 0..Attempts /\ age \in Nat
        /\ at \in {"new", "ready", "waiting", "asleep"} \cup Returned
        /\ flying \subseteq 1..attempts /\ received \subseteq 1..attempts
    BY CallFacts DEF CallInv, Calls
  <2>2. QED BY <2>1, Zenon DEF Switches, DeliveryTypeOK
<1>4. QED BY <1>1, <1>2, <1>3, CallInductive, PTL DEF DeliverySpec

(* Three copies at most of a webhook or an event, one of anything else,    *)
(* and 17 seconds at most for an event, however long each request takes:   *)
(* the fourth attempt of Send is never made.                               *)
THEOREM FewCopies == DeliverySpec => []CopiesBounded
<1>1. CallInv => CopiesBounded
  <2> SUFFICES ASSUME CallInv PROVE CopiesBounded OBVIOUS
  <2> DEFINE n == IF kind \in Events \cup {"webhook"} THEN 3 ELSE 1
  <2>1. n \in {1, 3} /\ attempts \in 0..n
    BY CallFacts DEF CallInv, Calls, Kinds, Events
  <2>2. received \cup flying \subseteq 1..n BY <2>1 DEF CallInv, Calls
  <2>3. kind \in Events => age <= 17
    BY CallFacts DEF CallInv, Calls, Hurrying, Events
  <2>4. QED BY <2>2, <2>3 DEF CopiesBounded
<1>2. QED BY <1>1, CallInductive, PTL

=============================================================================
