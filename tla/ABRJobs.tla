------------------------------ MODULE ABRJobs -------------------------------
(***************************************************************************)
(* The ABR-ladder runner (internal/service/abrrunner) over the job         *)
(* repository (internal/repo/jobs): one job encodes, uploads and debits    *)
(* its renditions one after the other, then uploads the master manifest.   *)
(*                                                                         *)
(* Submit saves the record, queues the id and only then reads the record   *)
(* back to add the plan line, so a worker may already be running the job   *)
(* when the plan line is written: the three steps of a submission          *)
(* interleave with the workers, and so do the halves of Transition and     *)
(* MarkError.  Nothing resumes ABR jobs after a restart.                   *)
(***************************************************************************)
EXTENDS Integers, Sequences, FiniteSets, Functions

CONSTANTS
  Jobs,           \* job ids; two callers may use the same id
  Planned,        \* jobs the plan callback of Run knows
  Ladder,         \* renditions per job: len(PresetNames)
  Workers,        \* MaxConcurrent goroutines
  Callers,        \* Submit calls, one each
  BatchSlots,     \* batch leases the GPU scheduler grants at a time
  Priced,         \* jobs with a work id and a positive unit price
  MaxFaults       \* bound: failing store operations

ASSUME ABRAssumption ==
  /\ Planned \subseteq Jobs /\ Priced \subseteq Jobs
  /\ Ladder \in Nat \ {0} /\ BatchSlots \in Nat /\ MaxFaults \in Nat
  /\ IsFiniteSet(Workers) /\ IsFiniteSet(Callers)

VARIABLES
  record,    \* the job bucket of the store
  queue, active,    \* Runner.queue, Runner.active
  worker,    \* what each worker goroutine is doing
  leased,    \* workers holding a GPU lease
  drainers,  \* goroutines that range over a progress channel nobody closed
  caller,    \* what each Submit call is doing
  uploaded,  \* per job: the renditions whose output was stored
  applied,   \* per job: the debit sequence numbers the payment daemon applied
  announced, \* per job: the renditions of job.rendition.complete webhooks
  answered,  \* per job: the job.complete and job.error webhooks fired
  stopping,  \* has the root context been cancelled?
  faults     \* counter for the bound

vars == <<record, queue, active, worker, leased, drainers, caller, uploaded,
          applied, announced, answered, stopping, faults>>
outside == <<uploaded, applied, announced, answered>>

Phases == {"none", "queued", "downloading", "probing", "encoding", "uploading",
           "complete", "error"}
IsTerminal(phase) == phase \in {"complete", "error"}

Record == [phase : Phases, code : STRING, plan : BOOLEAN]
Absent == [phase |-> "none", code |-> "", plan |-> FALSE]

NoJob == "no job"
Idle == [at |-> "idle", job |-> NoJob, to |-> "none", rend |-> 0,
         buf |-> Absent, code |-> ""]

Init ==
  /\ record = [j \in Jobs |-> Absent]
  /\ queue = <<>> /\ active = {}
  /\ worker = [w \in Workers |-> Idle]
  /\ leased = {}
  /\ drainers = 0
  /\ caller = [c \in Callers |-> [at |-> "new", job |-> NoJob, buf |-> Absent]]
  /\ uploaded = [j \in Jobs |-> {}]
  /\ applied = [j \in Jobs |-> {}]
  /\ announced = [j \in Jobs |-> {}]
  /\ answered = [j \in Jobs |-> {}]
  /\ stopping = FALSE
  /\ faults = 0

------------------------------------------------------------------------------
(* Submit, after the job id and every preset name were found valid. *)

SubmitSave(c, j) ==
  /\ caller[c].at = "new"
  /\ record' = [record EXCEPT ![j] = [Absent EXCEPT !.phase = "queued"]]
  /\ caller' = [caller EXCEPT ![c].at = "queue", ![c].job = j]
  /\ UNCHANGED <<queue, active, worker, leased, drainers, outside, stopping,
                 faults>>

SubmitQueue(c) ==
  /\ caller[c].at = "queue"
  /\ queue' = Append(queue, caller[c].job)
  /\ caller' = [caller EXCEPT ![c].at = "planRead"]
  /\ UNCHANGED <<record, active, worker, leased, drainers, outside, stopping,
                 faults>>

(* saveRenditionPlan: Get, then Save of what was read with the plan line. *)
PlanRead(c) ==
  /\ caller[c].at = "planRead"
  /\ caller' = [caller EXCEPT ![c].at = "planWrite",
                              ![c].buf = record[caller[c].job]]
  /\ UNCHANGED <<record, queue, active, worker, leased, drainers, outside,
                 stopping, faults>>

PlanWrite(c) ==
  /\ caller[c].at = "planWrite"
  /\ record' = [record EXCEPT
       ![caller[c].job] = [caller[c].buf EXCEPT !.plan = TRUE]]
  /\ caller' = [caller EXCEPT ![c].at = "returned", ![c].buf = Absent]
  /\ UNCHANGED <<queue, active, worker, leased, drainers, outside, stopping,
                 faults>>

------------------------------------------------------------------------------
(* The worker loop. *)

(* Mutant of Popped: the newest id is taken and the older ones dropped. *)
PoppedNewest(q) == {k \in {Len(q)} \ {0} : q[k] \notin active}

(* The position pop stops at: the first id that is not active, if any. *)
Popped(q) == {k \in 1..Len(q) :
                /\ q[k] \notin active
                /\ \A i \in 1..(k - 1) : q[i] \in active}

Pop(w) ==
  /\ worker[w].at = "idle" /\ ~stopping /\ queue # <<>>
  /\ \/ /\ Popped(queue) = {}
        /\ queue' = <<>>
        /\ UNCHANGED <<active, worker>>
     \/ \E k \in Popped(queue) :
        /\ queue' = SubSeq(queue, k + 1, Len(queue))
        /\ active' = active \cup {queue[k]}
        /\ worker' = [worker EXCEPT
             ![w] = [Idle EXCEPT !.at = "begin", !.job = queue[k]]]
  /\ UNCHANGED <<record, leased, drainers, caller, outside, stopping, faults>>

Goto(w, place) == worker' = [worker EXCEPT ![w].at = place]
Advance(w, phase) ==
  worker' = [worker EXCEPT ![w].at = "read", ![w].to = phase]
Fail(w, code) ==
  worker' = [worker EXCEPT ![w].at = "failRead", ![w].code = code]

(* The worker asks for the plan: a job nobody knows is dropped unmarked. *)
Begin(w) ==
  /\ worker[w].at = "begin"
  /\ IF worker[w].job \in Planned THEN Advance(w, "downloading")
                                  ELSE Goto(w, "finish")
  /\ UNCHANGED <<record, queue, active, leased, drainers, caller, outside,
                 stopping, faults>>

TransitionRead(w) ==
  /\ worker[w].at = "read"
  /\ worker' = [worker EXCEPT ![w].at = "write",
                              ![w].buf = record[worker[w].job]]
  /\ UNCHANGED <<record, queue, active, leased, drainers, caller, outside,
                 stopping, faults>>

(* Where RunOne goes on after each transition. *)
After(phase) ==
  CASE phase = "downloading" -> "fetch"
    [] phase = "probing"     -> "probe"
    [] phase = "encoding"    -> "preset"
    [] phase = "uploading"   -> "master"
    [] phase = "complete"    -> "finish"

Answer(j, events) == answered' = [answered EXCEPT ![j] = @ \cup events]

TransitionWrite(w) ==
  LET j == worker[w].job
      to == worker[w].to
  IN
  /\ worker[w].at = "write"
  /\ record' = [record EXCEPT ![j] = [worker[w].buf EXCEPT !.phase = to]]
  /\ worker' = [worker EXCEPT
       ![w].at = After(to), ![w].buf = Absent,
       ![w].rend = IF to = "encoding" THEN 1 ELSE @]
  /\ Answer(j, IF to = "complete" THEN {"complete"} ELSE {})
  /\ UNCHANGED <<queue, active, leased, drainers, caller, uploaded, applied,
                 announced, stopping, faults>>

Fetch(w) ==
  /\ worker[w].at = "fetch"
  /\ Advance(w, "probing") \/ Fail(w, "DOWNLOAD_FAILED")
  /\ UNCHANGED <<record, queue, active, leased, drainers, caller, outside,
                 stopping, faults>>

Probe(w) ==
  /\ worker[w].at = "probe"
  /\ Advance(w, "encoding") \/ Fail(w, "PROBE_FAILED")
  /\ UNCHANGED <<record, queue, active, leased, drainers, caller, outside,
                 stopping, faults>>

(* The preset is looked up again, though nothing in the daemon replaces    *)
(* the catalogue.  The goroutine that drains the progress channel is       *)
(* started before the lease is asked for.                                  *)
LookupPreset(w) ==
  /\ worker[w].at = "preset"
  /\ \/ Goto(w, "acquire") /\ drainers' = drainers + 1
     \/ Fail(w, "JOB_INVALID_PRESET") /\ UNCHANGED drainers
  /\ UNCHANGED <<record, queue, active, leased, caller,
                 outside, stopping, faults>>

(* Scheduler.Acquire waits for room, which VOD jobs and live sessions also *)
(* take, or fails once its context is done.                                *)
Acquire(w) ==
  /\ worker[w].at = "acquire"
  /\ \/ /\ Cardinality(leased) < BatchSlots
        /\ leased' = leased \cup {w}
        /\ Goto(w, "encode")
     \/ /\ stopping
        /\ Fail(w, "CAPACITY_EXCEEDED")
        /\ UNCHANGED leased
  /\ UNCHANGED <<record, queue, active, drainers, caller, outside, stopping,
                 faults>>

(* FFmpeg.Run: it closes the progress channel unless the process could not *)
(* be started.  The lease is released on every path.                       *)
Encode(w) ==
  /\ worker[w].at = "encode"
  /\ leased' = leased \ {w}
  /\ \/ /\ Goto(w, "upload") \/ Fail(w, "ENCODING_FAILED")
        /\ drainers' = drainers - 1
     \/ /\ Fail(w, "ENCODING_FAILED")
        /\ UNCHANGED drainers
  /\ UNCHANGED <<record, queue, active, caller, outside, stopping,
                 faults>>

(* A missing output URL fails like a failed upload. *)
Upload(w) ==
  /\ worker[w].at = "upload"
  /\ \/ /\ uploaded' = [uploaded EXCEPT ![worker[w].job] = @ \cup {worker[w].rend}]
        /\ Goto(w, "debit")
     \/ Fail(w, "UPLOAD_FAILED") /\ UNCHANGED uploaded
  /\ UNCHANGED <<record, queue, active, leased, drainers, caller, applied,
                 announced, answered, stopping, faults>>

(* Mutant of Last: the loop stops one rendition early. *)
LastEarly(rend) == rend >= Ladder - 1

Last(rend) == rend = Ladder

(* The end of the loop body: the rendition's webhook, then the next one.   *)
RenditionDone(w) ==
  /\ announced' = [announced EXCEPT ![worker[w].job] = @ \cup {worker[w].rend}]
  /\ IF Last(worker[w].rend) THEN Advance(w, "uploading")
     ELSE worker' = [worker EXCEPT ![w].at = "preset", ![w].rend = @ + 1]

(* Mutant of Debit: a failed debit only costs that rendition's money. *)
DebitGoesOn(w) ==
  /\ worker[w].at = "debit"
  /\ RenditionDone(w)
  /\ \/ applied' = [applied EXCEPT ![worker[w].job] = @ \cup {worker[w].rend}]
     \/ UNCHANGED applied
  /\ UNCHANGED <<record, queue, active, leased, drainers, caller, uploaded,
                 answered, stopping, faults>>

(* DebitBalance with the rendition's number as sequence number.  A failed  *)
(* call may have been applied, its answer lost.                            *)
Debit(w) ==
  LET j == worker[w].job
      debited == [applied EXCEPT ![j] = @ \cup {worker[w].rend}]
  IN
  /\ worker[w].at = "debit"
  /\ IF j \notin Priced THEN RenditionDone(w) /\ UNCHANGED applied
     ELSE \/ RenditionDone(w) /\ applied' = debited
          \/ /\ Fail(w, "PAYMENT_FAILED")
             /\ applied' \in {applied, debited}
             /\ UNCHANGED announced
  /\ UNCHANGED <<record, queue, active, leased, drainers, caller, uploaded,
                 answered, stopping, faults>>

(* BuildMaster and the upload of the master manifest. *)
UploadMaster(w) ==
  /\ worker[w].at = "master"
  /\ Advance(w, "complete") \/ Fail(w, "UPLOAD_FAILED")
  /\ UNCHANGED <<record, queue, active, leased, drainers, caller, outside,
                 stopping, faults>>

(* failJob: MarkError in two halves, then the job.error webhook. *)
MarkErrorRead(w) ==
  /\ worker[w].at = "failRead"
  /\ worker' = [worker EXCEPT ![w].at = "failWrite",
                              ![w].buf = record[worker[w].job]]
  /\ UNCHANGED <<record, queue, active, leased, drainers, caller, outside,
                 stopping, faults>>

MarkErrorWrite(w) ==
  LET j == worker[w].job IN
  /\ worker[w].at = "failWrite"
  /\ record' = [record EXCEPT ![j] =
       [worker[w].buf EXCEPT !.phase = "error", !.code = worker[w].code]]
  /\ Answer(j, {"error"})
  /\ Goto(w, "finish")
  /\ UNCHANGED <<queue, active, leased, drainers, caller, uploaded, applied,
                 announced, stopping, faults>>

(* A store operation fails: RunOne returns and nothing marks the job. *)
Fault(w) ==
  /\ worker[w].at \in {"read", "write", "failRead", "failWrite"}
  /\ faults < MaxFaults
  /\ faults' = faults + 1
  /\ Goto(w, "finish")
  /\ UNCHANGED <<record, queue, active, leased, drainers, caller, outside,
                 stopping>>

finish(w) ==
  /\ worker[w].at = "finish"
  /\ active' = active \ {worker[w].job}
  /\ worker' = [worker EXCEPT ![w] = Idle]
  /\ UNCHANGED <<record, queue, leased, drainers, caller, outside, stopping,
                 faults>>

(* The root context is cancelled: nothing more is popped. *)
Stop ==
  /\ ~stopping
  /\ stopping' = TRUE
  /\ UNCHANGED <<record, queue, active, worker, leased, drainers, caller, outside,
                 faults>>

CallerStep(c) == SubmitQueue(c) \/ PlanRead(c) \/ PlanWrite(c)

WorkerStep(w) ==
  \/ Begin(w) \/ TransitionRead(w) \/ TransitionWrite(w) \/ Fetch(w) \/ Probe(w)
  \/ LookupPreset(w) \/ Acquire(w) \/ Encode(w) \/ Upload(w) \/ Debit(w)
  \/ UploadMaster(w) \/ MarkErrorRead(w) \/ MarkErrorWrite(w) \/ finish(w)

Next ==
  \/ \E c \in Callers : CallerStep(c) \/ \E j \in Jobs : SubmitSave(c, j)
  \/ \E w \in Workers : Pop(w) \/ WorkerStep(w) \/ Fault(w)
  \/ Stop

Spec == Init /\ [][Next]_vars

------------------------------------------------------------------------------
(* Properties. *)

(* Every variable has its type. *)
TypeOK ==
  /\ record \in [Jobs -> [phase : Phases, plan : BOOLEAN, code : {"",
       "DOWNLOAD_FAILED", "PROBE_FAILED", "JOB_INVALID_PRESET",
       "CAPACITY_EXCEEDED", "ENCODING_FAILED", "UPLOAD_FAILED",
       "PAYMENT_FAILED"}]]
  /\ queue \in Seq(Jobs) /\ active \subseteq Jobs /\ leased \subseteq Workers
  /\ \A w \in Workers : worker[w].job \in Jobs \cup {NoJob}
                        /\ worker[w].rend \in 0..Ladder
  /\ drainers \in Nat
  /\ \A j \in Jobs : /\ uploaded[j] \subseteq 1..Ladder
                     /\ applied[j] \subseteq 1..Ladder
  /\ stopping \in BOOLEAN /\ faults \in 0..MaxFaults

(* A job announced as complete has every rendition of its ladder uploaded, *)
(* announced and, if priced, debited under its own sequence number.        *)
CompleteIsWhole ==
  \A j \in Jobs : "complete" \in answered[j] =>
    /\ 1..Ladder \subseteq uploaded[j] /\ 1..Ladder \subseteq announced[j]
    /\ j \in Priced => applied[j] = 1..Ladder

(* The renditions of a priced job are delivered in order and paid for one  *)
(* by one: whatever fails, and however often the id is submitted again, at *)
(* most the last one delivered is unpaid.                                  *)
UnpaidAtMostOne ==
  \A j \in Priced :
    /\ Cardinality(uploaded[j] \ applied[j]) <= 1
    /\ \A r \in uploaded[j] : 1..(r - 1) \subseteq applied[j]

(* A job whose plan is known is never dropped before it was answered with  *)
(* job.complete or job.error: until then it is queued, about to be queued  *)
(* or being run, whatever submissions of its id overlap with its run.      *)
(* Only a failing store excuses silence.                                   *)
NotForgotten ==
  \A j \in Planned :
    record[j] # Absent /\ answered[j] = {} /\ faults = 0 =>
      \/ j \in Range(queue) \/ j \in active
      \/ \E c \in Callers : caller[c].at = "queue" /\ caller[c].job = j

=============================================================================
