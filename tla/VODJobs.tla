------------------------------ MODULE VODJobs -------------------------------
(***************************************************************************)
(* The VOD job runner (internal/service/jobrunner) and the job repository  *)
(* it persists every phase in (internal/repo/jobs).                        *)
(*                                                                         *)
(* The repository's Transition and MarkError read the whole record and     *)
(* write it back in two store operations, so each is two steps here, and   *)
(* workers and HTTP submissions interleave between them.                   *)
(* The process may crash at any point or be stopped; the store survives.   *)
(***************************************************************************)
EXTENDS Integers, Sequences, FiniteSets, Functions

CONSTANTS
  Jobs,           \* job ids; a caller may submit the same id again
  Workers,        \* the worker pool (MaxQueue goroutines)
  BatchSlots,     \* batch leases the GPU scheduler grants at a time
  Accounts,       \* the payment daemon's ledgers, one per sender and work id
  Offers,         \* per job: the accounts its submissions may name
  MaxSubmits,     \* bound: submissions per job id
  MaxUpsets       \* bound: crashes, orderly shutdowns and failing store or
                  \* temp-dir operations together

(* The account of a submission without a work id or a positive unit price. *)
Free == "no account"

ASSUME JobsAssumption == IsFiniteSet(Jobs) /\ IsFiniteSet(Workers)
ASSUME BoundsAssumption ==
  /\ {BatchSlots, MaxUpsets} \subseteq Nat
  /\ MaxSubmits \in [Jobs -> Nat]
ASSUME OffersAssumption == Offers \in [Jobs -> SUBSET (Accounts \cup {Free})]

VARIABLES
  record,    \* the job bucket of the store
  queue,     \* Runner.queue
  active,    \* Runner.active
  worker,    \* what each worker goroutine is doing
  leased,    \* workers holding a GPU lease
  saved,     \* Submit calls that have saved and not yet queued, per job
  applied,   \* the debits the payment daemon applied: account, sequence number
  named,     \* history: per job, the accounts its submissions named
  up,        \* is the process running?
  stopping,  \* has its root context been cancelled?
  submits, upsets   \* counters for the bounds

vars == <<record, queue, active, worker, leased, saved, applied,
          named, up, stopping, submits, upsets>>
history == <<named, submits, upsets>>

Stages == <<"downloading", "probing", "encoding", "uploading", "complete">>
Phases == {"none", "queued", "error"} \cup Range(Stages)

(* A job record: its phase, and the account the submission is billed on,   *)
(* the sender and work id the caller named.                                *)
Record == [phase : Phases, account : Accounts \cup {Free}]
Absent == [phase |-> "none", account |-> Free]

IsTerminal(phase) == phase \in {"complete", "error"}

(* lookup: runOne before its first transition.  read/write: the two halves *)
(* of Transition.  acquire/wait: in Scheduler.Acquire.  work: between two  *)
(* transitions.  debit: the call to the payment daemon.                    *)
(* failRead/failWrite: MarkError.  return: runOne returns and its deferred *)
(* Release runs.  finish: the worker calls finish.                         *)
Places == {"idle", "lookup", "read", "write", "acquire", "wait", "work",
           "debit", "failRead", "failWrite", "return", "finish"}
NoJob == "no job"
Worker == [at : Places, job : Jobs \cup {NoJob}, stage : 1..Len(Stages),
           buf : Record]
IdleWorker == [at |-> "idle", job |-> NoJob, stage |-> 1, buf |-> Absent]

Init ==
  /\ record = [j \in Jobs |-> Absent]
  /\ queue = <<>>
  /\ active = {}
  /\ worker = [w \in Workers |-> IdleWorker]
  /\ leased = {}
  /\ saved = [j \in Jobs |-> 0]
  /\ applied = {}
  /\ named = [j \in Jobs |-> {}]
  /\ up = TRUE
  /\ stopping = FALSE
  /\ submits = [j \in Jobs |-> 0]
  /\ upsets = 0

------------------------------------------------------------------------------
(* Submission: the record is saved first, then the id is queued.  The job  *)
(* id and the account are the caller's choice: two jobs may name one       *)
(* account, and an id submitted again may name another.                    *)

SubmitSave(j, a) ==
  /\ up
  /\ submits[j] < MaxSubmits[j]
  /\ record' = [record EXCEPT ![j] = [phase |-> "queued", account |-> a]]
  /\ named' = [named EXCEPT ![j] = @ \cup {a}]
  /\ saved' = [saved EXCEPT ![j] = @ + 1]
  /\ submits' = [submits EXCEPT ![j] = @ + 1]
  /\ UNCHANGED <<queue, active, worker, leased, applied, up, stopping,
                 upsets>>

SubmitQueue(j) ==
  /\ saved[j] > 0
  /\ saved' = [saved EXCEPT ![j] = @ - 1]
  /\ queue' = Append(queue, j)
  /\ UNCHANGED <<record, active, worker, leased, applied, up, stopping,
                 history>>

------------------------------------------------------------------------------
(* The worker loop. *)

Move(w, place) == worker' = [worker EXCEPT ![w].at = place]

(* Mutant of Popped: ids already being run are not skipped. *)
PoppedUnguarded(q) == IF q = <<>> THEN {} ELSE {1}

(* The position pop stops at: the first id that is not active, if any. *)
Popped(q) == {k \in 1..Len(q) :
                /\ q[k] \notin active
                /\ \A i \in 1..(k - 1) : q[i] \in active}

(* A worker that has popped id j. *)
Starting(j) == [IdleWorker EXCEPT !.at = "lookup", !.job = j]

(* pop drops the active ids ahead of the one it returns, or the whole      *)
(* queue when every id in it is active.  A cancelled root context is seen  *)
(* before pop is called.                                                   *)
Pop(w) ==
  /\ up /\ ~stopping
  /\ worker[w].at = "idle"
  /\ queue # <<>>
  /\ \/ /\ Popped(queue) = {}
        /\ queue' = <<>>
        /\ UNCHANGED <<active, worker>>
     \/ \E k \in Popped(queue) :
        /\ queue' = SubSeq(queue, k + 1, Len(queue))
        /\ active' = active \cup {queue[k]}
        /\ worker' = [worker EXCEPT ![w] = Starting(queue[k])]
  /\ UNCHANGED <<record, leased, saved, applied, up, stopping, history>>

(* runOne's Get and preset lookup, with both its outcomes: Submit looked    *)
(* the preset up as well, and nothing in the daemon replaces the catalogue *)
(* in between, but the code is prepared for it.                            *)
Lookup(w) ==
  /\ worker[w].at = "lookup"
  /\ \/ Move(w, "read")
     \/ Move(w, "failRead")
  /\ UNCHANGED <<record, queue, active, leased, saved, applied, up, stopping,
                 history>>

(* Transition, first half. *)
TransitionRead(w) ==
  /\ worker[w].at = "read"
  /\ worker' = [worker EXCEPT ![w].at = "write",
                              ![w].buf = record[worker[w].job]]
  /\ UNCHANGED <<record, queue, active, leased, saved, applied, up, stopping,
                 history>>

(* Transition, second half: the record as it was read, in the new phase.   *)
(* The last stage ends runOne.                                             *)
TransitionWrite(w) ==
  LET stage == Stages[worker[w].stage] IN
  /\ worker[w].at = "write"
  /\ record' = [record EXCEPT
       ![worker[w].job] = [worker[w].buf EXCEPT !.phase = stage]]
  /\ Move(w, CASE stage = "encoding" -> "acquire"
               [] stage = "complete" -> "return"
               [] OTHER -> "work")
  /\ UNCHANGED <<queue, active, leased, saved, applied, up, stopping,
                 history>>

(* Scheduler.Acquire for batch: granted when there is room.  The grant is  *)
(* kept until runOne returns.                                              *)
Acquire(w) ==
  /\ worker[w].at \in {"acquire", "wait"}
  /\ Cardinality(leased) < BatchSlots
  /\ leased' = leased \cup {w}
  /\ Move(w, "work")
  /\ UNCHANGED <<record, queue, active, saved, applied, up, stopping,
                 history>>

(* There is no room: the request waits. *)
AcquireWaits(w) ==
  /\ worker[w].at = "acquire"
  /\ Cardinality(leased) >= BatchSlots
  /\ Move(w, "wait")
  /\ UNCHANGED <<record, queue, active, leased, saved, applied, up, stopping,
                 history>>

(* Acquire fails: the preset, the caller's choice, costs more than the     *)
(* whole machine, or the context is cancelled while the request waits.     *)
AcquireFails(w) ==
  /\ \/ worker[w].at = "acquire"
     \/ worker[w].at = "wait" /\ stopping
  /\ Move(w, "failRead")
  /\ UNCHANGED <<record, queue, active, leased, saved, applied, up, stopping,
                 history>>

(* Fetch, Probe, FFmpeg or Upload returns: on success the worker goes on   *)
(* to the next stage, after an upload by way of the debit if the record    *)
(* read for that stage is priced.                                          *)
WorkEnds(w) ==
  LET stage == worker[w].stage IN
  /\ worker[w].at = "work"
  /\ \/ worker' = [worker EXCEPT
          ![w].at = IF /\ Stages[stage] = "uploading"
                       /\ worker[w].buf.account # Free
                    THEN "debit" ELSE "read",
          ![w].stage = stage + 1]
     \/ Move(w, "failRead")
  /\ UNCHANGED <<record, queue, active, leased, saved, applied, up, stopping,
                 history>>

(* The debit sequence number of a VOD job is the constant 1. *)
DebitSeq == 1

(* Mutant of Debit: a failed debit is treated as best-effort. *)
DebitIgnoresErrors(w) ==
  /\ worker[w].at = "debit"
  /\ \/ applied' = applied \cup {<<worker[w].buf.account, DebitSeq>>}
     \/ UNCHANGED applied
  /\ Move(w, "read")
  /\ UNCHANGED <<record, queue, active, leased, saved, up, stopping, history>>

(* DebitBalance: the daemon keys debits by sender, work id and sequence    *)
(* number, applies a new key once and answers a used one without an error  *)
(* and without a charge.  A failed call may have been applied, its answer  *)
(* lost.                                                                   *)
Debit(w) ==
  LET debited == applied \cup {<<worker[w].buf.account, DebitSeq>>} IN
  /\ worker[w].at = "debit"
  /\ \/ applied' = debited /\ Move(w, "read")
     \/ /\ applied' \in {applied, debited}
        /\ Move(w, "failRead")
  /\ UNCHANGED <<record, queue, active, leased, saved, up, stopping, history>>

(* failJob: MarkError in two halves. *)
MarkErrorRead(w) ==
  /\ worker[w].at = "failRead"
  /\ worker' = [worker EXCEPT ![w].at = "failWrite",
                              ![w].buf = record[worker[w].job]]
  /\ UNCHANGED <<record, queue, active, leased, saved, applied, up, stopping,
                 history>>

MarkErrorWrite(w) ==
  /\ worker[w].at = "failWrite"
  /\ record' = [record EXCEPT
       ![worker[w].job] = [worker[w].buf EXCEPT !.phase = "error"]]
  /\ Move(w, "return")
  /\ UNCHANGED <<queue, active, leased, saved, applied, up, stopping,
                 history>>


(* A store operation (or the temp dir) fails: runOne returns the error and *)
(* nothing marks the job.                                                  *)
Fault(w) ==
  /\ worker[w].at \in {"lookup", "read", "write", "failRead", "failWrite"}
  /\ upsets < MaxUpsets
  /\ upsets' = upsets + 1
  /\ Move(w, "return")
  /\ UNCHANGED <<record, queue, active, leased, saved, applied, up, stopping,
                 named, submits>>

(* runOne returns: the deferred lease.Release runs. *)
Return(w) ==
  /\ worker[w].at = "return"
  /\ leased' = leased \ {w}
  /\ Move(w, "finish")
  /\ UNCHANGED <<record, queue, active, saved, applied, up, stopping,
                 history>>

Finish(w) ==
  /\ worker[w].at = "finish"
  /\ active' = active \ {worker[w].job}
  /\ worker' = [worker EXCEPT ![w] = IdleWorker]
  /\ UNCHANGED <<record, queue, leased, saved, applied, up, stopping,
                 history>>

------------------------------------------------------------------------------
(* Process life. *)

(* Everything but the store and the payment daemon is lost. *)
Down ==
  /\ up' = FALSE
  /\ stopping' = FALSE
  /\ queue' = <<>>
  /\ active' = {}
  /\ worker' = [w \in Workers |-> IdleWorker]
  /\ leased' = {}
  /\ saved' = [j \in Jobs |-> 0]
  /\ UNCHANGED <<record, applied, named, submits>>

Crash ==
  /\ up
  /\ upsets < MaxUpsets
  /\ upsets' = upsets + 1
  /\ Down

(* SIGTERM cancels the root context: what a worker is doing may fail, and  *)
(* no further job is popped.                                               *)
Shutdown ==
  /\ up /\ ~stopping
  /\ upsets < MaxUpsets
  /\ upsets' = upsets + 1
  /\ stopping' = TRUE
  /\ UNCHANGED <<record, queue, active, worker, leased, saved, applied, up,
                 named, submits>>

(* lifecycle.Run returns once every worker has. *)
Exit ==
  /\ stopping
  /\ \A w \in Workers : worker[w].at = "idle"
  /\ Down
  /\ UNCHANGED upsets

(* The new process begins with an empty queue: nothing in the daemon's     *)
(* startup calls the runner's ResumeAll.                                   *)
Start ==
  /\ ~up
  /\ up' = TRUE
  /\ UNCHANGED <<record, queue, active, worker, leased, saved, applied,
                 stopping, history>>

WorkerStep(w) ==
  \/ Lookup(w) \/ TransitionRead(w) \/ TransitionWrite(w)
  \/ Acquire(w) \/ AcquireWaits(w) \/ AcquireFails(w) \/ WorkEnds(w)
  \/ Debit(w)
  \/ MarkErrorRead(w) \/ MarkErrorWrite(w) \/ Return(w) \/ Finish(w)

Next ==
  \/ \E j \in Jobs : SubmitQueue(j)
  \/ \E j \in Jobs : \E a \in Offers[j] : SubmitSave(j, a)
  \/ \E w \in Workers : Pop(w) \/ WorkerStep(w) \/ Fault(w)
  \/ Crash \/ Shutdown \/ Exit \/ Start

Spec == Init /\ [][Next]_vars

(* The workers poll and run, a submission in progress is completed, and a  *)
(* stopped process exits and is started again by its supervisor.           *)
Fairness ==
  /\ \A w \in Workers : WF_vars(Pop(w)) /\ WF_vars(WorkerStep(w))
  /\ \A j \in Jobs : WF_vars(SubmitQueue(j))
  /\ WF_vars(Exit) /\ WF_vars(Start)

FairSpec == Spec /\ Fairness

------------------------------------------------------------------------------
(* Properties. *)

(* Every variable has its type. *)
TypeOK ==
  /\ record \in [Jobs -> Record]
  /\ queue \in Seq(Jobs)
  /\ active \subseteq Jobs
  /\ worker \in [Workers -> Worker]
  /\ leased \subseteq Workers
  /\ saved \in [Jobs -> Nat]
  /\ applied \subseteq Accounts \X {DebitSeq}
  /\ named \in [Jobs -> SUBSET (Accounts \cup {Free})]
  /\ up \in BOOLEAN /\ stopping \in BOOLEAN
  /\ submits \in [Jobs -> Nat]
  /\ upsets \in Nat

Running(w) == worker[w].at # "idle"

(* One job is never run by two workers at a time, even when its id is      *)
(* submitted again while it runs: they would share a temp dir and a debit. *)
OneWorkerPerJob ==
  /\ \A w, v \in Workers :
       Running(w) /\ Running(v) /\ worker[w].job = worker[v].job => w = v
  /\ active = {worker[w].job : w \in {v \in Workers : Running(v)}}

(* A job recorded as complete was paid for: the payment daemon applied a   *)
(* debit on an account its submissions named, or one of them was free.     *)
(* The account charged is the one read with the record for the upload, so  *)
(* an id submitted again meanwhile under another account may complete on   *)
(* the first; and jobs that share an account share its one debit.          *)
CompleteMeansDebited ==
  \A j \in Jobs : record[j].phase = "complete" =>
    \E a \in named[j] : a = Free \/ <<a, DebitSeq>> \in applied


(* A restart resumes: a job whose record the stopped process left in the   *)
(* store ends in a process started after it.                               *)
RestartResumes ==
  \A j \in Jobs : (~up /\ record[j] # Absent) ~> IsTerminal(record[j].phase)

=============================================================================
