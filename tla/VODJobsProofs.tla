--------------------------- MODULE VODJobsProofs ----------------------------
(***************************************************************************)
(* What the VOD runner guarantees for every number of jobs and workers,    *)
(* every bound on submissions, stops and faults, and every GPU capacity.   *)
(*                                                                         *)
(* The inductive invariant IInv adds to the properties where a worker can  *)
(* be in runOne (WorkerFacts), that a record and what a worker holds of it *)
(* name an account the job was submitted under (AccountsNamed), that a     *)
(* worker enters its last transition only after a debit on such an account *)
(* was applied (PaidFirst), and who may hold a lease (LeaseHolders).       *)
(***************************************************************************)
EXTENDS VODJobs, FiniteSetTheorems, SequenceTheorems, TLAPS

Types ==
  /\ record \in [Jobs -> Record]
  /\ queue \in Seq(Jobs)
  /\ active \subseteq Jobs
  /\ worker \in [Workers -> Worker]
  /\ leased \subseteq Workers
  /\ saved \in [Jobs -> Nat]
  /\ applied \subseteq Accounts \X {DebitSeq}
  /\ named \in [Jobs -> SUBSET (Accounts \cup {Free})]
  /\ up \in BOOLEAN /\ stopping \in BOOLEAN
  /\ submits \in [Jobs -> Nat]
  /\ upsets \in Nat

(* A worker that runs has a job, waits or works only before the last       *)
(* transition, and debits an account.                                      *)
WorkerFacts ==
  \A w \in Workers :
    /\ Running(w) => worker[w].job \in Jobs
    /\ worker[w].at \in {"lookup", "acquire", "wait", "work"}
         => worker[w].stage \in 1..4
    /\ worker[w].at = "debit" => worker[w].buf.account # Free

(* Only ids that were submitted are queued or run, their records name an   *)
(* account of a submission, and so does what a worker has read of one.     *)
AccountsNamed ==
  /\ \A j \in Jobs :
       /\ saved[j] > 0 => named[j] # {}
       /\ named[j] # {} => record[j].account \in named[j]
  /\ \A k \in 1..Len(queue) : named[queue[k]] # {}
  /\ \A w \in Workers :
       /\ Running(w) => named[worker[w].job] # {}
       /\ worker[w].at \in {"write", "acquire", "wait", "work", "debit",
                           "failWrite"}
            => worker[w].buf.account \in named[worker[w].job]

(* Job j was submitted free of charge, or a debit was applied on an        *)
(* account it was submitted under.                                         *)
PaidFor(j) == \E a \in named[j] : a = Free \/ <<a, DebitSeq>> \in applied

(* runOne reaches the transition to complete only through an applied       *)
(* debit, or with a record that is not priced.                             *)
PaidFirst ==
  \A w \in Workers :
    worker[w].at \in {"read", "write"} /\ worker[w].stage = 5
    => PaidFor(worker[w].job)

(* Only a worker that is inside runOne holds a lease. *)
LeaseHolders == \A w \in leased : worker[w].at \notin {"idle", "finish"}

IInv == /\ Types /\ WorkerFacts /\ AccountsNamed /\ PaidFirst /\ LeaseHolders
        /\ OneWorkerPerJob /\ CompleteMeansDebited

------------------------------------------------------------------------------
(* The stages by number. *)
LEMMA StageNames ==
  /\ Len(Stages) = 5
  /\ Stages[1] = "downloading" /\ Stages[2] = "probing"
  /\ Stages[3] = "encoding" /\ Stages[4] = "uploading"
  /\ Stages[5] = "complete"
  /\ \A i \in 1..5 : Stages[i] \in Phases
<1>1. /\ Len(Stages) = 5
      /\ Stages[1] = "downloading" /\ Stages[2] = "probing"
      /\ Stages[3] = "encoding" /\ Stages[4] = "uploading"
      /\ Stages[5] = "complete"
  BY DEF Stages
<1>2. DOMAIN Stages = 1..5 BY DEF Stages
<1>3. \A i \in 1..5 : Stages[i] \in Phases BY <1>2 DEF Phases, Range
<1>4. QED BY <1>1, <1>3

(* Records keep their type and their account through Transition and        *)
(* MarkError.                                                              *)
LEMMA RecordFacts ==
  ASSUME NEW rec \in Record, NEW phase \in Phases
  PROVE  LET r == [rec EXCEPT !.phase = phase]
         IN  r \in Record /\ r.phase = phase /\ r.account = rec.account
BY DEF Record

(* The zero record and the idle worker. *)
LEMMA IdleFacts ==
  /\ Absent \in Record /\ Absent.phase = "none"
  /\ IdleWorker \in Worker /\ IdleWorker.at = "idle" /\ IdleWorker.stage = 1
<1>1. Absent \in Record /\ Absent.phase = "none"
  BY DEF Absent, Record, Phases
<1>2. QED
  BY <1>1, StageNames DEF IdleWorker, Worker, Places

(* The fields of a worker that has taken a job. *)
LEMMA StartingFacts ==
  ASSUME NEW j \in Jobs
  PROVE  /\ Starting(j) \in Worker /\ Starting(j).at = "lookup"
         /\ Starting(j).job = j /\ Starting(j).stage = 1
<1> DEFINE y == [IdleWorker EXCEPT !.at = "lookup"]
<1>1. y \in Worker /\ y.at = "lookup" /\ y.stage = 1
  BY IdleFacts DEF Worker, Places
<1> HIDE DEF y
<1>2. LET z == [y EXCEPT !.job = j]
      IN  z \in Worker /\ z.at = "lookup" /\ z.job = j /\ z.stage = 1
  BY <1>1 DEF Worker
<1>3. QED BY <1>2 DEF y, Starting

(* A step of one worker that keeps its job and goes on running it. *)
LEMMA OneWorkerMoves ==
  ASSUME IInv, NEW w \in Workers, Running(w),
         worker' \in [Workers -> Worker],
         \A v \in Workers \ {w} : worker'[v] = worker[v],
         worker'[w].at # "idle", worker'[w].job = worker[w].job,
         worker'[w].at \in {"lookup", "acquire", "wait", "work"}
           => worker'[w].stage \in 1..4,
         worker'[w].at \in {"read", "write"} /\ worker'[w].stage = 5
           => PaidFor(worker[w].job)',
         worker'[w].at \in {"write", "acquire", "wait", "work", "debit",
                            "failWrite"}
           => worker'[w].buf.account \in named[worker[w].job],
         worker'[w].at = "debit" => worker'[w].buf.account # Free,
         leased' \subseteq leased \cup {w},
         worker'[w].at = "finish" => w \notin leased',
         \A j \in Jobs : record'[j].account \in named[j]
                           \/ record'[j] = record[j],
         UNCHANGED <<active, named, queue, saved>>, applied \subseteq applied'
  PROVE  /\ WorkerFacts' /\ AccountsNamed' /\ PaidFirst' /\ LeaseHolders'
         /\ OneWorkerPerJob'
<1>1. /\ Types /\ WorkerFacts /\ AccountsNamed /\ PaidFirst /\ LeaseHolders
      /\ OneWorkerPerJob
  BY DEF IInv
<1>2. \A v \in Workers : /\ Running(v)' <=> Running(v)
                         /\ worker'[v].job = worker[v].job
  BY DEF Running
<1>3. WorkerFacts' BY <1>1, <1>2 DEF WorkerFacts, Running
<1>4. PaidFirst'
  <2> SUFFICES ASSUME NEW v \in Workers, worker'[v].at \in {"read", "write"},
                      worker'[v].stage = 5
               PROVE  PaidFor(worker[v].job)'
    BY <1>2 DEF PaidFirst
  <2>1. CASE v = w BY <2>1
  <2>2. CASE v # w
    <3>1. PaidFor(worker[v].job) BY <1>1, <2>2 DEF PaidFirst
    <3>2. worker'[v] = worker[v] BY <2>2
    <3>3. QED BY <3>1, <3>2 DEF PaidFor
  <2>3. QED BY <2>1, <2>2
<1>5. OneWorkerPerJob' BY <1>1, <1>2 DEF OneWorkerPerJob
<1>6. AccountsNamed'
  <2>1. \A j \in Jobs : /\ saved'[j] > 0 => named'[j] # {}
                        /\ named'[j] # {} => record'[j].account \in named'[j]
    BY <1>1 DEF AccountsNamed
  <2>2. \A k \in 1..Len(queue') : named'[queue'[k]] # {}
    BY <1>1 DEF AccountsNamed
  <2>3. \A v \in Workers : Running(v)' => named'[worker'[v].job] # {}
    BY <1>1, <1>2 DEF AccountsNamed
  <2>4. \A v \in Workers :
          worker'[v].at \in {"write", "acquire", "wait", "work", "debit",
                             "failWrite"}
            => worker'[v].buf.account \in named'[worker'[v].job]
    BY <1>1 DEF AccountsNamed
  <2>5. QED BY <2>1, <2>2, <2>3, <2>4 DEF AccountsNamed
<1>7. LeaseHolders' BY <1>1 DEF LeaseHolders, Types
<1>8. QED BY <1>3, <1>4, <1>5, <1>6, <1>7

(* The initial states satisfy the invariant. *)
LEMMA InitIInv == Init => IInv
<1> SUFFICES ASSUME Init PROVE IInv OBVIOUS
<1>1. /\ Absent \in Record /\ Absent.phase = "none"
      /\ IdleWorker \in Worker /\ IdleWorker.at = "idle"
  BY IdleFacts
<1>2. Types
  <2>1. queue \in Seq(Jobs) BY EmptySeq DEF Init
  <2>2. QED BY <1>1, <2>1 DEF Init, Types
<1>3. WorkerFacts /\ PaidFirst /\ LeaseHolders
  BY <1>1 DEF Init, WorkerFacts, PaidFirst, LeaseHolders, Running
<1>4. OneWorkerPerJob
  BY <1>1 DEF Init, OneWorkerPerJob, Running
<1>5. CompleteMeansDebited BY <1>1 DEF Init, CompleteMeansDebited
<1>6. AccountsNamed BY <1>1 DEF Init, AccountsNamed, Running
<1>7. QED BY <1>2, <1>3, <1>4, <1>5, <1>6 DEF IInv

(* Steps that touch no worker, record or debit leave the worker parts      *)
(* alone.                                                                  *)
LEMMA WorkersUntouched ==
  ASSUME IInv, UNCHANGED <<worker, active, applied, named, leased>>
  PROVE  WorkerFacts' /\ PaidFirst' /\ LeaseHolders' /\ OneWorkerPerJob'
BY DEF IInv, WorkerFacts, PaidFirst, PaidFor, LeaseHolders, OneWorkerPerJob,
       Running

(* A submission saves a queued record, then appends the id to the queue. *)
LEMMA SubmitPreserves ==
  ASSUME IInv, NEW j \in Jobs,
         SubmitQueue(j) \/ \E a \in Offers[j] : SubmitSave(j, a)
  PROVE  IInv'
<1>1. /\ Types /\ WorkerFacts /\ AccountsNamed /\ PaidFirst /\ LeaseHolders
      /\ OneWorkerPerJob /\ CompleteMeansDebited
  BY DEF IInv
<1>3. ASSUME NEW a \in Offers[j], SubmitSave(j, a) PROVE IInv'
  <2> DEFINE r == [phase |-> "queued", account |-> a]
  <2>1. a \in Accounts \cup {Free} BY OffersAssumption
  <2>2. /\ record' = [record EXCEPT ![j] = r]
        /\ named' = [named EXCEPT ![j] = @ \cup {a}]
        /\ saved' = [saved EXCEPT ![j] = @ + 1]
        /\ submits' = [submits EXCEPT ![j] = @ + 1]
        /\ UNCHANGED <<queue, active, worker, leased, applied, up, stopping,
                       upsets>>
    BY <1>3 DEF SubmitSave
  <2>3. r \in Record /\ r.phase = "queued" /\ r.account = a
    BY <2>1 DEF Record, Phases
  <2> HIDE DEF r
  <2>4. Types'
    <3>1. record' \in [Jobs -> Record] BY <1>1, <2>2, <2>3 DEF Types
    <3>2. saved' \in [Jobs -> Nat] /\ submits' \in [Jobs -> Nat]
      BY <1>1, <2>2 DEF Types
    <3>3. named' \in [Jobs -> SUBSET (Accounts \cup {Free})]
      BY <1>1, <2>1, <2>2 DEF Types
    <3>4. QED BY <1>1, <2>2, <3>1, <3>2, <3>3 DEF Types
  <2>5. /\ \A i \in Jobs : named[i] \subseteq named'[i]
        /\ \A i \in Jobs \ {j} : /\ named'[i] = named[i]
                                 /\ record'[i] = record[i]
                                 /\ saved'[i] = saved[i]
        /\ named'[j] = named[j] \cup {a} /\ record'[j] = r
    BY <1>1, <2>2 DEF Types
  <2>6. \A v \in Workers : Running(v)' <=> Running(v) BY <2>2 DEF Running
  <2>7. WorkerFacts' /\ LeaseHolders' /\ OneWorkerPerJob'
    BY <1>1, <2>2, <2>6 DEF WorkerFacts, LeaseHolders, OneWorkerPerJob
  <2>8. PaidFirst'
    <3> SUFFICES ASSUME NEW v \in Workers, worker[v].at \in {"read", "write"},
                        worker[v].stage = 5
                 PROVE  PaidFor(worker[v].job)'
      BY <2>2 DEF PaidFirst
    <3>1. PaidFor(worker[v].job) /\ worker[v].job \in Jobs
      BY <1>1 DEF PaidFirst, WorkerFacts, Running
    <3>2. QED BY <2>2, <2>5, <3>1 DEF PaidFor
  <2>9. CompleteMeansDebited'
    <3> SUFFICES ASSUME NEW i \in Jobs, record'[i].phase = "complete"
                 PROVE  \E b \in named'[i] :
                          b = Free \/ <<b, DebitSeq>> \in applied'
      BY DEF CompleteMeansDebited
    <3>1. i # j BY <2>3, <2>5
    <3>2. QED BY <1>1, <2>2, <2>5, <3>1 DEF CompleteMeansDebited
  <2>10. AccountsNamed'
    <3>1. \A i \in Jobs : /\ saved'[i] > 0 => named'[i] # {}
                          /\ named'[i] # {} => record'[i].account \in named'[i]
      BY <1>1, <2>3, <2>5 DEF AccountsNamed
    <3>2. \A k \in 1..Len(queue) : queue[k] \in Jobs
      BY <1>1, ElementOfSeq DEF Types
    <3>3. \A k \in 1..Len(queue') : named'[queue'[k]] # {}
      BY <1>1, <2>2, <2>5, <3>2 DEF AccountsNamed
    <3>4. \A v \in Workers :
            /\ Running(v)' => named'[worker'[v].job] # {}
            /\ worker'[v].at \in {"write", "acquire", "wait", "work", "debit",
                                  "failWrite"}
                 => worker'[v].buf.account \in named'[worker'[v].job]
      BY <1>1, <2>2, <2>5, <2>6 DEF AccountsNamed, WorkerFacts, Running
    <3>5. QED BY <3>1, <3>3, <3>4 DEF AccountsNamed
  <2>11. QED BY <2>4, <2>7, <2>8, <2>9, <2>10 DEF IInv
<1>4. CASE SubmitQueue(j)
  <2>1. /\ Append(queue, j) \in Seq(Jobs) /\ Len(queue) \in Nat
        /\ Len(Append(queue, j)) = Len(queue) + 1
        /\ Append(queue, j)[Len(queue) + 1] = j
        /\ \A k \in 1..Len(queue) : Append(queue, j)[k] = queue[k]
    BY <1>1, AppendProperties, LenProperties DEF Types
  <2>2. /\ saved[j] > 0 /\ saved' = [saved EXCEPT ![j] = @ - 1]
        /\ queue' = Append(queue, j)
        /\ UNCHANGED <<record, active, worker, leased, applied, up, stopping,
                       named, submits, upsets>>
    BY <1>4 DEF SubmitQueue, history
  <2>3. saved' \in [Jobs -> Nat] /\ \A i \in Jobs : saved'[i] <= saved[i]
    BY <1>1, <2>2 DEF Types
  <2>4. Types' BY <1>1, <2>1, <2>2, <2>3 DEF Types
  <2>5. CompleteMeansDebited' BY <1>1, <2>2 DEF CompleteMeansDebited
  <2>6. WorkerFacts' /\ PaidFirst' /\ LeaseHolders' /\ OneWorkerPerJob'
    BY <2>2, WorkersUntouched
  <2>7. AccountsNamed'
    <3>1. \A i \in Jobs : /\ saved'[i] > 0 => named'[i] # {}
                          /\ named'[i] # {} => record'[i].account \in named'[i]
      BY <1>1, <2>2, <2>3 DEF AccountsNamed, Types
    <3>2. ASSUME NEW k \in 1..Len(queue') PROVE named'[queue'[k]] # {}
      <4>1. CASE k = Len(queue) + 1
        BY <1>1, <2>1, <2>2, <4>1 DEF AccountsNamed, Types
      <4>2. CASE k \in 1..Len(queue)
        BY <1>1, <2>1, <2>2, <4>2 DEF AccountsNamed
      <4>3. QED BY <2>1, <2>2, <4>1, <4>2
    <3>3. QED BY <1>1, <2>2, <3>1, <3>2 DEF AccountsNamed, Running
  <2>8. QED BY <2>4, <2>5, <2>6, <2>7 DEF IInv
<1>5. QED BY <1>3, <1>4

(* pop returns an id nobody runs, so the worker that takes it is the only  *)
(* one to run it.                                                          *)
LEMMA PopPreserves ==
  ASSUME IInv, NEW w \in Workers, Pop(w)
  PROVE  IInv'
<1>1. /\ Types /\ WorkerFacts /\ AccountsNamed /\ PaidFirst /\ LeaseHolders
      /\ OneWorkerPerJob /\ CompleteMeansDebited
  BY DEF IInv
<1>2. CompleteMeansDebited' BY <1>1 DEF CompleteMeansDebited, Pop, history
<1>3. CASE queue' = <<>> /\ UNCHANGED <<active, worker>>
  <2>1. queue' \in Seq(Jobs) /\ Len(queue') = 0 BY <1>3, EmptySeq
  <2>2. Types' BY <1>1, <1>3, <2>1 DEF Types, Pop, history
  <2>3. AccountsNamed'
    BY <1>1, <1>3, <2>1 DEF AccountsNamed, Pop, history, Running
  <2>4. QED BY <1>2, <1>3, <2>2, <2>3, WorkersUntouched DEF IInv, Pop, history
<1>4. ASSUME NEW k \in Popped(queue),
             queue' = SubSeq(queue, k + 1, Len(queue)),
             active' = active \cup {queue[k]},
             worker' = [worker EXCEPT ![w] = Starting(queue[k])]
      PROVE  IInv'
  <2> DEFINE j == queue[k]
             r == Starting(j)
  <2>1. /\ queue \in Seq(Jobs) /\ k \in 1..Len(queue) /\ j \in Jobs
        /\ j \notin active /\ Len(queue) \in Nat
    BY <1>1, ElementOfSeq, LenProperties DEF Types, Popped
  <2>2. /\ queue' \in Seq(Jobs)
        /\ Len(queue') = Len(queue) - k
        /\ \A i \in 1..Len(queue') : queue'[i] = queue[k + i]
    BY <1>4, <2>1, SubSeqProperties
  <2>3. r \in Worker /\ r.at = "lookup" /\ r.job = j /\ r.stage = 1
    BY <2>1, StartingFacts
  <2>4. ~Running(w) BY DEF Pop, Running
  <2> HIDE DEF r
  <2>5. /\ worker' \in [Workers -> Worker] /\ worker'[w] = r
        /\ \A v \in Workers \ {w} : worker'[v] = worker[v]
    BY <1>1, <1>4, <2>3 DEF Types, r
  <2>a. UNCHANGED <<record, leased, saved, applied, up, stopping, named,
                    submits, upsets>>
    BY DEF Pop, history
  <2>6. Types' BY <1>1, <1>4, <2>1, <2>2, <2>5, <2>a DEF Types
  <2>7. WorkerFacts'
    BY <1>1, <2>1, <2>3, <2>5 DEF WorkerFacts, Running
  <2>8. PaidFirst' /\ LeaseHolders'
    BY <1>1, <2>3, <2>5, <2>a DEF PaidFirst, PaidFor, LeaseHolders, Types
  <2>9. /\ Running(w)'
        /\ \A v \in Workers \ {w} : Running(v)' <=> Running(v)
    BY <2>3, <2>5 DEF Running
  <2>b. AccountsNamed'
    <3>1. ASSUME NEW i \in 1..Len(queue') PROVE named'[queue'[i]] # {}
      <4>1. k + i \in 1..Len(queue) /\ queue'[i] = queue[k + i]
        BY <2>1, <2>2
      <4>2. named[queue[k + i]] # {} BY <1>1, <4>1 DEF AccountsNamed
      <4>3. QED BY <2>a, <4>1, <4>2
    <3>2. named[j] # {} BY <1>1, <2>1 DEF AccountsNamed
    <3>3. \A v \in Workers :
            /\ Running(v)' => named'[worker'[v].job] # {}
            /\ worker'[v].at \in {"write", "acquire", "wait", "work", "debit",
                                  "failWrite"}
                 => worker'[v].buf.account \in named'[worker'[v].job]
      BY <1>1, <2>3, <2>5, <2>9, <2>a, <3>2 DEF AccountsNamed
    <3>4. QED BY <1>1, <2>a, <3>1, <3>3 DEF AccountsNamed
  <2>10. OneWorkerPerJob'
    <3>1. \A v \in Workers : Running(v) => worker[v].job \in active
      BY <1>1 DEF OneWorkerPerJob
    <3>2. \A v, u \in Workers :
            Running(v)' /\ Running(u)' /\ worker'[v].job = worker'[u].job => v = u
      BY <1>1, <2>1, <2>3, <2>5, <2>9, <3>1 DEF OneWorkerPerJob
    <3>3. active' = {worker'[v].job : v \in {u \in Workers : Running(u)'}}
      BY <1>1, <1>4, <2>3, <2>4, <2>5, <2>9 DEF OneWorkerPerJob
    <3>4. QED BY <3>2, <3>3 DEF OneWorkerPerJob
  <2>11. QED BY <1>2, <2>6, <2>7, <2>8, <2>10, <2>b DEF IInv
<1>5. QED BY <1>3, <1>4 DEF Pop

------------------------------------------------------------------------------
(* Worker w goes to place with stage n and record buf, keeping its job. *)
StepsTo(w, place, n, buf) ==
  /\ worker' \in [Workers -> Worker]
  /\ \A v \in Workers \ {w} : worker'[v] = worker[v]
  /\ worker'[w].at = place
  /\ worker'[w].job = worker[w].job
  /\ worker'[w].stage = n
  /\ worker'[w].buf = buf

(* Moving a worker changes its place only. *)
LEMMA MoveFacts ==
  ASSUME Types, NEW w \in Workers, NEW place \in Places, Move(w, place)
  PROVE  StepsTo(w, place, worker[w].stage, worker[w].buf)
BY DEF Types, Worker, StepsTo, Move

(* The same for a step that also reads a record. *)
LEMMA MoveWithBuf ==
  ASSUME Types, NEW w \in Workers, NEW place \in Places, NEW buf \in Record,
         worker' = [worker EXCEPT ![w].at = place, ![w].buf = buf]
  PROVE  StepsTo(w, place, worker[w].stage, buf)
BY DEF Types, Worker, StepsTo

(* The same for a step that also goes on to stage n. *)
LEMMA MoveWithStage ==
  ASSUME Types, NEW w \in Workers, NEW place \in Places, NEW n \in 1..5,
         worker' = [worker EXCEPT ![w].at = place, ![w].stage = n]
  PROVE  StepsTo(w, place, n, worker[w].buf)
BY ZenonT(60), StageNames DEF Types, Worker, StepsTo

(* The places at which a worker relies on the record it has read. *)
Reads == {"write", "acquire", "wait", "work", "debit", "failWrite"}

(* A worker step that writes no record and debits nothing. *)
LEMMA QuietStep ==
  ASSUME IInv, NEW w \in Workers, Running(w), NEW place, NEW n, NEW buf,
         StepsTo(w, place, n, buf), place # "idle",
         place \in {"lookup", "acquire", "wait", "work"} => n \in 1..4,
         place \in {"read", "write"} /\ n = 5 => PaidFor(worker[w].job),
         place \in Reads => buf.account \in named[worker[w].job],
         place = "debit" => buf.account # Free,
         leased' \subseteq leased \cup {w},
         place = "finish" => w \notin leased',
         upsets' \in Nat,
         UNCHANGED <<record, queue, active, saved, applied, up, stopping, named,
                     submits>>
  PROVE  IInv'
<1>1. Types /\ CompleteMeansDebited BY DEF IInv
<1>2. PaidFor(worker[w].job)' <=> PaidFor(worker[w].job)
  <2>1. worker'[w].job = worker[w].job BY DEF StepsTo
  <2>2. QED BY <2>1 DEF PaidFor
<1>3. /\ WorkerFacts' /\ AccountsNamed' /\ PaidFirst' /\ LeaseHolders'
      /\ OneWorkerPerJob'
  BY <1>2, OneWorkerMoves DEF StepsTo, Reads
<1>4. Types' BY <1>1 DEF Types, StepsTo
<1>5. CompleteMeansDebited' BY <1>1 DEF CompleteMeansDebited
<1>6. QED BY <1>3, <1>4, <1>5 DEF IInv

(* runOne's quiet steps. *)
LEMMA QuietPreserves ==
  ASSUME IInv, NEW w \in Workers,
         \/ Lookup(w) \/ TransitionRead(w) \/ Acquire(w) \/ AcquireWaits(w)
         \/ AcquireFails(w) \/ WorkEnds(w) \/ MarkErrorRead(w) \/ Fault(w)
         \/ Return(w)
  PROVE  IInv'
<1> DEFINE n == worker[w].stage
           buf == worker[w].buf
           rec == record[worker[w].job]
<1>1. Types /\ WorkerFacts /\ AccountsNamed /\ PaidFirst BY DEF IInv
<1>2. Running(w)
  BY DEF Running, Lookup, TransitionRead, Acquire, AcquireWaits, AcquireFails,
         WorkEnds, MarkErrorRead, Fault, Return
<1>3. worker[w].job \in Jobs /\ rec \in Record
      /\ rec.account \in named[worker[w].job]
  BY <1>1, <1>2 DEF WorkerFacts, Types, AccountsNamed
<1>b. worker[w].at \in Reads => buf.account \in named[worker[w].job]
  BY <1>1 DEF AccountsNamed, Reads
<1>c. worker[w].at \in {"read", "write"} /\ n = 5 => PaidFor(worker[w].job)
  BY <1>1 DEF PaidFirst
<1>d. worker[w].at \in {"lookup", "acquire", "wait", "work"} => n \in 1..4
  BY <1>1 DEF WorkerFacts
<1> HIDE DEF n, rec, buf
<1>a. Places = {"idle", "lookup", "read", "write", "acquire", "wait", "work",
                "debit", "failRead", "failWrite", "return", "finish"}
  BY DEF Places
<1>4. CASE Lookup(w)
  <2>1. n # 5 BY <1>4, <1>d DEF Lookup
  <2>2. PICK place \in {"read", "failRead"} : Move(w, place) BY <1>4 DEF Lookup
  <2>3. StepsTo(w, place, n, buf) BY <1>1, <1>a, <2>2, MoveFacts DEF n, buf
  <2>4. QED
    BY <1>1, <1>2, <1>4, <2>1, <2>3, QuietStep
    DEF Lookup, Types, history, Reads
<1>5. CASE TransitionRead(w)
  <2>1. StepsTo(w, "write", n, rec)
    BY <1>1, <1>3, <1>5, <1>a, MoveWithBuf DEF TransitionRead, n, rec
  <2>2. QED
    BY <1>1, <1>2, <1>3, <1>5, <1>c, <2>1, QuietStep
    DEF TransitionRead, Types, history
<1>6. CASE Acquire(w)
  <2>1. n \in 1..4 BY <1>6, <1>d DEF Acquire
  <2>2. StepsTo(w, "work", n, buf)
    BY <1>1, <1>6, <1>a, MoveFacts DEF Acquire, n, buf
  <2>3. buf.account \in named[worker[w].job] BY <1>6, <1>b DEF Acquire, Reads
  <2>4. QED
    BY <1>1, <1>2, <1>6, <2>1, <2>2, <2>3, QuietStep
    DEF Acquire, Types, history
<1>6a. CASE AcquireWaits(w)
  <2>1. n \in 1..4 BY <1>6a, <1>d DEF AcquireWaits
  <2>2. StepsTo(w, "wait", n, buf)
    BY <1>1, <1>6a, <1>a, MoveFacts DEF AcquireWaits, n, buf
  <2>3. buf.account \in named[worker[w].job]
    BY <1>6a, <1>b DEF AcquireWaits, Reads
  <2>4. QED
    BY <1>1, <1>2, <1>6a, <2>1, <2>2, <2>3, QuietStep
    DEF AcquireWaits, Types, history
<1>7. CASE AcquireFails(w)
  <2>1. StepsTo(w, "failRead", n, buf)
    BY <1>1, <1>7, <1>a, MoveFacts DEF AcquireFails, n, buf
  <2>2. QED
    BY <1>1, <1>2, <1>7, <2>1, QuietStep
    DEF AcquireFails, Types, history, Reads
<1>8. CASE WorkEnds(w)
  <2>1. n \in 1..4 BY <1>8, <1>d DEF WorkEnds
  <2>a. buf.account \in named[worker[w].job] BY <1>8, <1>b DEF WorkEnds, Reads
  <2> DEFINE place == IF /\ Stages[n] = "uploading"
                         /\ buf.account # Free
                      THEN "debit" ELSE "read"
  <2>2. CASE worker' = [worker EXCEPT ![w].at = place, ![w].stage = n + 1]
    <3>1. place \in {"debit", "read"} /\ place \in Places /\ n + 1 \in 1..5
      BY <1>a, <2>1
    <3>0. place = "debit" => buf.account # Free OBVIOUS
    <3>2. place = "read" /\ n + 1 = 5 => buf.account = Free
      BY <2>1, StageNames
    <3> HIDE DEF place
    <3>3. StepsTo(w, place, n + 1, buf)
      BY <1>1, <2>2, <3>1, MoveWithStage DEF buf
    <3>4. place = "read" /\ n + 1 = 5 => PaidFor(worker[w].job)
      BY <2>a, <3>2 DEF PaidFor
    <3>5. QED
      BY <1>1, <1>2, <1>8, <2>a, <3>0, <3>1, <3>3, <3>4, QuietStep
      DEF WorkEnds, Types, history
  <2>3. CASE Move(w, "failRead")
    <3>1. StepsTo(w, "failRead", n, buf)
      BY <1>1, <1>a, <2>3, MoveFacts DEF n, buf
    <3>2. QED
      BY <1>1, <1>2, <1>8, <3>1, QuietStep DEF WorkEnds, Types, history, Reads
  <2>4. QED BY <1>8, <2>2, <2>3 DEF WorkEnds, n, buf
<1>9. CASE MarkErrorRead(w)
  <2>1. StepsTo(w, "failWrite", n, rec)
    BY <1>1, <1>3, <1>9, <1>a, MoveWithBuf DEF MarkErrorRead, n, rec
  <2>2. QED
    BY <1>1, <1>2, <1>3, <1>9, <2>1, QuietStep
    DEF MarkErrorRead, Types, history
<1>10. CASE Fault(w)
  <2>1. StepsTo(w, "return", n, buf)
    BY <1>1, <1>10, <1>a, MoveFacts DEF Fault, n, buf
  <2>2. /\ UNCHANGED <<record, queue, active, leased, saved, applied, up,
                       stopping, named, submits>>
        /\ upsets' \in Nat
    BY <1>1, <1>10 DEF Fault, Types
  <2>3. QED BY <1>2, <2>1, <2>2, QuietStep DEF Reads
<1>11. CASE Return(w)
  <2>1. StepsTo(w, "finish", n, buf)
    BY <1>1, <1>11, <1>a, MoveFacts DEF Return, n, buf
  <2>2. QED
    BY <1>1, <1>2, <1>11, <2>1, QuietStep DEF Return, Types, history, Reads
<1>12. QED
  BY <1>4, <1>5, <1>6, <1>6a, <1>7, <1>8, <1>9, <1>10, <1>11

(* A worker step that writes the record it has read in another phase:      *)
(* complete only if it is paid for.                                        *)
LEMMA WriteStep ==
  ASSUME IInv, NEW w \in Workers, worker[w].at \in {"write", "failWrite"},
         NEW phase \in Phases, phase = "complete" => PaidFor(worker[w].job),
         record' = [record EXCEPT ![worker[w].job] =
                      [worker[w].buf EXCEPT !.phase = phase]],
         NEW place \in {"acquire", "work", "return"}, Move(w, place),
         place # "return" => worker[w].stage \in 1..4,
         UNCHANGED <<queue, active, leased, saved, applied, up, stopping, named,
                     submits, upsets>>
  PROVE  IInv'
<1> DEFINE j == worker[w].job
           n == worker[w].stage
           buf == worker[w].buf
           r == [buf EXCEPT !.phase = phase]
<1>1. Types /\ WorkerFacts /\ AccountsNamed /\ CompleteMeansDebited BY DEF IInv
<1>2. Running(w) /\ worker[w].at # "finish" BY DEF Running
<1>3. j \in Jobs /\ buf \in Record /\ buf.account \in named[j]
  BY <1>1, <1>2 DEF WorkerFacts, Types, Worker, AccountsNamed
<1>4. r \in Record /\ r.phase = phase /\ r.account = buf.account
  BY <1>3, RecordFacts
<1>5. record' = [record EXCEPT ![j] = r] OBVIOUS
<1>6. StepsTo(w, place, n, buf) BY <1>1, MoveFacts DEF Places
<1> HIDE DEF r, j, n, buf
<1>7. /\ record' \in [Jobs -> Record] /\ record'[j] = r
      /\ \A i \in Jobs \ {j} : record'[i] = record[i]
  BY <1>1, <1>3, <1>4, <1>5 DEF Types
<1>8. \A i \in Jobs : record'[i].account \in named[i]
                       \/ record'[i] = record[i]
  BY <1>3, <1>4, <1>7
<1>9. /\ WorkerFacts' /\ AccountsNamed' /\ PaidFirst' /\ LeaseHolders'
      /\ OneWorkerPerJob'
  BY <1>2, <1>3, <1>6, <1>8, OneWorkerMoves DEF StepsTo, n, j
<1>10. Types' BY <1>1, <1>6, <1>7 DEF Types, StepsTo
<1>11. CompleteMeansDebited'
  <2> SUFFICES ASSUME NEW i \in Jobs, record'[i].phase = "complete"
               PROVE  \E a \in named[i] : a = Free \/ <<a, DebitSeq>> \in applied
    BY DEF CompleteMeansDebited
  <2>1. CASE i = j BY <1>4, <1>7, <2>1 DEF PaidFor, j
  <2>2. CASE i # j BY <1>1, <1>7, <2>2 DEF CompleteMeansDebited
  <2>3. QED BY <2>1, <2>2
<1>12. QED BY <1>9, <1>10, <1>11 DEF IInv

(* A worker writes the phase it has reached: complete only after PaidFirst *)
(* applied.                                                                *)
LEMMA TransitionWritePreserves ==
  ASSUME IInv, NEW w \in Workers, TransitionWrite(w)
  PROVE  IInv'
<1> DEFINE n == worker[w].stage
           stage == Stages[n]
           place == CASE stage = "encoding" -> "acquire"
                      [] stage = "complete" -> "return"
                      [] OTHER -> "work"
<1>1. Types /\ PaidFirst BY DEF IInv
<1>2. worker[w].at = "write" BY DEF TransitionWrite
<1>3. n \in 1..5 BY <1>1, StageNames DEF Types, Worker
<1>4. stage \in Phases /\ (stage = "complete" => n = 5)
  BY <1>3, StageNames
<1>5. place \in {"acquire", "work", "return"}
      /\ (place # "return" => n \in 1..4)
  BY <1>3, <1>4, StageNames
<1>6. /\ record' = [record EXCEPT ![worker[w].job] =
                      [worker[w].buf EXCEPT !.phase = stage]]
      /\ Move(w, place)
      /\ UNCHANGED <<queue, active, leased, saved, applied, up, stopping, named,
                     submits, upsets>>
  BY DEF TransitionWrite, history
<1>7. stage = "complete" => PaidFor(worker[w].job)
  BY <1>1, <1>2, <1>4 DEF PaidFirst
<1> HIDE DEF place, stage
<1>8. QED BY <1>2, <1>4, <1>5, <1>6, <1>7, WriteStep

(* A worker records an error. *)
LEMMA MarkErrorWritePreserves ==
  ASSUME IInv, NEW w \in Workers, MarkErrorWrite(w)
  PROVE  IInv'
<1>1. "error" \in Phases BY DEF Phases
<1>2. QED BY <1>1, WriteStep DEF MarkErrorWrite, history

(* Only an applied debit lets a worker go on to the last transition. *)
LEMMA DebitPreserves ==
  ASSUME IInv, NEW w \in Workers, Debit(w)
  PROVE  IInv'
<1> DEFINE j == worker[w].job
           n == worker[w].stage
           buf == worker[w].buf
           debited == applied \cup {<<buf.account, DebitSeq>>}
<1>1. Types /\ WorkerFacts /\ AccountsNamed /\ CompleteMeansDebited BY DEF IInv
<1>2. worker[w].at = "debit" /\ Running(w) BY DEF Debit, Running
<1>3. j \in Jobs /\ buf.account \in named[j]
  BY <1>1, <1>2 DEF WorkerFacts, AccountsNamed
<1>4. /\ \/ applied' = debited /\ Move(w, "read")
         \/ applied' \in {applied, debited} /\ Move(w, "failRead")
      /\ UNCHANGED <<record, queue, active, leased, saved, up, stopping, named,
                     submits, upsets>>
  BY DEF Debit, history
<1>5. applied \subseteq applied' /\ applied' \subseteq debited BY <1>4
<1>6. PICK place \in {"read", "failRead"} :
        Move(w, place) /\ (place = "read" => applied' = debited)
  BY <1>4
<1>7. StepsTo(w, place, n, buf) BY <1>1, <1>6, MoveFacts DEF Places
<1>8. worker'[w].at = "read" => PaidFor(j)'
  <2>1. worker'[w].job = j /\ worker'[w].at = place BY <1>7 DEF StepsTo
  <2>2. QED BY <1>3, <1>4, <1>6, <2>1 DEF PaidFor
<1>9. /\ WorkerFacts' /\ AccountsNamed' /\ PaidFirst' /\ LeaseHolders'
      /\ OneWorkerPerJob'
  BY <1>2, <1>4, <1>5, <1>7, <1>8, OneWorkerMoves DEF StepsTo
<1>10. CompleteMeansDebited' BY <1>1, <1>4, <1>5 DEF CompleteMeansDebited
<1>11. Types'
  <2>1. buf.account \in Accounts
    BY <1>1, <1>2, <1>3 DEF Types, WorkerFacts
  <2>2. QED BY <1>1, <1>4, <1>5, <1>7, <2>1 DEF Types, StepsTo
<1>12. QED BY <1>9, <1>10, <1>11 DEF IInv

(* finish gives up the job: nobody else runs it. *)
LEMMA FinishPreserves ==
  ASSUME IInv, NEW w \in Workers, Finish(w)
  PROVE  IInv'
<1>1. /\ Types /\ WorkerFacts /\ AccountsNamed /\ PaidFirst /\ LeaseHolders
      /\ OneWorkerPerJob /\ CompleteMeansDebited
  BY DEF IInv
<1>2. Running(w) BY DEF Finish, Running
<1>3. /\ worker' = [worker EXCEPT ![w] = IdleWorker]
      /\ active' = active \ {worker[w].job}
      /\ UNCHANGED <<record, queue, leased, saved, applied, up, stopping, named,
                     submits, upsets>>
  BY DEF Finish, history
<1>4. /\ worker' \in [Workers -> Worker] /\ worker'[w].at = "idle"
      /\ \A v \in Workers \ {w} : worker'[v] = worker[v]
  BY <1>1, <1>3, IdleFacts DEF Types
<1>5. Types' BY <1>1, <1>3, <1>4 DEF Types
<1>7. ~Running(w)' /\ \A v \in Workers \ {w} : Running(v)' <=> Running(v)
  BY <1>4 DEF Running
<1>6. WorkerFacts' /\ PaidFirst'
  BY <1>1, <1>3, <1>4, <1>7 DEF WorkerFacts, PaidFirst, PaidFor
<1>6a. LeaseHolders' BY <1>1, <1>3, <1>4 DEF LeaseHolders, Finish, Types
<1>6b. AccountsNamed' BY <1>1, <1>3, <1>4, <1>7 DEF AccountsNamed
<1>8. OneWorkerPerJob'
  <2>1. \A v, u \in Workers :
          Running(v)' /\ Running(u)' /\ worker'[v].job = worker'[u].job => v = u
    BY <1>1, <1>4, <1>7 DEF OneWorkerPerJob
  <2>2. active' = {worker'[v].job : v \in {u \in Workers : Running(u)'}}
    BY <1>1, <1>2, <1>3, <1>4, <1>7 DEF OneWorkerPerJob
  <2>3. QED BY <2>1, <2>2 DEF OneWorkerPerJob
<1>9. CompleteMeansDebited' BY <1>1, <1>3 DEF CompleteMeansDebited
<1>10. QED BY <1>5, <1>6, <1>6a, <1>6b, <1>8, <1>9 DEF IInv

(* Losing everything but the store and the payment daemon's records, and   *)
(* starting again, keep the invariant.                                     *)
LEMMA ProcessPreserves ==
  ASSUME IInv, Crash \/ Shutdown \/ Exit \/ Start
  PROVE  IInv'
<1>1. /\ Types /\ WorkerFacts /\ AccountsNamed /\ PaidFirst /\ LeaseHolders
      /\ OneWorkerPerJob /\ CompleteMeansDebited
  BY DEF IInv
<1>2. CompleteMeansDebited'
  BY <1>1 DEF CompleteMeansDebited, Crash, Exit, Down, Shutdown, Start, history
<1>3. CASE Crash \/ Exit
  <2>1. Down /\ upsets' \in Nat BY <1>1, <1>3 DEF Crash, Exit, Types
  <2>2. worker' \in [Workers -> Worker]
        /\ \A w \in Workers : worker'[w].at = "idle"
    BY <2>1, IdleFacts DEF Down
  <2>3. queue' \in Seq(Jobs) /\ Len(queue') = 0 BY <2>1, EmptySeq DEF Down
  <2>5. Types' BY <1>1, <2>1, <2>2, <2>3 DEF Down, Types
  <2>6. WorkerFacts' /\ PaidFirst' /\ LeaseHolders'
    BY <2>1, <2>2 DEF WorkerFacts, PaidFirst, LeaseHolders, Running, Down
  <2>7. OneWorkerPerJob' BY <2>1, <2>2 DEF OneWorkerPerJob, Running, Down
  <2>8. AccountsNamed'
    BY <1>1, <2>1, <2>2, <2>3 DEF AccountsNamed, Running, Down
  <2>9. QED BY <1>2, <2>5, <2>6, <2>7, <2>8 DEF IInv
<1>4. CASE Shutdown
  <2>1. Types' BY <1>1, <1>4 DEF Types, Shutdown
  <2>2. AccountsNamed' BY <1>1, <1>4 DEF AccountsNamed, Shutdown, Running
  <2>3. QED BY <1>2, <1>4, <2>1, <2>2, WorkersUntouched DEF IInv, Shutdown
<1>5. CASE Start
  <2>1. Types' BY <1>1, <1>5 DEF Types, Start, history
  <2>2. AccountsNamed' BY <1>1, <1>5 DEF AccountsNamed, Start, history, Running
  <2>3. QED BY <1>2, <1>5, <2>1, <2>2, WorkersUntouched DEF IInv, Start, history
<1>6. QED BY <1>3, <1>4, <1>5

(* Every step of the runner preserves the invariant. *)
LEMMA NextIInv == IInv /\ [Next]_vars => IInv'
<1> SUFFICES ASSUME IInv, [Next]_vars PROVE IInv' OBVIOUS
<1>1. ASSUME NEW j \in Jobs,
             SubmitQueue(j) \/ \E a \in Offers[j] : SubmitSave(j, a)
      PROVE  IInv'
  BY <1>1, SubmitPreserves
<1>2. ASSUME NEW w \in Workers, Pop(w) \/ WorkerStep(w) \/ Fault(w)
      PROVE  IInv'
  BY <1>2, PopPreserves, QuietPreserves, TransitionWritePreserves,
     DebitPreserves, MarkErrorWritePreserves, FinishPreserves DEF WorkerStep
<1>3. CASE Crash \/ Shutdown \/ Exit \/ Start BY <1>3, ProcessPreserves
<1>4. CASE UNCHANGED vars
  BY <1>4 DEF IInv, vars, Types, WorkerFacts, AccountsNamed, PaidFirst, PaidFor,
              LeaseHolders, OneWorkerPerJob, CompleteMeansDebited, Running
<1>5. QED BY <1>1, <1>2, <1>3, <1>4 DEF Next

(* The inductive invariant holds in every reachable state of the runner. *)
THEOREM Inductive == Spec => []IInv
BY InitIInv, NextIInv, PTL DEF Spec

------------------------------------------------------------------------------
(* The results. *)

(* Type correctness. *)
THEOREM TypeCorrect == Spec => []TypeOK
<1>1. IInv => TypeOK BY DEF IInv, Types, TypeOK
<1>2. QED BY <1>1, Inductive, PTL

(* No job is run by two workers at a time, and Runner.active lists exactly *)
(* the jobs that are being run, however ids are resubmitted and popped.    *)
THEOREM OneWorker == Spec => []OneWorkerPerJob
<1>1. IInv => OneWorkerPerJob BY DEF IInv
<1>2. QED BY <1>1, Inductive, PTL

(* A job is recorded as complete only once the payment daemon has applied  *)
(* a debit on an account it was submitted under, or if one of its          *)
(* submissions was free: whatever ids are resubmitted under whatever       *)
(* accounts, and whatever answers are lost.                                *)
THEOREM PaidWhenComplete == Spec => []CompleteMeansDebited
<1>1. IInv => CompleteMeansDebited BY DEF IInv
<1>2. QED BY <1>1, Inductive, PTL

(* No lease outlives runOne: when no job is active, the runner holds none. *)
THEOREM LeasesReturned == Spec => [](active = {} => leased = {})
<1>1. IInv => (active = {} => leased = {})
  <2> SUFFICES ASSUME IInv, active = {}, NEW w \in leased PROVE FALSE OBVIOUS
  <2>1. Types /\ LeaseHolders /\ OneWorkerPerJob BY DEF IInv
  <2>2. w \in Workers /\ Running(w) BY <2>1 DEF Types, LeaseHolders, Running
  <2>3. QED BY <2>1, <2>2 DEF OneWorkerPerJob
<1>2. QED BY <1>1, Inductive, PTL
=============================================================================
