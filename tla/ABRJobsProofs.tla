--------------------------- MODULE ABRJobsProofs ----------------------------
(***************************************************************************)
(* What the ABR runner guarantees for every number of jobs, callers and    *)
(* workers and every ladder length.                                        *)
(*                                                                         *)
(* The inductive invariant IInv follows RunOne: a worker at rendition n    *)
(* has the first n - 1 uploaded, announced and paid for (LadderFacts), it  *)
(* leaves only after an answer or a failing store (EndFacts), and a job    *)
(* that anyone holds has a record (Known).                                 *)
(***************************************************************************)
EXTENDS ABRJobs, FiniteSetTheorems, SequenceTheorems, TLAPS

Codes == {"", "DOWNLOAD_FAILED", "PROBE_FAILED", "JOB_INVALID_PRESET",
          "CAPACITY_EXCEEDED", "ENCODING_FAILED", "UPLOAD_FAILED",
          "PAYMENT_FAILED"}
StoredRecord == [phase : Phases, plan : BOOLEAN, code : Codes]
Ats == {"idle", "begin", "read", "write", "fetch", "probe", "preset", "acquire",
        "encode", "upload", "debit", "master", "failRead", "failWrite", "finish"}
Targets == {"downloading", "probing", "encoding", "uploading", "complete"}
Worker == [at : Ats, job : Jobs \cup {NoJob}, to : Phases, rend : 0..Ladder,
           buf : StoredRecord, code : Codes]
Caller == [at : {"new", "queue", "planRead", "planWrite", "returned"},
           job : Jobs \cup {NoJob}, buf : StoredRecord]

Types ==
  /\ record \in [Jobs -> StoredRecord]
  /\ queue \in Seq(Jobs) /\ active \subseteq Jobs /\ leased \subseteq Workers
  /\ worker \in [Workers -> Worker]
  /\ caller \in [Callers -> Caller]
  /\ uploaded \in [Jobs -> SUBSET (1..Ladder)]
  /\ applied \in [Jobs -> SUBSET (1..Ladder)]
  /\ announced \in [Jobs -> SUBSET (1..Ladder)]
  /\ answered \in [Jobs -> SUBSET {"complete", "error"}]
  /\ stopping \in BOOLEAN /\ faults \in 0..MaxFaults

(* The first n renditions of job j are uploaded, announced and paid for. *)
Done(j, n) ==
  /\ 1..n \subseteq uploaded[j] /\ 1..n \subseteq announced[j]
  /\ j \in Priced => 1..n \subseteq applied[j]

LadderFacts ==
  \A w \in Workers :
    /\ worker[w].at \in {"read", "write"} => worker[w].to \in Targets
    /\ worker[w].at \in {"preset", "acquire", "encode", "upload", "debit"} =>
         worker[w].rend \in 1..Ladder /\ Done(worker[w].job, worker[w].rend - 1)
    /\ worker[w].at = "debit" => worker[w].rend \in uploaded[worker[w].job]
    /\ \/ worker[w].at = "master"
       \/ /\ worker[w].at \in {"read", "write"}
          /\ worker[w].to \in {"uploading", "complete"}
       => Done(worker[w].job, Ladder)

EndFacts ==
  \A w \in Workers : worker[w].at = "finish" /\ worker[w].job \in Planned =>
    answered[worker[w].job] # {} \/ faults # 0

Known ==
  /\ \A w \in Workers : worker[w].at # "idle" =>
       worker[w].job \in Jobs /\ record[worker[w].job] # Absent
  /\ \A c \in Callers : caller[c].at # "new" =>
       caller[c].job \in Jobs /\ record[caller[c].job] # Absent
  /\ \A k \in 1..Len(queue) : record[queue[k]] # Absent

(* Renditions are delivered in order, each after the earlier ones are paid *)
(* for.                                                                    *)
PaidInOrder ==
  \A j \in Priced : \A r \in uploaded[j] : 1..(r - 1) \subseteq applied[j]

(* A drainer goroutine stands behind every worker between the preset       *)
(* lookup and the end of the encode.                                       *)
Draining == {w \in Workers : worker[w].at \in {"acquire", "encode"}}
DrainersCounted == drainers \in Int /\ drainers >= Cardinality(Draining)

IInv == /\ Types /\ LadderFacts /\ EndFacts /\ Known
        /\ CompleteIsWhole /\ PaidInOrder /\ NotForgotten /\ DrainersCounted

------------------------------------------------------------------------------
(* The zero record and the idle worker. *)
LEMMA IdleFacts ==
  /\ Absent \in StoredRecord /\ Absent.phase = "none" /\ Absent.plan = FALSE
  /\ Idle \in Worker /\ Idle.at = "idle"
<1>1. Absent \in StoredRecord /\ Absent.phase = "none" /\ Absent.plan = FALSE
  BY DEF Absent, StoredRecord, Phases, Codes
<1>2. QED
  BY <1>1, ABRAssumption DEF Idle, Worker, Ats, Codes, Phases

(* A record that is written is never the zero record. *)
LEMMA WrittenFacts ==
  ASSUME NEW buf \in StoredRecord
  PROVE  /\ \A to \in Targets : /\ [buf EXCEPT !.phase = to] \in StoredRecord
                                /\ [buf EXCEPT !.phase = to] # Absent
         /\ \A code \in Codes :
              /\ [buf EXCEPT !.phase = "error", !.code = code] \in StoredRecord
              /\ [buf EXCEPT !.phase = "error", !.code = code] # Absent
         /\ [buf EXCEPT !.plan = TRUE] \in StoredRecord
         /\ [buf EXCEPT !.plan = TRUE] # Absent
<1>1. ASSUME NEW to \in Targets
      PROVE  [buf EXCEPT !.phase = to] \in StoredRecord
             /\ [buf EXCEPT !.phase = to] # Absent
  BY IdleFacts DEF StoredRecord, Targets, Phases
<1>2. ASSUME NEW code \in Codes
      PROVE  /\ [buf EXCEPT !.phase = "error", !.code = code] \in StoredRecord
             /\ [buf EXCEPT !.phase = "error", !.code = code] # Absent
  <2> DEFINE x == [buf EXCEPT !.phase = "error"]
  <2>1. x \in StoredRecord /\ x.phase = "error" BY DEF StoredRecord, Phases
  <2> HIDE DEF x
  <2>2. /\ [x EXCEPT !.code = code] \in StoredRecord
        /\ [x EXCEPT !.code = code].phase = "error"
    BY <2>1 DEF StoredRecord
  <2>3. QED BY <2>2, IdleFacts DEF x
<1>3. [buf EXCEPT !.plan = TRUE] \in StoredRecord
      /\ [buf EXCEPT !.plan = TRUE] # Absent
  BY IdleFacts DEF StoredRecord
<1>4. QED BY <1>1, <1>2, <1>3

(* Worker w goes to a place with the given target phase and rendition,     *)
(* keeping its job.                                                        *)
StepsTo(w, at, to, rend) ==
  /\ worker' \in [Workers -> Worker]
  /\ \A v \in Workers \ {w} : worker'[v] = worker[v]
  /\ worker'[w].at = at /\ worker'[w].to = to /\ worker'[w].rend = rend
  /\ worker'[w].job = worker[w].job

(* The updates RunOne makes. *)
LEMMA StepFacts ==
  ASSUME Types, NEW w \in Workers
  PROVE  /\ \A at \in Ats : Goto(w, at) =>
              StepsTo(w, at, worker[w].to, worker[w].rend)
         /\ \A to \in Targets : Advance(w, to) =>
              StepsTo(w, "read", to, worker[w].rend)
         /\ \A code \in Codes : Fail(w, code) =>
              StepsTo(w, "failRead", worker[w].to, worker[w].rend)
<1>1. ASSUME NEW at \in Ats, Goto(w, at)
      PROVE  StepsTo(w, at, worker[w].to, worker[w].rend)
  BY <1>1 DEF Types, Worker, Goto, StepsTo
<1>2. ASSUME NEW to \in Targets, Advance(w, to)
      PROVE  StepsTo(w, "read", to, worker[w].rend)
  <2>1. to \in Phases /\ "read" \in Ats BY DEF Targets, Phases, Ats
  <2>2. QED BY <1>2, <2>1 DEF Types, Worker, Advance, StepsTo
<1>3. ASSUME NEW code \in Codes, Fail(w, code)
      PROVE  StepsTo(w, "failRead", worker[w].to, worker[w].rend)
  <2>1. "failRead" \in Ats BY DEF Ats
  <2>2. QED BY <1>3, <2>1 DEF Types, Worker, Fail, StepsTo
<1>4. QED BY <1>1, <1>2, <1>3

(* The number of drainers covers the workers that need one. *)
LEMMA DrainFacts ==
  ASSUME Types, DrainersCounted, NEW w \in Workers,
         \A v \in Workers \ {w} : worker'[v] = worker[v],
         \/ /\ worker'[w].at \in {"acquire", "encode"} =>
                 worker[w].at \in {"acquire", "encode"}
            /\ drainers' = drainers
         \/ /\ worker[w].at \notin {"acquire", "encode"}
            /\ drainers' = drainers + 1
         \/ /\ worker[w].at \in {"acquire", "encode"}
            /\ worker'[w].at \notin {"acquire", "encode"}
            /\ drainers' = drainers - 1
  PROVE  DrainersCounted'
<1> DEFINE D == Draining
           E == Draining'
<1>1. IsFiniteSet(D) /\ IsFiniteSet(E) /\ IsFiniteSet(D \cup {w})
      /\ Cardinality(D) \in Nat /\ Cardinality(E) \in Nat
  BY ABRAssumption, FS_Subset, FS_CardinalityType, FS_AddElement DEF Draining
<1>2. CASE /\ worker'[w].at \in {"acquire", "encode"} =>
                worker[w].at \in {"acquire", "encode"}
           /\ drainers' = drainers
  <2>1. E \subseteq D BY <1>2 DEF Draining
  <2>2. Cardinality(E) <= Cardinality(D) BY <1>1, <2>1, FS_Subset
  <2> HIDE DEF D, E
  <2>3. QED BY <1>1, <1>2, <2>2 DEF DrainersCounted, D, E
<1>3. CASE /\ worker[w].at \notin {"acquire", "encode"}
           /\ drainers' = drainers + 1
  <2>1. E \subseteq D \cup {w} /\ w \notin D BY <1>3 DEF Draining
  <2>2. Cardinality(E) <= Cardinality(D) + 1
    BY <1>1, <2>1, FS_Subset, FS_AddElement
  <2> HIDE DEF D, E
  <2>3. QED BY <1>1, <1>3, <2>2 DEF DrainersCounted, D, E
<1>4. CASE /\ worker[w].at \in {"acquire", "encode"}
           /\ worker'[w].at \notin {"acquire", "encode"}
           /\ drainers' = drainers - 1
  <2>1. E = D \ {w} /\ w \in D BY <1>4 DEF Draining
  <2>2. Cardinality(E) = Cardinality(D) - 1 BY <1>1, <2>1, FS_RemoveElement
  <2> HIDE DEF D, E
  <2>3. QED BY <1>1, <1>4, <2>2 DEF DrainersCounted, D, E
<1>5. QED BY <1>2, <1>3, <1>4

(* A step of one worker that keeps its job: what it must establish. *)
LEMMA WorkerMoves ==
  ASSUME IInv, NEW w \in Workers, NEW at, NEW to, NEW rend,
         NEW j \in Jobs, j = worker[w].job,
         worker[w].at # "idle", StepsTo(w, at, to, rend), at # "idle",
         UNCHANGED <<queue, active, caller>>,
         \A i \in Jobs : record'[i] # Absent <=> record[i] # Absent,
         \A i \in Jobs : /\ uploaded[i] \subseteq uploaded'[i]
                         /\ applied[i] \subseteq applied'[i]
                         /\ announced[i] \subseteq announced'[i]
                         /\ answered[i] \subseteq answered'[i],
         faults # 0 => faults' # 0,
         at \in {"read", "write"} => to \in Targets,
         at \in {"preset", "acquire", "encode", "upload", "debit"} =>
           rend \in 1..Ladder /\ Done(j, rend - 1)',
         at = "debit" => rend \in uploaded'[j],
         \/ at = "master"
         \/ at \in {"read", "write"} /\ to \in {"uploading", "complete"}
         => Done(j, Ladder)',
         at = "finish" /\ j \in Planned => answered'[j] # {} \/ faults' # 0
  PROVE  LadderFacts' /\ EndFacts' /\ Known' /\ NotForgotten'
<1>1. /\ Types /\ LadderFacts /\ EndFacts /\ Known /\ NotForgotten
  BY DEF IInv
<1>2. \A v \in Workers : worker'[v].job = worker[v].job BY DEF StepsTo
<1>3. Known' BY <1>1, <1>2, ElementOfSeq DEF Known, StepsTo, Types
<1>4. LadderFacts'
  <2> SUFFICES ASSUME NEW v \in Workers
               PROVE  LadderFacts!(v)'
    BY DEF LadderFacts
  <2>1. CASE v = w
    <3>1. worker'[v].job = j /\ worker'[v].at = at /\ worker'[v].to = to
          /\ worker'[v].rend = rend
      BY <2>1 DEF StepsTo
    <3>2. QED BY <3>1 DEF Done
  <2>2. CASE v # w
    <3>1. worker'[v] = worker[v] BY <2>2 DEF StepsTo
    <3>2. LadderFacts!(v) BY <1>1 DEF LadderFacts
    <3>3. CASE worker[v].at = "idle" BY <3>1, <3>3
    <3>4. CASE worker[v].at # "idle"
      <4>1. PICK i \in Jobs : i = worker[v].job BY <1>1, <3>4 DEF Known
      <4>2. /\ uploaded[i] \subseteq uploaded'[i]
            /\ applied[i] \subseteq applied'[i]
            /\ announced[i] \subseteq announced'[i]
        BY <4>1
      <4>3. QED BY <3>1, <3>2, <4>1, <4>2 DEF Done
    <3>5. QED BY <3>3, <3>4
  <2>3. QED BY <2>1, <2>2
<1>5. EndFacts'
  BY <1>1, <1>2 DEF EndFacts, StepsTo, Known
<1>6. NotForgotten'
  BY <1>1, ABRAssumption DEF NotForgotten
<1>7. QED BY <1>3, <1>4, <1>5, <1>6

(* A worker step that writes no record, and stores and pays nothing. *)
LEMMA QuietMoves ==
  ASSUME IInv, NEW w \in Workers, NEW at, NEW to, NEW rend,
         worker[w].at # "idle", StepsTo(w, at, to, rend), at # "idle",
         UNCHANGED <<record, queue, active, caller, uploaded, applied,
                     announced, answered>>,
         leased' \subseteq Workers, stopping' \in BOOLEAN,
         faults' \in 0..MaxFaults, faults # 0 => faults' # 0,
         DrainersCounted',
         at \in {"read", "write"} => to \in Targets,
         at \in {"preset", "acquire", "encode", "upload", "debit"} =>
           rend \in 1..Ladder /\ Done(worker[w].job, rend - 1),
         at = "debit" => rend \in uploaded[worker[w].job],
         \/ at = "master"
         \/ at \in {"read", "write"} /\ to \in {"uploading", "complete"}
         => Done(worker[w].job, Ladder),
         at = "finish" /\ worker[w].job \in Planned =>
           answered[worker[w].job] # {} \/ faults' # 0
  PROVE  IInv'
<1>1. Types /\ Known /\ CompleteIsWhole /\ PaidInOrder BY DEF IInv
<1>2. PICK j \in Jobs : j = worker[w].job BY <1>1 DEF Known
<1>3. \A n : Done(j, n)' <=> Done(j, n) BY DEF Done
<1>4. LadderFacts' /\ EndFacts' /\ Known' /\ NotForgotten'
  BY <1>2, <1>3, WorkerMoves
<1>5. Types' BY <1>1 DEF Types, StepsTo
<1>6. CompleteIsWhole' /\ PaidInOrder'
  BY <1>1 DEF CompleteIsWhole, PaidInOrder
<1>7. QED BY <1>4, <1>5, <1>6 DEF IInv

(* The quiet steps that advance to the next phase or fail, on any outcome. *)
LEMMA PhasePreserves ==
  ASSUME IInv, NEW w \in Workers,
         Begin(w) \/ Fetch(w) \/ Probe(w) \/ UploadMaster(w)
  PROVE  IInv'
<1>1. Types /\ LadderFacts /\ DrainersCounted BY DEF IInv
<1>2. /\ worker[w].at # "idle" /\ worker[w].at \notin {"acquire", "encode"}
      /\ UNCHANGED <<record, queue, active, caller, uploaded, applied,
                     announced, answered, leased, drainers, stopping, faults>>
  BY DEF Begin, Fetch, Probe, UploadMaster, outside
<1>3. leased \subseteq Workers /\ stopping \in BOOLEAN /\ faults \in 0..MaxFaults
  BY <1>1 DEF Types
<1>4. ASSUME NEW to \in {"downloading", "probing", "encoding", "complete"},
             Advance(w, to), to = "complete" => worker[w].at = "master"
      PROVE  IInv'
  <2>1. to \in Targets /\ to # "uploading" BY DEF Targets
  <2>2. StepsTo(w, "read", to, worker[w].rend) BY <1>1, <1>4, <2>1, StepFacts
  <2>3. DrainersCounted' BY <1>1, <1>2, <2>2, DrainFacts DEF StepsTo
  <2>4. to = "complete" => Done(worker[w].job, Ladder)
    BY <1>1, <1>4 DEF LadderFacts
  <2>5. QED BY <1>2, <1>3, <2>1, <2>2, <2>3, <2>4, QuietMoves
<1>5. ASSUME NEW code \in Codes, Fail(w, code) PROVE IInv'
  <2>1. StepsTo(w, "failRead", worker[w].to, worker[w].rend)
    BY <1>1, <1>5, StepFacts
  <2>2. DrainersCounted' BY <1>1, <1>2, <2>1, DrainFacts DEF StepsTo
  <2>3. QED BY <1>2, <1>3, <2>1, <2>2, QuietMoves
<1>6. CASE Begin(w)
  <2>1. CASE worker[w].job \in Planned BY <1>4, <1>6, <2>1 DEF Begin
  <2>2. CASE worker[w].job \notin Planned
    <3>1. StepsTo(w, "finish", worker[w].to, worker[w].rend)
      BY <1>1, <1>6, <2>2, StepFacts DEF Begin, Ats
    <3>2. DrainersCounted' BY <1>1, <1>2, <3>1, DrainFacts DEF StepsTo
    <3>3. QED BY <1>2, <1>3, <2>2, <3>1, <3>2, QuietMoves
  <2>3. QED BY <2>1, <2>2
<1>7. CASE Fetch(w) BY <1>4, <1>5, <1>7 DEF Fetch, Codes
<1>8. CASE Probe(w) BY <1>4, <1>5, <1>8 DEF Probe, Codes
<1>9. CASE UploadMaster(w) BY <1>4, <1>5, <1>9 DEF UploadMaster, Codes
<1>10. QED BY <1>6, <1>7, <1>8, <1>9

(* The two reads, which fill the worker's buffer. *)
LEMMA ReadPreserves ==
  ASSUME IInv, NEW w \in Workers, TransitionRead(w) \/ MarkErrorRead(w)
  PROVE  IInv'
<1>1. Types /\ LadderFacts /\ Known /\ DrainersCounted BY DEF IInv
<1>2. /\ worker[w].at \in {"read", "failRead"}
      /\ UNCHANGED <<record, queue, active, caller, uploaded, applied,
                     announced, answered, leased, drainers, stopping, faults>>
  BY DEF TransitionRead, MarkErrorRead, outside
<1>3. leased \subseteq Workers /\ stopping \in BOOLEAN /\ faults \in 0..MaxFaults
  BY <1>1 DEF Types
<1> DEFINE rec == record[worker[w].job]
           at == IF worker[w].at = "read" THEN "write" ELSE "failWrite"
<1>4. rec \in StoredRecord BY <1>1, <1>2 DEF Known, Types
<1>5. at \in Ats /\ at \in {"write", "failWrite"} BY DEF Ats
<1>6. worker' = [worker EXCEPT ![w].at = at, ![w].buf = rec]
  BY DEF TransitionRead, MarkErrorRead
<1>a. at = "write" => worker[w].at = "read" OBVIOUS
<1> HIDE DEF rec, at
<1>7. StepsTo(w, at, worker[w].to, worker[w].rend)
  BY <1>1, <1>4, <1>5, <1>6 DEF Types, Worker, StepsTo
<1>8. DrainersCounted' BY <1>1, <1>2, <1>5, <1>7, DrainFacts DEF StepsTo
<1>9. at = "write" =>
        /\ worker[w].to \in Targets
        /\ worker[w].to \in {"uploading", "complete"} =>
             Done(worker[w].job, Ladder)
  BY <1>1, <1>a DEF LadderFacts
<1>10. QED BY <1>2, <1>3, <1>5, <1>7, <1>8, <1>9, QuietMoves

(* The rendition loop up to the upload. *)
LEMMA LoopPreserves ==
  ASSUME IInv, NEW w \in Workers, LookupPreset(w) \/ Acquire(w) \/ Encode(w)
  PROVE  IInv'
<1>1. Types /\ LadderFacts /\ DrainersCounted BY DEF IInv
<1>2. /\ worker[w].at \in {"preset", "acquire", "encode"}
      /\ leased' \subseteq Workers
      /\ UNCHANGED <<record, queue, active, caller, uploaded, applied,
                     announced, answered, stopping, faults>>
  BY <1>1 DEF LookupPreset, Acquire, Encode, outside, Types
<1>3. stopping \in BOOLEAN /\ faults \in 0..MaxFaults BY <1>1 DEF Types
<1>4. worker[w].rend \in 1..Ladder /\ Done(worker[w].job, worker[w].rend - 1)
  BY <1>1, <1>2 DEF LadderFacts
<1>5. ASSUME NEW at \in {"acquire", "encode", "upload"}, Goto(w, at),
             DrainersCounted'
      PROVE  IInv'
  <2>1. StepsTo(w, at, worker[w].to, worker[w].rend)
    BY <1>1, <1>5, StepFacts DEF Ats
  <2>2. QED BY <1>2, <1>3, <1>4, <1>5, <2>1, QuietMoves
<1>6. ASSUME NEW code \in Codes, Fail(w, code), DrainersCounted'
      PROVE  IInv'
  <2>1. StepsTo(w, "failRead", worker[w].to, worker[w].rend)
    BY <1>1, <1>6, StepFacts
  <2>2. QED BY <1>2, <1>3, <1>6, <2>1, QuietMoves
<1>7. ASSUME NEW at \in Ats, Goto(w, at)
      PROVE  worker'[w].at = at /\ \A v \in Workers \ {w} : worker'[v] = worker[v]
  BY <1>1, <1>7, StepFacts DEF StepsTo
<1>8. ASSUME NEW code \in Codes, Fail(w, code)
      PROVE  worker'[w].at = "failRead"
             /\ \A v \in Workers \ {w} : worker'[v] = worker[v]
  BY <1>1, <1>8, StepFacts DEF StepsTo
<1>a. {"acquire", "encode", "upload"} \subseteq Ats
      /\ {"JOB_INVALID_PRESET", "CAPACITY_EXCEEDED", "ENCODING_FAILED"}
         \subseteq Codes
  BY DEF Ats, Codes
<1>9. CASE LookupPreset(w)
  <2>1. DrainersCounted'
    BY <1>1, <1>7, <1>8, <1>9, <1>a, DrainFacts DEF LookupPreset
  <2>2. QED BY <1>5, <1>6, <1>9, <1>a, <2>1 DEF LookupPreset
<1>10. CASE Acquire(w)
  <2>1. DrainersCounted'
    BY <1>1, <1>7, <1>8, <1>10, <1>a, DrainFacts DEF Acquire
  <2>2. QED BY <1>5, <1>6, <1>10, <1>a, <2>1 DEF Acquire
<1>11. CASE Encode(w)
  <2>1. DrainersCounted'
    BY <1>1, <1>7, <1>8, <1>11, <1>a, DrainFacts DEF Encode
  <2>2. QED BY <1>5, <1>6, <1>11, <1>a, <2>1 DEF Encode
<1>12. QED BY <1>9, <1>10, <1>11

(* A store fault ends RunOne without an answer, and is counted. *)
LEMMA FaultPreserves ==
  ASSUME IInv, NEW w \in Workers, Fault(w)
  PROVE  IInv'
<1>1. Types /\ DrainersCounted BY DEF IInv
<1>2. StepsTo(w, "finish", worker[w].to, worker[w].rend)
  BY <1>1, StepFacts DEF Fault, Ats
<1>3. /\ worker[w].at \in {"read", "write", "failRead", "failWrite"}
      /\ faults < MaxFaults /\ faults' = faults + 1
      /\ UNCHANGED <<record, queue, active, leased, drainers, caller, uploaded,
                     applied, announced, answered, stopping>>
  BY DEF Fault, outside
<1>4. DrainersCounted' BY <1>1, <1>2, <1>3, DrainFacts DEF StepsTo
<1>5. faults' \in 0..MaxFaults /\ faults' # 0
  BY <1>1, <1>3, ABRAssumption DEF Types
<1>6. leased \subseteq Workers /\ stopping \in BOOLEAN BY <1>1 DEF Types
<1>7. QED BY <1>2, <1>3, <1>4, <1>5, <1>6, QuietMoves

(* A rendition is stored only when the ones before it are paid for. *)
LEMMA UploadPreserves ==
  ASSUME IInv, NEW w \in Workers, Upload(w)
  PROVE  IInv'
<1>1. /\ Types /\ LadderFacts /\ Known /\ CompleteIsWhole /\ PaidInOrder
      /\ DrainersCounted
  BY DEF IInv
<1>2. /\ worker[w].at = "upload"
      /\ UNCHANGED <<record, queue, active, caller, applied, announced, answered,
                     leased, drainers, stopping, faults>>
  BY DEF Upload
<1>3. PICK j \in Jobs : j = worker[w].job BY <1>1, <1>2 DEF Known
<1>4. PICK n \in 1..Ladder : n = worker[w].rend BY <1>1, <1>2 DEF LadderFacts
<1>5. Done(j, n - 1) BY <1>1, <1>2, <1>3, <1>4 DEF LadderFacts
<1>6. leased \subseteq Workers /\ stopping \in BOOLEAN /\ faults \in 0..MaxFaults
  BY <1>1 DEF Types
<1>7. ASSUME Fail(w, "UPLOAD_FAILED"), uploaded' = uploaded PROVE IInv'
  <2>1. StepsTo(w, "failRead", worker[w].to, worker[w].rend)
    BY <1>1, <1>7, StepFacts DEF Codes
  <2>2. DrainersCounted' BY <1>1, <1>2, <2>1, DrainFacts DEF StepsTo
  <2>3. QED BY <1>2, <1>6, <1>7, <2>1, <2>2, QuietMoves
<1>8. ASSUME uploaded' = [uploaded EXCEPT ![j] = @ \cup {n}], Goto(w, "debit")
      PROVE  IInv'
  <2>1. StepsTo(w, "debit", worker[w].to, n)
    BY <1>1, <1>4, <1>8, StepFacts DEF Ats
  <2>2. /\ uploaded' \in [Jobs -> SUBSET (1..Ladder)]
        /\ \A i \in Jobs : uploaded[i] \subseteq uploaded'[i]
        /\ uploaded'[j] = uploaded[j] \cup {n}
        /\ \A i \in Jobs \ {j} : uploaded'[i] = uploaded[i]
    BY <1>1, <1>8 DEF Types
  <2>3. Done(j, n - 1)' BY <1>2, <1>5, <2>2 DEF Done
  <2>4. LadderFacts' /\ EndFacts' /\ Known' /\ NotForgotten'
    BY <1>2, <1>3, <2>1, <2>2, <2>3, WorkerMoves
  <2>5. Types' BY <1>1, <1>2, <2>1, <2>2 DEF Types, StepsTo
  <2>6. CompleteIsWhole' BY <1>1, <1>2, <2>2 DEF CompleteIsWhole
  <2>7. PaidInOrder'
    BY <1>1, <1>2, <1>5, <2>2, ABRAssumption DEF PaidInOrder, Done
  <2>8. DrainersCounted' BY <1>1, <1>2, <2>1, DrainFacts DEF StepsTo
  <2>9. QED BY <2>4, <2>5, <2>6, <2>7, <2>8 DEF IInv
<1>9. QED BY <1>3, <1>4, <1>7, <1>8 DEF Upload

(* A rendition is announced, and the loop goes on, once it is paid for. *)
LEMMA DebitPreserves ==
  ASSUME IInv, NEW w \in Workers, Debit(w)
  PROVE  IInv'
<1>1. /\ Types /\ LadderFacts /\ Known /\ CompleteIsWhole /\ PaidInOrder
      /\ DrainersCounted
  BY DEF IInv
<1>2. /\ worker[w].at = "debit"
      /\ UNCHANGED <<record, queue, active, caller, uploaded, answered, leased,
                     drainers, stopping, faults>>
  BY DEF Debit
<1>3. PICK j \in Jobs : j = worker[w].job BY <1>1, <1>2 DEF Known
<1>4. PICK n \in 1..Ladder : n = worker[w].rend BY <1>1, <1>2 DEF LadderFacts
<1>5. Done(j, n - 1) /\ n \in uploaded[j]
  BY <1>1, <1>2, <1>3, <1>4 DEF LadderFacts
<1> DEFINE debited == [applied EXCEPT ![j] = @ \cup {n}]
<1>6. \/ /\ RenditionDone(w)
         /\ IF j \notin Priced THEN applied' = applied ELSE applied' = debited
      \/ /\ Fail(w, "PAYMENT_FAILED") /\ applied' \in {applied, debited}
         /\ announced' = announced
  BY <1>3, <1>4 DEF Debit
<1>7. /\ debited \in [Jobs -> SUBSET (1..Ladder)]
      /\ debited[j] = applied[j] \cup {n}
      /\ \A i \in Jobs \ {j} : debited[i] = applied[i]
  BY <1>1 DEF Types
<1> HIDE DEF debited
<1>8. /\ applied' \in [Jobs -> SUBSET (1..Ladder)]
      /\ \A i \in Jobs : applied[i] \subseteq applied'[i]
  BY <1>1, <1>6, <1>7 DEF Types
<1>9. PaidInOrder' BY <1>1, <1>2, <1>8, ABRAssumption DEF PaidInOrder
<1>10. CASE /\ Fail(w, "PAYMENT_FAILED") /\ applied' \in {applied, debited}
            /\ announced' = announced
  <2>1. StepsTo(w, "failRead", worker[w].to, worker[w].rend)
    BY <1>1, <1>10, StepFacts DEF Codes
  <2>2. DrainersCounted' BY <1>1, <1>2, <2>1, DrainFacts DEF StepsTo
  <2>3. LadderFacts' /\ EndFacts' /\ Known' /\ NotForgotten'
    BY <1>2, <1>3, <1>8, <1>10, <2>1, WorkerMoves
  <2>4. Types' BY <1>1, <1>2, <1>8, <1>10, <2>1 DEF Types, StepsTo
  <2>5. CompleteIsWhole'
    BY <1>1, <1>2, <1>8, <1>10 DEF CompleteIsWhole, Types
  <2>6. QED BY <1>9, <2>2, <2>3, <2>4, <2>5 DEF IInv
<1>11. CASE /\ RenditionDone(w)
            /\ IF j \notin Priced THEN applied' = applied
                                  ELSE applied' = debited
  <2>1. announced' = [announced EXCEPT ![j] = @ \cup {n}]
    BY <1>3, <1>4, <1>11 DEF RenditionDone
  <2>2. /\ announced' \in [Jobs -> SUBSET (1..Ladder)]
        /\ \A i \in Jobs : announced[i] \subseteq announced'[i]
        /\ announced'[j] = announced[j] \cup {n}
    BY <1>1, <2>1 DEF Types
  <2>3. Done(j, n)'
    <3>1. 1..n = (1..(n - 1)) \cup {n} BY <1>4
    <3>2. QED BY <1>2, <1>5, <1>7, <1>11, <2>2, <3>1 DEF Done
  <2>4. PICK at \in {"read", "preset"}, to \in Phases, rend \in Nat :
          /\ StepsTo(w, at, to, rend)
          /\ at = "read" => to = "uploading" /\ n = Ladder
          /\ at = "preset" => rend = n + 1 /\ rend \in 1..Ladder
    <3>1. CASE n = Ladder
      <4>1. Advance(w, "uploading") BY <1>4, <1>11, <3>1 DEF RenditionDone, Last
      <4>2. StepsTo(w, "read", "uploading", n)
        BY <1>1, <1>4, <4>1, StepFacts DEF Targets
      <4>3. QED BY <3>1, <4>2 DEF Phases
    <3>2. CASE n # Ladder
      <4>1. worker' = [worker EXCEPT ![w].at = "preset", ![w].rend = @ + 1]
        BY <1>4, <1>11, <3>2 DEF RenditionDone, Last
      <4>2. n + 1 \in 0..Ladder /\ n + 1 \in 1..Ladder /\ "preset" \in Ats
        BY <3>2, ABRAssumption DEF Ats
      <4>3. StepsTo(w, "preset", worker[w].to, n + 1)
        BY <1>1, <1>4, <4>1, <4>2 DEF Types, Worker, StepsTo
      <4>4. worker[w].to \in Phases BY <1>1 DEF Types, Worker
      <4>5. QED BY <4>2, <4>3, <4>4
    <3>3. QED BY <3>1, <3>2
  <2>5. /\ at = "read" => to \in Targets /\ Done(j, Ladder)'
        /\ at = "preset" => Done(j, rend - 1)'
    <3>1. at = "preset" => rend - 1 = n BY <2>4
    <3>2. QED BY <2>3, <2>4, <3>1 DEF Targets
  <2>6. LadderFacts' /\ EndFacts' /\ Known' /\ NotForgotten'
    BY <1>2, <1>3, <1>8, <2>2, <2>4, <2>5, WorkerMoves
  <2>7. Types' BY <1>1, <1>2, <1>8, <2>2, <2>4 DEF Types, StepsTo
  <2>8. CompleteIsWhole'
    BY <1>1, <1>2, <1>8, <2>2, <2>7 DEF CompleteIsWhole, Types
  <2>9. DrainersCounted' BY <1>1, <1>2, <2>4, DrainFacts DEF StepsTo
  <2>10. QED BY <1>9, <2>6, <2>7, <2>8, <2>9 DEF IInv
<1>12. QED BY <1>6, <1>10, <1>11

(* The place RunOne goes on at after a transition. *)
LEMMA AfterFacts ==
  /\ After("downloading") = "fetch" /\ After("probing") = "probe"
  /\ After("encoding") = "preset" /\ After("uploading") = "master"
  /\ After("complete") = "finish"
BY DEF After

(* The job is announced as complete only with the whole ladder done. *)
LEMMA TransitionWritePreserves ==
  ASSUME IInv, NEW w \in Workers, TransitionWrite(w)
  PROVE  IInv'
<1>1. /\ Types /\ LadderFacts /\ Known /\ CompleteIsWhole /\ PaidInOrder
      /\ DrainersCounted
  BY DEF IInv
<1>2. /\ worker[w].at = "write"
      /\ UNCHANGED <<queue, active, caller, uploaded, applied, announced,
                     leased, drainers, stopping, faults>>
  BY DEF TransitionWrite
<1>3. PICK j \in Jobs : j = worker[w].job BY <1>1, <1>2 DEF Known
<1>4. PICK to \in Targets : to = worker[w].to BY <1>1, <1>2 DEF LadderFacts
<1>5. to \in {"uploading", "complete"} => Done(j, Ladder)
  BY <1>1, <1>2, <1>3, <1>4 DEF LadderFacts
<1> DEFINE buf == worker[w].buf
           rec == [buf EXCEPT !.phase = to]
           at == After(to)
           rend == IF to = "encoding" THEN 1 ELSE worker[w].rend
           events == IF to = "complete" THEN {"complete"} ELSE {}
<1>6. rec \in StoredRecord /\ rec # Absent
  <2>1. buf \in StoredRecord BY <1>1 DEF Types, Worker
  <2>2. QED BY <2>1, WrittenFacts
<1>7. /\ at \in {"fetch", "probe", "preset", "master", "finish"}
      /\ at = "preset" => to = "encoding"
      /\ at = "master" => to = "uploading"
      /\ at = "finish" => to = "complete"
  BY <1>4, AfterFacts DEF Targets
<1>8. /\ record' = [record EXCEPT ![j] = rec]
      /\ worker' = [worker EXCEPT ![w].at = at, ![w].buf = Absent,
                                  ![w].rend = rend]
      /\ answered' = [answered EXCEPT ![j] = @ \cup events]
  BY <1>3, <1>4 DEF TransitionWrite, Answer
<1>9. rend \in 0..Ladder /\ (at = "preset" => rend = 1)
  BY <1>1, <1>7, ABRAssumption DEF Types, Worker
<1>10. events \subseteq {"complete"} /\ (to = "complete" <=> "complete" \in events)
  OBVIOUS
<1> HIDE DEF buf, rec, at, rend, events
<1>11. StepsTo(w, at, to, rend)
  <2>1. at \in Ats BY <1>7 DEF Ats
  <2>2. QED BY <1>1, <1>4, <1>8, <1>9, <2>1, IdleFacts DEF Types, Worker, StepsTo
<1>12. /\ record' \in [Jobs -> StoredRecord]
       /\ \A i \in Jobs : record'[i] # Absent <=> record[i] # Absent
  BY <1>1, <1>2, <1>3, <1>6, <1>8 DEF Types, Known
<1>13. /\ answered' \in [Jobs -> SUBSET {"complete", "error"}]
       /\ answered'[j] = answered[j] \cup events
       /\ \A i \in Jobs \ {j} : answered'[i] = answered[i]
  BY <1>1, <1>8, <1>10 DEF Types
<1>14. Done(j, Ladder)' <=> Done(j, Ladder) BY <1>2 DEF Done
<1>15. Done(j, 0)' BY <1>2 DEF Done
<1>16. at = "preset" => rend \in 1..Ladder /\ rend - 1 = 0
  BY <1>9, ABRAssumption
<1>17. LadderFacts' /\ EndFacts' /\ Known' /\ NotForgotten'
  BY <1>2, <1>3, <1>5, <1>7, <1>10, <1>11, <1>12, <1>13, <1>14, <1>15, <1>16,
     WorkerMoves
<1>18. Types' BY <1>1, <1>2, <1>11, <1>12, <1>13 DEF Types, StepsTo
<1>19. CompleteIsWhole'
  <2> SUFFICES ASSUME NEW i \in Jobs, "complete" \in answered'[i]
               PROVE  /\ 1..Ladder \subseteq uploaded[i]
                      /\ 1..Ladder \subseteq announced[i]
                      /\ i \in Priced => applied[i] = 1..Ladder
    BY <1>2 DEF CompleteIsWhole
  <2>1. CASE "complete" \in answered[i] BY <1>1, <2>1 DEF CompleteIsWhole
  <2>2. CASE "complete" \notin answered[i]
    <3>1. i = j /\ Done(j, Ladder) BY <1>5, <1>10, <1>13, <2>2
    <3>2. applied[j] \subseteq 1..Ladder BY <1>1 DEF Types
    <3>3. QED BY <3>1, <3>2 DEF Done
  <2>3. QED BY <2>1, <2>2
<1>20. PaidInOrder' BY <1>1, <1>2 DEF PaidInOrder
<1>21. DrainersCounted'
  <2>1. worker[w].at \notin {"acquire", "encode"}
        /\ worker'[w].at \notin {"acquire", "encode"}
    BY <1>2, <1>7, <1>11 DEF StepsTo
  <2>2. QED BY <1>1, <1>2, <1>11, <2>1, DrainFacts DEF StepsTo
<1>22. QED BY <1>17, <1>18, <1>19, <1>20, <1>21 DEF IInv

(* The fields of a worker that has taken a job. *)
LEMMA WorkerTakes ==
  ASSUME NEW x \in Worker, NEW j \in Jobs
  PROVE  LET y == [x EXCEPT !.at = "begin", !.job = j]
         IN  y \in Worker /\ y.at = "begin" /\ y.job = j
<1> DEFINE y == [x EXCEPT !.at = "begin"]
<1>1. y \in Worker /\ y.at = "begin" BY DEF Worker, Ats
<1> HIDE DEF y
<1>2. LET z == [y EXCEPT !.job = j]
      IN  z \in Worker /\ z.at = "begin" /\ z.job = j
  BY <1>1 DEF Worker
<1>3. QED BY <1>2 DEF y

(* A non-empty set of positions has a first one. *)
LEMMA SmallestIndex ==
  ASSUME NEW n \in Nat, NEW P \in SUBSET (1..n), P # {}
  PROVE  \E m \in P : \A i \in P : m <= i
<1> DEFINE R == OpToRel(<, Nat)
<1>1. P \subseteq Nat /\ P # {} OBVIOUS
<1>2. IsWellFoundedOn(R, Nat) BY NatLessThanWellFounded
<1>3. \A x, y \in Nat : y < x => <<y, x>> \in R BY DEF OpToRel
<1> HIDE DEF R
<1>4. PICK m \in P : \A i \in P : ~(<<i, m>> \in R) BY <1>1, <1>2, WFMin
<1>5. \A i \in P : ~(i < m) BY <1>1, <1>3, <1>4
<1>6. QED BY <1>1, <1>5

(* The job is answered with job.error. *)
LEMMA MarkErrorWritePreserves ==
  ASSUME IInv, NEW w \in Workers, MarkErrorWrite(w)
  PROVE  IInv'
<1>1. /\ Types /\ Known /\ CompleteIsWhole /\ PaidInOrder /\ DrainersCounted
  BY DEF IInv
<1>2. /\ worker[w].at = "failWrite" /\ Goto(w, "finish")
      /\ UNCHANGED <<queue, active, caller, uploaded, applied, announced,
                     leased, drainers, stopping, faults>>
  BY DEF MarkErrorWrite
<1>3. PICK j \in Jobs : j = worker[w].job BY <1>1, <1>2 DEF Known
<1> DEFINE buf == worker[w].buf
           code == worker[w].code
           rec == [buf EXCEPT !.phase = "error", !.code = code]
<1>4. rec \in StoredRecord /\ rec # Absent
  <2>1. buf \in StoredRecord /\ code \in Codes BY <1>1 DEF Types, Worker
  <2>2. QED BY <2>1, WrittenFacts
<1>5. /\ record' = [record EXCEPT ![j] = rec]
      /\ answered' = [answered EXCEPT ![j] = @ \cup {"error"}]
  BY <1>3 DEF MarkErrorWrite, Answer
<1> HIDE DEF rec, buf, code
<1>6. StepsTo(w, "finish", worker[w].to, worker[w].rend)
  BY <1>1, <1>2, StepFacts DEF Ats
<1>7. /\ record' \in [Jobs -> StoredRecord]
      /\ \A i \in Jobs : record'[i] # Absent <=> record[i] # Absent
  BY <1>1, <1>2, <1>3, <1>4, <1>5 DEF Types, Known
<1>8. /\ answered' \in [Jobs -> SUBSET {"complete", "error"}]
      /\ answered'[j] = answered[j] \cup {"error"}
      /\ \A i \in Jobs \ {j} : answered'[i] = answered[i]
  BY <1>1, <1>5 DEF Types
<1>9. LadderFacts' /\ EndFacts' /\ Known' /\ NotForgotten'
  BY <1>2, <1>3, <1>6, <1>7, <1>8, WorkerMoves
<1>10. Types' BY <1>1, <1>2, <1>6, <1>7, <1>8 DEF Types, StepsTo
<1>11. CompleteIsWhole' BY <1>1, <1>2, <1>8 DEF CompleteIsWhole
<1>12. PaidInOrder' BY <1>1, <1>2 DEF PaidInOrder
<1>13. DrainersCounted' BY <1>1, <1>2, <1>6, DrainFacts DEF StepsTo
<1>14. QED BY <1>9, <1>10, <1>11, <1>12, <1>13 DEF IInv

(* finish forgets a job that was answered, or whose store failed. *)
LEMMA FinishPreserves ==
  ASSUME IInv, NEW w \in Workers, finish(w)
  PROVE  IInv'
<1>1. /\ Types /\ LadderFacts /\ EndFacts /\ Known /\ CompleteIsWhole
      /\ PaidInOrder /\ NotForgotten /\ DrainersCounted
  BY DEF IInv
<1>2. /\ worker[w].at = "finish"
      /\ active' = active \ {worker[w].job}
      /\ worker' = [worker EXCEPT ![w] = Idle]
      /\ UNCHANGED <<record, queue, leased, drainers, caller, uploaded, applied,
                     announced, answered, stopping, faults>>
  BY DEF finish, outside
<1>3. /\ worker' \in [Workers -> Worker] /\ worker'[w].at = "idle"
      /\ \A v \in Workers \ {w} : worker'[v] = worker[v]
  BY <1>1, <1>2, IdleFacts DEF Types
<1>4. Types' BY <1>1, <1>2, <1>3 DEF Types
<1>5. EndFacts' /\ Known' BY <1>1, <1>2, <1>3 DEF EndFacts, Known
<1>6. LadderFacts' BY <1>1, <1>2, <1>3 DEF LadderFacts, Done
<1>7. CompleteIsWhole' /\ PaidInOrder'
  BY <1>1, <1>2 DEF CompleteIsWhole, PaidInOrder
<1>8. NotForgotten'
  <2> SUFFICES ASSUME NEW j \in Planned,
                      record[j] # Absent /\ answered[j] = {} /\ faults = 0
               PROVE  \/ j \in Range(queue) \/ j \in active'
                      \/ \E c \in Callers : caller[c].at = "queue"
                                            /\ caller[c].job = j
    BY <1>2 DEF NotForgotten
  <2>1. j # worker[w].job BY <1>1, <1>2 DEF EndFacts
  <2>2. QED BY <1>1, <1>2, <2>1 DEF NotForgotten
<1>9. DrainersCounted' BY <1>1, <1>2, <1>3, DrainFacts
<1>10. QED BY <1>4, <1>5, <1>6, <1>7, <1>8, <1>9 DEF IInv

(* pop drops only ids that are being run. *)
LEMMA PopPreserves ==
  ASSUME IInv, NEW w \in Workers, Pop(w)
  PROVE  IInv'
<1>1. /\ Types /\ LadderFacts /\ EndFacts /\ Known /\ CompleteIsWhole
      /\ PaidInOrder /\ NotForgotten /\ DrainersCounted
  BY DEF IInv
<1>2. /\ worker[w].at = "idle"
      /\ UNCHANGED <<record, leased, drainers, caller, uploaded, applied,
                     announced, answered, stopping, faults>>
  BY DEF Pop, outside
<1>3. CompleteIsWhole' /\ PaidInOrder'
  BY <1>1, <1>2 DEF CompleteIsWhole, PaidInOrder
<1>a. queue \in Seq(Jobs) /\ Len(queue) \in Nat /\ DOMAIN queue = 1..Len(queue)
  BY <1>1, LenProperties DEF Types
<1>4. CASE Popped(queue) = {} /\ queue' = <<>> /\ UNCHANGED <<active, worker>>
  <2>1. queue' \in Seq(Jobs) BY <1>4, EmptySeq
  <2>2. Types' BY <1>1, <1>2, <1>4, <2>1 DEF Types
  <2>3. LadderFacts' /\ EndFacts' BY <1>1, <1>2, <1>4 DEF LadderFacts, EndFacts, Done
  <2>4. Known' BY <1>1, <1>2, <1>4 DEF Known
  <2>5. NotForgotten'
    <3>1. \A j \in Range(queue) : j \in active
      <4> SUFFICES ASSUME NEW k \in 1..Len(queue), queue[k] \notin active
                   PROVE  FALSE
        BY <1>a DEF Range
      <4> DEFINE P == {i \in 1..Len(queue) : queue[i] \notin active}
      <4>1. \E m \in P : \A i \in P : m <= i
        BY <1>a, SmallestIndex
      <4>2. PICK m \in P : \A i \in P : m <= i BY <4>1
      <4>3. m \in Popped(queue) BY <1>a, <4>2 DEF Popped
      <4>4. QED BY <1>4, <4>3
    <3>2. QED BY <1>1, <1>2, <1>4, <3>1 DEF NotForgotten
  <2>6. DrainersCounted' BY <1>1, <1>2, <1>4 DEF DrainersCounted, Draining
  <2>7. QED BY <1>3, <2>2, <2>3, <2>4, <2>5, <2>6 DEF IInv
<1>5. ASSUME NEW k \in Popped(queue),
             queue' = SubSeq(queue, k + 1, Len(queue)),
             active' = active \cup {queue[k]},
             worker' = [worker EXCEPT
               ![w] = [Idle EXCEPT !.at = "begin", !.job = queue[k]]]
      PROVE  IInv'
  <2> DEFINE j == queue[k]
             r == [Idle EXCEPT !.at = "begin", !.job = j]
  <2>1. k \in 1..Len(queue) /\ j \in Jobs
        /\ \A i \in 1..(k - 1) : queue[i] \in active
    BY <1>a, ElementOfSeq DEF Popped
  <2>2. r \in Worker /\ r.at = "begin" /\ r.job = j
    BY <2>1, IdleFacts, WorkerTakes
  <2> HIDE DEF r
  <2>3. /\ worker' \in [Workers -> Worker] /\ worker'[w] = r
        /\ \A v \in Workers \ {w} : worker'[v] = worker[v]
    BY <1>1, <1>5, <2>2 DEF Types, r
  <2>4. /\ queue' \in Seq(Jobs) /\ Len(queue') = Len(queue) - k
        /\ \A i \in 1..Len(queue') : queue'[i] = queue[k + i]
    BY <1>5, <1>a, <2>1, SubSeqProperties
  <2>5. Types' BY <1>1, <1>2, <1>5, <2>1, <2>3, <2>4 DEF Types
  <2>6. LadderFacts' BY <1>1, <1>2, <2>2, <2>3 DEF LadderFacts, Done
  <2>7. EndFacts' BY <1>1, <1>2, <2>2, <2>3 DEF EndFacts
  <2>8. Known'
    <3>1. \A i \in 1..Len(queue') : record[queue'[i]] # Absent
      <4>1. \A i \in 1..Len(queue') : k + i \in 1..Len(queue)
        BY <1>a, <2>1, <2>4
      <4>2. \A i \in 1..Len(queue) : record[queue[i]] # Absent
        BY <1>1 DEF Known
      <4>3. QED BY <2>4, <4>1, <4>2
    <3>2. QED BY <1>1, <1>2, <2>1, <2>2, <2>3, <3>1 DEF Known
  <2>9. NotForgotten'
    <3>1. \A i \in Range(queue) : i \in Range(queue') \/ i \in active'
      <4> SUFFICES ASSUME NEW m \in 1..Len(queue)
                   PROVE  queue[m] \in Range(queue') \/ queue[m] \in active'
        BY <1>a DEF Range
      <4>1. CASE m < k BY <1>5, <1>a, <2>1, <4>1
      <4>2. CASE m = k BY <1>5, <4>2
      <4>3. CASE m > k
        <5>1. m - k \in 1..Len(queue') /\ queue'[m - k] = queue[m]
          BY <1>a, <2>1, <2>4, <4>3
        <5>2. DOMAIN queue' = 1..Len(queue') BY <2>4, LenProperties
        <5>3. QED BY <5>1, <5>2 DEF Range
      <4>4. QED BY <1>a, <2>1, <4>1, <4>2, <4>3
    <3>2. QED BY <1>1, <1>2, <1>5, <3>1 DEF NotForgotten
  <2>10. DrainersCounted' BY <1>1, <1>2, <2>2, <2>3, DrainFacts
  <2>11. QED BY <1>3, <2>5, <2>6, <2>7, <2>8, <2>9, <2>10 DEF IInv
<1>6. QED BY <1>4, <1>5 DEF Pop

(* Steps of the callers leave the workers and their facts alone. *)
LEMMA CallerUntouched ==
  ASSUME IInv, \A j \in Jobs : record[j] # Absent => record'[j] # Absent,
         UNCHANGED <<worker, drainers, uploaded, applied, announced, answered,
                     faults>>
  PROVE  /\ LadderFacts' /\ EndFacts' /\ CompleteIsWhole' /\ PaidInOrder'
         /\ DrainersCounted'
         /\ \A w \in Workers : worker'[w].at # "idle" =>
              worker'[w].job \in Jobs /\ record'[worker'[w].job] # Absent
<1>1. /\ Types /\ LadderFacts /\ EndFacts /\ Known /\ CompleteIsWhole
      /\ PaidInOrder /\ DrainersCounted
  BY DEF IInv
<1>2. LadderFacts' /\ EndFacts' BY <1>1 DEF LadderFacts, EndFacts, Done
<1>3. CompleteIsWhole' /\ PaidInOrder'
  BY <1>1 DEF CompleteIsWhole, PaidInOrder
<1>4. DrainersCounted' BY <1>1 DEF DrainersCounted, Draining
<1>5. QED BY <1>1, <1>2, <1>3, <1>4 DEF Known

(* Submit saves the record, and is from then on about to queue the id. *)
LEMMA SubmitSavePreserves ==
  ASSUME IInv, NEW c \in Callers, NEW j \in Jobs, SubmitSave(c, j)
  PROVE  IInv'
<1>1. Types /\ Known /\ NotForgotten BY DEF IInv
<1> DEFINE rec == [Absent EXCEPT !.phase = "queued"]
<1>2. rec \in StoredRecord /\ rec # Absent
  <2> SUFFICES ASSUME NEW x \in StoredRecord, x.phase = "none"
               PROVE  LET y == [x EXCEPT !.phase = "queued"]
                      IN  y \in StoredRecord /\ y # x
    BY IdleFacts
  <2>1. QED BY DEF StoredRecord, Phases
<1>3. /\ caller[c].at = "new"
      /\ record' = [record EXCEPT ![j] = rec]
      /\ caller' = [caller EXCEPT ![c].at = "queue", ![c].job = j]
      /\ UNCHANGED <<queue, active, worker, leased, drainers, uploaded, applied,
                     announced, answered, stopping, faults>>
  BY DEF SubmitSave, outside
<1> HIDE DEF rec
<1>4. /\ record' \in [Jobs -> StoredRecord] /\ record'[j] # Absent
      /\ \A i \in Jobs : record[i] # Absent => record'[i] # Absent
      /\ \A i \in Jobs \ {j} : record'[i] = record[i]
  BY <1>1, <1>2, <1>3 DEF Types
<1>5. /\ caller' \in [Callers -> Caller]
      /\ caller'[c].at = "queue" /\ caller'[c].job = j
      /\ \A d \in Callers \ {c} : caller'[d] = caller[d]
  BY <1>1, <1>3 DEF Types, Caller
<1>6. Types' BY <1>1, <1>3, <1>4, <1>5 DEF Types
<1>7. Known'
  <2>1. \A k \in 1..Len(queue) : queue[k] \in Jobs
    BY <1>1, ElementOfSeq DEF Types
  <2>2. \A k \in 1..Len(queue) : record'[queue[k]] # Absent
    BY <1>1, <1>4, <2>1 DEF Known
  <2>3. QED BY <1>1, <1>3, <1>4, <1>5, <2>2, CallerUntouched DEF Known
<1>8. NotForgotten'
  <2> SUFFICES ASSUME NEW i \in Planned,
                      record'[i] # Absent /\ answered[i] = {} /\ faults = 0
               PROVE  \/ i \in Range(queue) \/ i \in active
                      \/ \E d \in Callers : caller'[d].at = "queue"
                                            /\ caller'[d].job = i
    BY <1>3 DEF NotForgotten
  <2>1. CASE i = j BY <1>5, <2>1
  <2>2. CASE i # j
    <3>1. i \in Jobs /\ record[i] # Absent BY <1>4, <2>2, ABRAssumption
    <3>2. \/ i \in Range(queue) \/ i \in active
          \/ \E d \in Callers : caller[d].at = "queue" /\ caller[d].job = i
      BY <1>1, <3>1 DEF NotForgotten
    <3>3. QED BY <1>3, <1>5, <3>2
  <2>3. QED BY <2>1, <2>2
<1>9. QED BY <1>3, <1>4, <1>6, <1>7, <1>8, CallerUntouched DEF IInv

(* The id goes into the queue. *)
LEMMA SubmitQueuePreserves ==
  ASSUME IInv, NEW c \in Callers, SubmitQueue(c)
  PROVE  IInv'
<1>1. Types /\ Known /\ NotForgotten BY DEF IInv
<1>2. /\ caller[c].at = "queue"
      /\ queue' = Append(queue, caller[c].job)
      /\ caller' = [caller EXCEPT ![c].at = "planRead"]
      /\ UNCHANGED <<record, active, worker, leased, drainers, uploaded, applied,
                     announced, answered, stopping, faults>>
  BY DEF SubmitQueue, outside
<1>3. PICK j \in Jobs : j = caller[c].job BY <1>1, <1>2 DEF Known
<1>4. record[j] # Absent BY <1>1, <1>2, <1>3 DEF Known
<1>5. /\ queue' \in Seq(Jobs) /\ Len(queue) \in Nat
      /\ Len(queue') = Len(queue) + 1 /\ queue'[Len(queue) + 1] = j
      /\ \A k \in 1..Len(queue) : queue'[k] = queue[k]
      /\ DOMAIN queue = 1..Len(queue) /\ DOMAIN queue' = 1..Len(queue')
  BY <1>1, <1>2, <1>3, AppendProperties, LenProperties DEF Types
<1>6. /\ caller' \in [Callers -> Caller]
      /\ caller'[c].at = "planRead" /\ caller'[c].job = j
      /\ \A d \in Callers \ {c} : caller'[d] = caller[d]
  BY <1>1, <1>2, <1>3 DEF Types, Caller
<1>7. Types' BY <1>1, <1>2, <1>5, <1>6 DEF Types
<1>8. Known'
  <2>1. \A k \in 1..Len(queue') : record[queue'[k]] # Absent
    BY <1>1, <1>4, <1>5 DEF Known
  <2>2. QED BY <1>1, <1>2, <1>4, <1>6, <2>1, CallerUntouched DEF Known
<1>9. NotForgotten'
  <2>1. j \in Range(queue') /\ \A i \in Range(queue) : i \in Range(queue')
    <3>1. j \in Range(queue') BY <1>5 DEF Range
    <3>2. ASSUME NEW k \in 1..Len(queue) PROVE queue[k] \in Range(queue')
      BY <1>5 DEF Range
    <3>3. QED BY <1>5, <3>1, <3>2 DEF Range
  <2> SUFFICES ASSUME NEW i \in Planned,
                      record[i] # Absent /\ answered[i] = {} /\ faults = 0
               PROVE  \/ i \in Range(queue') \/ i \in active
                      \/ \E d \in Callers : caller'[d].at = "queue"
                                            /\ caller'[d].job = i
    BY <1>2 DEF NotForgotten
  <2>2. \/ i \in Range(queue) \/ i \in active
        \/ \E d \in Callers : caller[d].at = "queue" /\ caller[d].job = i
    BY <1>1 DEF NotForgotten
  <2>3. QED BY <1>3, <1>6, <2>1, <2>2
<1>10. QED BY <1>2, <1>7, <1>8, <1>9, CallerUntouched DEF IInv

(* The plan line is added to a record that exists and keeps existing. *)
LEMMA PlanPreserves ==
  ASSUME IInv, NEW c \in Callers, PlanRead(c) \/ PlanWrite(c)
  PROVE  IInv'
<1>1. Types /\ Known /\ NotForgotten BY DEF IInv
<1>2. /\ caller[c].at \in {"planRead", "planWrite"}
      /\ UNCHANGED <<queue, active, worker, leased, drainers, uploaded, applied,
                     announced, answered, stopping, faults>>
  BY DEF PlanRead, PlanWrite, outside
<1>3. PICK j \in Jobs : j = caller[c].job BY <1>1, <1>2 DEF Known
<1>4. record[j] # Absent BY <1>1, <1>2, <1>3 DEF Known
<1>5. /\ caller' \in [Callers -> Caller]
      /\ caller'[c].at \in {"planWrite", "returned"} /\ caller'[c].job = j
      /\ \A d \in Callers \ {c} : caller'[d] = caller[d]
  <2>1. CASE PlanRead(c)
    <3> DEFINE rec == record[caller[c].job]
    <3>1. rec \in StoredRecord BY <1>1, <1>3 DEF Types
    <3>2. caller' = [caller EXCEPT ![c].at = "planWrite", ![c].buf = rec]
      BY <2>1 DEF PlanRead
    <3> HIDE DEF rec
    <3>3. QED BY <1>1, <1>3, <3>1, <3>2 DEF Types, Caller
  <2>2. CASE PlanWrite(c)
    <3>1. caller' = [caller EXCEPT ![c].at = "returned", ![c].buf = Absent]
      BY <2>2 DEF PlanWrite
    <3>2. QED BY ZenonT(60), <1>1, <1>3, <3>1, IdleFacts DEF Types, Caller
  <2>3. QED BY <2>1, <2>2
<1>6. /\ record' \in [Jobs -> StoredRecord]
      /\ \A i \in Jobs : record'[i] # Absent <=> record[i] # Absent
  <2>1. CASE PlanRead(c) BY <1>1, <2>1 DEF PlanRead, Types
  <2>2. CASE PlanWrite(c)
    <3> DEFINE buf == caller[c].buf
               rec == [buf EXCEPT !.plan = TRUE]
    <3>1. buf \in StoredRecord BY <1>1 DEF Types, Caller
    <3>2. rec \in StoredRecord /\ rec # Absent BY <3>1, WrittenFacts
    <3>3. record' = [record EXCEPT ![j] = rec] BY <1>3, <2>2 DEF PlanWrite
    <3> HIDE DEF rec, buf
    <3>4. QED BY <1>1, <1>4, <3>2, <3>3 DEF Types
  <2>3. QED BY <2>1, <2>2
<1>7. Types' BY <1>1, <1>2, <1>5, <1>6 DEF Types
<1>8. Known'
  <2>1. \A k \in 1..Len(queue) : queue[k] \in Jobs
    BY <1>1, ElementOfSeq DEF Types
  <2>2. \A k \in 1..Len(queue) : record'[queue[k]] # Absent
    BY <1>1, <1>6, <2>1 DEF Known
  <2>3. QED BY <1>1, <1>2, <1>4, <1>5, <1>6, <2>2, CallerUntouched DEF Known
<1>9. NotForgotten'
  <2> SUFFICES ASSUME NEW i \in Planned,
                      record'[i] # Absent /\ answered[i] = {} /\ faults = 0
               PROVE  \/ i \in Range(queue) \/ i \in active
                      \/ \E d \in Callers : caller'[d].at = "queue"
                                            /\ caller'[d].job = i
    BY <1>2 DEF NotForgotten
  <2>1. record[i] # Absent BY <1>6, ABRAssumption
  <2>2. \/ i \in Range(queue) \/ i \in active
        \/ \E d \in Callers : caller[d].at = "queue" /\ caller[d].job = i
    BY <1>1, <2>1 DEF NotForgotten
  <2>3. QED BY <1>2, <1>5, <2>2
<1>10. QED BY <1>2, <1>6, <1>7, <1>8, <1>9, CallerUntouched DEF IInv

(* The initial states satisfy the invariant. *)
LEMMA InitIInv == Init => IInv
<1> SUFFICES ASSUME Init PROVE IInv OBVIOUS
<1>1. queue \in Seq(Jobs) /\ Len(queue) = 0 BY EmptySeq DEF Init
<1>2. \A w \in Workers : worker[w].at = "idle" BY IdleFacts DEF Init
<1>3. \A c \in Callers : caller[c].at = "new" BY DEF Init
<1>4. Types
  <2>1. caller \in [Callers -> Caller] BY IdleFacts DEF Init, Caller
  <2>2. faults \in 0..MaxFaults BY ABRAssumption DEF Init
  <2>3. QED BY <1>1, <2>1, <2>2, IdleFacts DEF Init, Types
<1>5. LadderFacts /\ EndFacts BY <1>2 DEF LadderFacts, EndFacts
<1>6. Known BY <1>1, <1>2, <1>3 DEF Known
<1>7. CompleteIsWhole /\ PaidInOrder
  BY ABRAssumption DEF Init, CompleteIsWhole, PaidInOrder
<1>8. NotForgotten BY ABRAssumption DEF Init, NotForgotten
<1>9. DrainersCounted
  <2>1. Draining = {} BY <1>2 DEF Draining
  <2>2. QED BY <2>1, FS_EmptySet DEF DrainersCounted, Init
<1>10. QED BY <1>4, <1>5, <1>6, <1>7, <1>8, <1>9 DEF IInv

(* Every step of the runner preserves the invariant. *)
LEMMA NextIInv == IInv /\ [Next]_vars => IInv'
<1> SUFFICES ASSUME IInv, [Next]_vars PROVE IInv' OBVIOUS
<1>1. ASSUME NEW c \in Callers, CallerStep(c) \/ \E j \in Jobs : SubmitSave(c, j)
      PROVE  IInv'
  BY <1>1, SubmitSavePreserves, SubmitQueuePreserves, PlanPreserves
  DEF CallerStep
<1>2. ASSUME NEW w \in Workers, Pop(w) \/ WorkerStep(w) \/ Fault(w)
      PROVE  IInv'
  BY <1>2, PopPreserves, FaultPreserves, PhasePreserves, ReadPreserves,
     LoopPreserves, UploadPreserves, DebitPreserves, TransitionWritePreserves,
     MarkErrorWritePreserves, FinishPreserves DEF WorkerStep
<1>3. CASE Stop \/ UNCHANGED vars
  <2>1. /\ UNCHANGED <<record, queue, active, worker, leased, drainers, caller,
                       uploaded, applied, announced, answered, faults>>
        /\ stopping' \in BOOLEAN
    BY <1>3 DEF Stop, vars, outside, IInv, Types
  <2>2. Types' BY <2>1 DEF IInv, Types
  <2>3. Known' /\ NotForgotten' BY <2>1 DEF IInv, Known, NotForgotten
  <2>4. QED BY <2>1, <2>2, <2>3, CallerUntouched DEF IInv
<1>4. QED BY <1>1, <1>2, <1>3 DEF Next

(* The inductive invariant holds in every reachable state of the runner. *)
THEOREM Inductive == Spec => []IInv
BY InitIInv, NextIInv, PTL DEF Spec

------------------------------------------------------------------------------
(* The results. *)

(* Type correctness; in particular the count of progress drainers never    *)
(* goes below zero.                                                        *)
THEOREM TypeCorrect == Spec => []TypeOK
<1>1. IInv => TypeOK
  <2> SUFFICES ASSUME IInv PROVE TypeOK OBVIOUS
  <2>1. Types /\ DrainersCounted BY DEF IInv
  <2>2. Draining \subseteq Workers BY DEF Draining
  <2>3. Cardinality(Draining) \in Nat
    BY <2>2, ABRAssumption, FS_Subset, FS_CardinalityType
  <2>4. drainers \in Nat BY <2>1, <2>3 DEF DrainersCounted
  <2>5. QED BY <2>1, <2>4 DEF TypeOK, Types, StoredRecord, Codes, Worker
<1>2. QED BY <1>1, Inductive, PTL

(* A job announced as complete is complete, for every ladder. *)
THEOREM WholeWhenComplete == Spec => []CompleteIsWhole
<1>1. IInv => CompleteIsWhole BY DEF IInv
<1>2. QED BY <1>1, Inductive, PTL

(* At most one delivered rendition of a priced job is unpaid: renditions   *)
(* are paid in order, so two unpaid ones would make the earlier one paid.  *)
THEOREM AtMostOneUnpaid == Spec => []UnpaidAtMostOne
<1>1. IInv => UnpaidAtMostOne
  <2> SUFFICES ASSUME IInv, NEW j \in Priced
               PROVE  /\ Cardinality(uploaded[j] \ applied[j]) <= 1
                      /\ \A r \in uploaded[j] : 1..(r - 1) \subseteq applied[j]
    BY DEF UnpaidAtMostOne
  <2>1. \A r \in uploaded[j] : 1..(r - 1) \subseteq applied[j]
    BY DEF IInv, PaidInOrder
  <2> DEFINE U == uploaded[j] \ applied[j]
  <2>2. uploaded[j] \subseteq 1..Ladder
    BY ABRAssumption DEF IInv, Types
  <2>3. \A r, q \in U : r = q
    BY <2>1, <2>2, ABRAssumption
  <2>4. CASE U = {} BY <2>1, <2>4, FS_EmptySet
  <2>5. CASE U # {}
    <3>1. PICK r \in U : TRUE BY <2>5
    <3>2. U = {r} BY <2>3, <3>1
    <3>3. Cardinality(U) = 1 BY <3>2, FS_Singleton
    <3>4. QED BY <2>1, <3>3
  <2>6. QED BY <2>4, <2>5
<1>2. QED BY <1>1, Inductive, PTL

(* No planned job is dropped silently. *)
THEOREM NoneForgotten == Spec => []NotForgotten
<1>1. IInv => NotForgotten BY DEF IInv
<1>2. QED BY <1>1, Inductive, PTL
=============================================================================
