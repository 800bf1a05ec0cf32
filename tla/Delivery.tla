------------------------------ MODULE Delivery ------------------------------
(***************************************************************************)
(* One call the worker makes over HTTP: a webhook of a job with its        *)
(* retries (internal/providers/webhooks, sent by fireWebhook of the        *)
(* runners, each on a goroutine and a 30-second context of its own), an    *)
(* event of a live session with its retries (emitEvent of the live runner, *)
(* on the session's context while it streams and on a 5-second context     *)
(* once it is closing), another callback to the shell (shellclient), the   *)
(* fetch of a job's input or the upload of an output (storage).  Calls     *)
(* share no state, so one stands for all of them.                          *)
(*                                                                         *)
(* Requests are numbered by their attempt.  The network may lose a request *)
(* or an answer, and deliver a request late: when a later attempt is under *)
(* way, or the call has returned.  Time is in seconds.                     *)
(***************************************************************************)
EXTENDS Naturals, Sequences

CONSTANT Took   \* seconds a request may take, besides the longest it may

ASSUME DeliveryAssumption == Took \subseteq Nat

VARIABLES
  kind,      \* what is called: a member of Kinds
  url,       \* whether there is a URL to call
  at,        \* where the call is, or what it returned
  attempts,  \* requests made
  age,       \* seconds since the call was made or its context began
  stopped,   \* has the session's context been cancelled?
  flying,    \* requests the other side may still see
  received,  \* requests the other side has acted on
  dest       \* the file a fetch writes, the object an upload puts

deliveryVars == <<kind, url, at, attempts, age, stopped, flying, received, dest>>

------------------------------------------------------------------------------
Events == {"event", "finalEvent"}
Kinds == {"webhook", "post", "fetch", "upload"} \cup Events

Errors == {"failed", "deadline", "unauthorized", "not_found", "conflict",
           "bad_request", "unexpected"}
Returned == {"nil"} \cup Errors

Statuses == {200, 204, 400, 401, 404, 409, 500}
OK(status) == status \div 100 = 2

(* NewHTTP of the webhooks; three backoffs allow for four attempts. *)
Backoffs == <<1, 5, 25>>

workerEventPostAttempts == 3

Attempts ==
  CASE kind = "webhook" -> Len(Backoffs) + 1
    [] kind \in Events -> workerEventPostAttempts
    [] OTHER -> 1

(* The clients' timeouts. *)
Timeout ==
  CASE kind = "webhook" -> 10
    [] kind \in {"fetch", "upload"} -> 1800
    [] OTHER -> 5

(* The contexts with a deadline: fireWebhook's, and the one runSession     *)
(* makes for everything it does once it is closing.                        *)
Deadline == CASE kind = "webhook" -> 30 [] kind = "finalEvent" -> 5

Expires == kind \in {"webhook", "finalEvent"}

ContextDone(now) == stopped \/ (Expires /\ now >= Deadline)

(* How long a request may take: until the client's timeout or, if earlier, *)
(* the end of the context.                                                 *)
Longest ==
  IF Expires /\ Deadline - age < Timeout THEN Deadline - age ELSE Timeout

Durations == {t \in Took \cup {Longest} : t <= Longest}

(* The debit and the events before this one may have used up some of the   *)
(* closing session's time, or all of it.                                   *)
DeliveryInit ==
  /\ kind \in Kinds /\ url \in BOOLEAN
  /\ age \in IF kind = "finalEvent"
             THEN {t \in Took \cup {0, Deadline} : t <= Deadline} ELSE {0}
  /\ stopped = FALSE
  /\ at = "new" /\ attempts = 0
  /\ flying = {} /\ received = {} /\ dest = "none"

------------------------------------------------------------------------------
(* Send, post, Fetch or Upload is called.  Without a URL a webhook is no   *)
(* error and a transfer is one.                                            *)
Call ==
  /\ at = "new" /\ kind \notin Events \cup {"post"}
  /\ at' = CASE url -> "ready"
              [] ~url /\ kind = "webhook" -> "nil"
              [] OTHER -> "failed"
  /\ UNCHANGED <<kind, url, attempts, age, stopped, flying, received, dest>>

(* SessionActive, SessionTick, SessionEnded, RecordingFinalized and Topup: *)
(* each is one post.  New makes no shell client without a base URL.        *)
ShellCall ==
  /\ at = "new" /\ kind = "post" /\ url
  /\ at' = "ready"
  /\ UNCHANGED <<kind, url, attempts, age, stopped, flying, received, dest>>

(* emitEvent does nothing without a shell client.  It looks at its context *)
(* between attempts only, so that it always makes a first one.             *)
emitEvent ==
  /\ at = "new" /\ kind \in Events
  /\ at' = IF url THEN "ready" ELSE "nil"
  /\ UNCHANGED <<kind, url, attempts, age, stopped, flying, received, dest>>

(* PostEvent on a context that is done fails unsent, and emitEvent gives   *)
(* the event up.                                                           *)
PostUnsent ==
  /\ at = "ready" /\ kind \in Events /\ ContextDone(age)
  /\ at' = "failed"
  /\ attempts' = attempts + 1
  /\ UNCHANGED <<kind, url, age, stopped, flying, received, dest>>

Request ==
  /\ at = "ready" /\ ~ContextDone(age)
  /\ at' = "waiting"
  /\ attempts' = attempts + 1
  /\ flying' = flying \cup {attempts'}
  /\ UNCHANGED <<kind, url, age, stopped, received, dest>>

(* The connection ends or the stream is stopped. *)
CancelContext ==
  /\ kind = "event" /\ ~stopped
  /\ stopped' = TRUE
  /\ UNCHANGED <<kind, url, at, attempts, age, flying, received, dest>>

(* The other side sees a request; what is uploaded it keeps or refuses.    *)
Receive ==
  \E r \in flying :
    /\ flying' = flying \ {r}
    /\ received' = received \cup {r}
    /\ dest' \in IF kind = "upload" THEN {dest, "whole"} ELSE {dest}
    /\ UNCHANGED <<kind, url, at, attempts, age, stopped>>

Lose ==
  \E r \in flying :
    /\ flying' = flying \ {r}
    /\ UNCHANGED <<kind, url, at, attempts, age, stopped, received, dest>>

(* On to the next attempt, if one is left and, for an event, the context   *)
(* is not done when the last one has failed.                               *)
GivesUp == attempts = Attempts \/ (kind \in Events /\ ContextDone(age'))
Again == IF GivesUp THEN "failed" ELSE "asleep"

(* Send on a status. *)
Sent(status) == IF OK(status) THEN "nil" ELSE Again

(* post on a status: only 200 is success, and an answer the caller wants   *)
(* has to decode.                                                          *)
Posted(status, decodes) ==
  CASE status = 200 /\ decodes -> "nil" [] status = 200 -> "failed"
    [] status = 401 -> "unauthorized"
    [] status = 404 -> "not_found" [] status = 409 -> "conflict"
    [] status = 400 -> "bad_request" [] OTHER -> "unexpected"

(* Fetch on the error, if any, of copying the body into a new file.  A     *)
(* body without a length that is cut short at a closed connection is none. *)
Copied(err) == IF err THEN "failed" ELSE "nil"

(* The answer to the last request, which the other side must have seen.    *)
(* PostEvent wants no answer.  Fetch leaves the file as far as the body    *)
(* got.  A receiver answers 2xx to an upload it has kept.                  *)
Answer ==
  /\ at = "waiting" /\ attempts \in received
  /\ \E took \in Durations : age' = age + took
  /\ \E status \in Statuses :
       \/ /\ kind = "webhook" /\ at' = Sent(status) /\ UNCHANGED dest
       \/ /\ kind = "post" /\ UNCHANGED dest
          /\ \E decodes \in BOOLEAN : at' = Posted(status, decodes)
       \/ /\ kind \in Events /\ UNCHANGED dest
          /\ at' = IF Posted(status, TRUE) = "nil" THEN "nil" ELSE Again
       \/ /\ kind \in {"fetch", "upload"} /\ ~OK(status)
          /\ at' = "failed" /\ UNCHANGED dest
       \/ /\ kind = "upload" /\ OK(status) /\ dest = "whole"
          /\ at' = "nil" /\ UNCHANGED dest
       \/ /\ kind = "fetch" /\ OK(status)
          /\ \E err \in BOOLEAN :
               /\ dest' \in IF err THEN {"part"} ELSE {"part", "whole"}
               /\ at' = Copied(err)
  /\ UNCHANGED <<kind, url, attempts, stopped, flying, received>>

(* No answer: the connection fails, the time is up or the context done. *)
NoAnswer ==
  /\ at = "waiting"
  /\ \E took \in Durations : age' = age + took
  /\ at' = Again
  /\ UNCHANGED <<kind, url, attempts, stopped, flying, received, dest>>

(* Mutant of Pause: the backoffs are off by one, the first repeated. *)
PauseShort ==
  IF kind \in Events THEN 1
  ELSE Backoffs[IF attempts = 1 THEN 1 ELSE attempts - 1]

(* The backoff before the next attempt; for events, DebitRetryBackoff.     *)
Pause == IF kind \in Events THEN 1 ELSE Backoffs[attempts]

(* The sleep is not cut short by the context.  Send looks at it after the  *)
(* sleep, emitEvent only when the next attempt has failed.                 *)
Wake ==
  /\ at = "asleep"
  /\ age' = age + Pause
  /\ at' = IF kind = "webhook" /\ age' >= Deadline THEN "deadline" ELSE "ready"
  /\ UNCHANGED <<kind, url, attempts, stopped, flying, received, dest>>

DeliveryNext ==
  \/ Call \/ ShellCall \/ emitEvent \/ PostUnsent \/ Request \/ Answer
  \/ NoAnswer \/ Wake \/ CancelContext \/ Receive \/ Lose

DeliverySpec == DeliveryInit /\ [][DeliveryNext]_deliveryVars

------------------------------------------------------------------------------
(* Properties. *)

(* Every variable has its type. *)
DeliveryTypeOK ==
  /\ kind \in Kinds /\ url \in BOOLEAN
  /\ at \in {"new", "ready", "waiting", "asleep"} \cup Returned
  /\ attempts \in 0 .. Attempts /\ age \in Nat /\ stopped \in BOOLEAN
  /\ flying \subseteq 1 .. attempts /\ received \subseteq 1 .. attempts
  /\ dest \in {"none", "part", "whole"}

(* A receiver sees at most three copies of a webhook or an event, one of   *)
(* anything else.  The fourth attempt of Send never happens: however       *)
(* quickly the others fail, the last backoff outlasts the context of       *)
(* fireWebhook.  And no event holds up its session's payment loop for more *)
(* than three timeouts and two backoffs, 17 seconds.                       *)
CopiesBounded ==
  /\ received \cup flying \subseteq
       1 .. IF kind \in Events \cup {"webhook"} THEN 3 ELSE 1
  /\ kind \in Events => age <= 17
=============================================================================
