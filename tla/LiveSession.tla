---------------------------- MODULE LiveSession -----------------------------
(***************************************************************************)
(* One live session of internal/service/liverunner: the goroutine          *)
(* runSession from the moment Accept launches it, with everything that     *)
(* runs beside it: the encoder, the mirror loop, the ingest connection's   *)
(* OnEnd, the operator's Stop, the HTTP top-up and the side that is paid:  *)
(* the payment daemon on the direct path ("Pattern B"), the gateway's      *)
(* shell on the legacy path.  The process may crash; the broadcaster then  *)
(* publishes to the one that replaces it.                                  *)
(*                                                                         *)
(* Encoded media is counted in half-seconds, so that ceil(delta) rounds.   *)
(* A step of the clock is one debit cadence.  Worker events posted to the  *)
(* gateway change nothing here: emitEvent logs a failure and goes on (see  *)
(* Delivery).                                                              *)
(***************************************************************************)
EXTENDS Integers, FiniteSets, Functions

CONSTANTS
  Patterns,       \* how the session may be paid: "direct", "shell"
  SinkConfigured, \* may a sink be configured, so that a mirror loop runs?
  InitialCredit,  \* units credited by the payment that opened the session
  TopupUnits,     \* units a top-up credits
  Runway,         \* RunwaySeconds: the units SufficientBalance asks for
  GraceTicks,     \* GraceSeconds, in clock steps
  TopupInterval,  \* TopupMinInterval, in clock steps
  MaxEncoded,     \* bound: half-seconds of media encoded
  MaxTopups,      \* bound: top-up requests, per way of paying
  MaxSeq,         \* bound: ticks of a session on the legacy path
  MaxRestarts,    \* bound: crashes and new publishes, likewise
  MaxFaults       \* bound: payment calls and encoders that fail by themselves

ASSUME SessionAssumption ==
  /\ Patterns \subseteq {"direct", "shell"}
  /\ SinkConfigured \subseteq BOOLEAN
  /\ {InitialCredit, TopupUnits, Runway, TopupInterval, MaxEncoded, MaxSeq,
      MaxFaults} \subseteq Nat
  /\ {MaxTopups, MaxRestarts} \subseteq [Patterns -> Nat]
  /\ GraceTicks \in Nat \ {0}

VARIABLES
  \* the session goroutine
  pc, closeReason,
  snap,         \* the encoder's reading the goroutine is working with
  lastDebited, seq,
  low,          \* inLowBalance
  grace,        \* graceDeadline: 0 = zero time, k = set k - 1 clock steps ago
  settled,      \* ghost: nothing was owed at the end, or the last debit worked
  \* shared with it
  reason,       \* streamCtl.reason
  cancelled,    \* is the session's context done?
  listed,       \* is the session in Runner.streams, its GPU lease held?
  record,       \* the stream's record in the store
  \* around it
  encoded, encoder, mirror,
  ticker,       \* does the ticker's channel hold a tick?
  pipe,         \* is the pipe from the connection to the encoder open?
  hung,         \* how the connection ended: OnEnd's argument
  notified,     \* has OnEnd run?
  stopped,      \* has the operator called Stop?
  topup,        \* the HTTP top-up in flight
  credit, ledger, open,     \* the payment daemon's side of the session
  pattern,      \* streamCtl.usePatternB: "direct" or "shell"
  asked,        \* LastTopupAt on the legacy path: 0 = never, k as for grace
  lost,         \* ghost: a debit was applied but reported as failed
  sinceOK,      \* ghost: clock steps since the balance was last sufficient
  topups, restarts, faults  \* counters for the bounds

session == <<pc, closeReason, snap, lastDebited, seq, low, grace, settled>>
control == <<reason, cancelled, listed>>
media == <<encoded, encoder, mirror>>
ingest == <<pipe, hung, notified>>
daemon == <<credit, ledger, open, lost>>
requests == <<stopped, topup, topups>>
path == <<pattern, asked, restarts>>
vars == <<session, control, record, media, ticker, ingest, daemon, path,
          requests, sinceOK, faults>>

------------------------------------------------------------------------------
Reasons == {"graceful", "admin_stop", "insufficient_balance",
            "payment_path_failed", "session_worker_failed"}

Phases == {"streaming", "low_balance", "payment_unreachable", "closed",
           "encoder_failed", "balance_exhausted"}

IsTerminal(phase) == phase \in {"closed", "encoder_failed", "balance_exhausted"}

terminationReasonPriority(r) ==
  CASE r = "graceful" -> 1
    [] r = "admin_stop" -> 2
    [] r = "insufficient_balance" -> 3
    [] r = "payment_path_failed" -> 4
    [] r = "session_worker_failed" -> 5

(* What streamCtl.reason becomes. *)
setReason(r) ==
  IF terminationReasonPriority(r) >= terminationReasonPriority(reason)
  THEN r ELSE reason

(* ceil, from half-seconds to the whole seconds that are debited. *)
Ceil(halves) == (halves + 1) \div 2

(* select: the loop's select.  debit, balance: the two payment calls of a  *)
(* tick; tick, ask: its two calls to the shell on the legacy path.  final: *)
(* the label end.  finalDebit, close: the closing calls.                   *)
(* persist: the terminal record.  mirror: mirrorWG.Wait.  cleanup: the     *)
(* deferred function.                                                      *)
InLoop == pc \in {"select", "debit", "balance", "tick", "ask"}
Places == {"select", "debit", "balance", "tick", "ask", "final", "finalDebit", "close",
           "persist", "mirror", "cleanup", "done"}

StreamRecord == [phase : Phases, seq : Nat]
NoTopup == [at |-> "idle", buf |-> [phase |-> "streaming", seq |-> 0]]

(* The state in which Accept starts runSession. *)
Init ==
  /\ pc = "select"
  /\ closeReason = "graceful"
  /\ snap = 0 /\ lastDebited = 0 /\ seq = 0
  /\ low = FALSE /\ grace = 0 /\ settled = FALSE
  /\ reason = "graceful" /\ cancelled = FALSE /\ listed = TRUE
  /\ record = [phase |-> "streaming", seq |-> 0]
  /\ encoded = 0 /\ encoder = "running"
  /\ \E sink \in SinkConfigured :
       mirror = IF sink THEN "running" ELSE "none"
  /\ ticker = FALSE
  /\ pipe = "open" /\ hung = "no" /\ notified = FALSE
  /\ stopped = FALSE /\ topup = NoTopup
  /\ credit = InitialCredit /\ ledger = << >> /\ open = TRUE /\ lost = FALSE
  /\ pattern \in Patterns /\ asked = 0
  /\ sinceOK = 0
  /\ topups = 0 /\ restarts = 0 /\ faults = 0

------------------------------------------------------------------------------
(* The side that is paid, external to this code: the payment daemon, and   *)
(* on the legacy path the shell.                                           *)

(* A debit is applied unless its sequence number was seen before.  The     *)
(* daemon is told units; the ledger keeps the half-seconds they stand for. *)
Applied(from, to) ==
  [n \in DOMAIN ledger \cup {seq} |->
     IF n \in DOMAIN ledger THEN ledger[n]
     ELSE [from |-> from, to |-> to, life |-> restarts]]

Billed == FoldFunction(LAMBDA d, sum : sum + Ceil(d.to - d.from), 0, ledger)

SufficientBalance == credit - Billed >= Runway

(* A call may fail by itself, and on a cancelled context it may fail too.  *)
CallFails ==
  \/ cancelled /\ UNCHANGED faults
  \/ faults < MaxFaults /\ faults' = faults + 1

(* A failed debit may have been applied, its answer lost. *)
DebitLost(from, to) ==
  \/ UNCHANGED <<ledger, lost>>
  \/ ledger' = Applied(from, to) /\ lost' = TRUE

------------------------------------------------------------------------------
(* The session goroutine: the loop. *)

EndWith(r) == pc' = "final" /\ closeReason' = r

SelectDone ==
  /\ pc = "select" /\ cancelled
  /\ EndWith(reason)
  /\ UNCHANGED <<snap, lastDebited, seq, low, grace, settled, control, record,
                 media, ticker, ingest, daemon, path, requests, sinceOK, faults>>

(* encErr is read: a clean exit ends with the reason already noted. *)
SelectEncoder ==
  /\ pc = "select"
  /\ \/ encoder = "clean" /\ EndWith(reason) /\ UNCHANGED reason
     \/ /\ encoder = "failed"
        /\ EndWith("session_worker_failed")
        /\ reason' = setReason("session_worker_failed")
  /\ UNCHANGED <<snap, lastDebited, seq, low, grace, settled, cancelled, listed,
                 record, media, ticker, ingest, daemon, path, requests, sinceOK,
                 faults>>

(* persistStreamUpdate, then the loop ends: the payment path is lost. *)
PaymentLost ==
  /\ record' = [record EXCEPT !.phase = "payment_unreachable"]
  /\ EndWith("payment_path_failed")

(* tickAndDecide up to the debit.  Without a whole new reading it returns  *)
(* at once.  On a context that is already done the debit fails unsent.     *)
Tick ==
  /\ pc = "select" /\ ticker /\ pattern = "direct"
  /\ ticker' = FALSE
  /\ snap' = encoded
  /\ IF encoded = lastDebited
     THEN UNCHANGED <<pc, closeReason, seq, record>>
     ELSE /\ seq' = seq + 1
          /\ IF cancelled
             THEN /\ record' = [phase |-> "payment_unreachable",
                                seq |-> record.seq + 1]
                  /\ EndWith("payment_path_failed")
             ELSE /\ record' = [record EXCEPT !.seq = @ + 1]
                  /\ pc' = "debit"
                  /\ UNCHANGED closeReason
  /\ UNCHANGED <<lastDebited, low, grace, settled, control, media, ingest,
                 daemon, path, requests, sinceOK, faults>>

(* Mutant of Debit: the reading counts as debited before the call returns. *)
DebitAssumed ==
  /\ pc = "debit"
  /\ lastDebited' = snap
  /\ \/ /\ ledger' = Applied(lastDebited, snap)
        /\ pc' = "balance"
        /\ UNCHANGED <<closeReason, record, lost, faults>>
     \/ CallFails /\ DebitLost(lastDebited, snap) /\ PaymentLost
  /\ UNCHANGED <<snap, seq, low, grace, settled, control, media, ticker, ingest,
                 credit, open, path, requests, sinceOK>>

(* Mutant of Debit: what was debited is not remembered. *)
DebitForgets ==
  /\ pc = "debit"
  /\ ledger' = Applied(lastDebited, snap)
  /\ pc' = "balance"
  /\ UNCHANGED <<closeReason, record, lost, faults, lastDebited, snap, seq, low,
                 grace, settled, control, media, ticker, ingest, credit, open,
                 path, requests, sinceOK>>

(* DebitBalance. *)
Debit ==
  /\ pc = "debit"
  /\ \/ /\ ledger' = Applied(lastDebited, snap)
        /\ lastDebited' = snap
        /\ pc' = "balance"
        /\ UNCHANGED <<closeReason, record, lost, faults>>
     \/ /\ CallFails /\ DebitLost(lastDebited, snap) /\ PaymentLost
        /\ UNCHANGED lastDebited
  /\ UNCHANGED <<snap, seq, low, grace, settled, control, media, ticker, ingest,
                 credit, open, path, requests, sinceOK>>

(* SufficientBalance answers no: the first time starts the grace period.   *)
(* A deadline exactly GraceTicks old may or may not have passed.           *)
BalanceLow ==
  LET since == IF grace = 0 THEN 1 ELSE grace
      elapsed == since - 1
  IN
  /\ pc = "balance" /\ ~SufficientBalance
  /\ low' = TRUE
  /\ grace' = since
  /\ record' = IF low THEN record ELSE [record EXCEPT !.phase = "low_balance"]
  /\ \/ elapsed <= GraceTicks /\ pc' = "select" /\ UNCHANGED closeReason
     \/ elapsed >= GraceTicks /\ EndWith("insufficient_balance")
  /\ UNCHANGED <<snap, lastDebited, seq, settled, control, media, ticker, ingest,
                 daemon, path, requests, sinceOK, faults>>

(* Mutant of BalanceOK: a refill leaves the old deadline in place. *)
BalanceOKKeepsDeadline ==
  /\ pc = "balance" /\ SufficientBalance
  /\ low' = FALSE
  /\ record' = IF low THEN [record EXCEPT !.phase = "streaming"] ELSE record
  /\ pc' = "select"
  /\ sinceOK' = 0
  /\ UNCHANGED <<snap, lastDebited, seq, grace, closeReason, settled, control,
                 media, ticker, ingest, daemon, path, requests, faults>>

(* SufficientBalance answers yes: any grace period is over. *)
BalanceOK ==
  /\ pc = "balance" /\ SufficientBalance
  /\ low' = FALSE
  /\ grace' = 0
  /\ record' = IF low THEN [record EXCEPT !.phase = "streaming"] ELSE record
  /\ pc' = "select"
  /\ sinceOK' = 0
  /\ UNCHANGED <<snap, lastDebited, seq, closeReason, settled, control, media,
                 ticker, ingest, daemon, path, requests, faults>>

BalanceFails ==
  /\ pc = "balance"
  /\ CallFails
  /\ PaymentLost
  /\ UNCHANGED <<snap, lastDebited, seq, low, grace, settled, control, media,
                 ticker, ingest, daemon, path, requests, sinceOK>>

------------------------------------------------------------------------------
(* The session goroutine: a tick on the legacy path.                       *)

(* Every tick is reported and has a number, with or without new media.     *)
ShellTick ==
  /\ pc = "select" /\ ticker /\ pattern = "shell"
  /\ ticker' = FALSE
  /\ snap' = encoded
  /\ seq' = seq + 1
  /\ record' = [record EXCEPT !.seq = @ + 1]
  /\ pc' = "tick"
  /\ UNCHANGED <<closeReason, lastDebited, low, grace, settled, control, media,
                 ingest, daemon, path, requests, sinceOK, faults>>

(* SessionTick fails: the next tick reports the same media again. *)
SessionTickFails ==
  /\ pc = "tick"
  /\ CallFails /\ DebitLost(lastDebited, snap)
  /\ pc' = "select"
  /\ UNCHANGED <<closeReason, snap, lastDebited, seq, low, grace, settled,
                 control, record, media, ticker, ingest, credit, open, path,
                 requests, sinceOK>>

(* What the shell may answer: whether it has triggered the grace period,   *)
(* and whether it reports more runway than RunwaySeconds.  Nothing in this *)
(* code ties the two together.                                             *)
SessionTickResult == [triggered : BOOLEAN, ample : BOOLEAN]

(* A deadline is set on the first trigger and dropped only by an answer    *)
(* without one that has ample runway; a top-up is considered otherwise.    *)
SessionTick ==
  /\ pc = "tick"
  /\ ledger' = Applied(lastDebited, snap)
  /\ lastDebited' = snap
  /\ \E res \in SessionTickResult :
       LET over == ~res.triggered /\ res.ample
           since == IF res.triggered /\ grace = 0 THEN 1 ELSE grace
           elapsed == since - 1
       IN
       /\ grace' = IF over THEN 0 ELSE since
       /\ sinceOK' = IF over THEN 0 ELSE sinceOK
       /\ \/ /\ res.triggered => elapsed <= GraceTicks
             /\ pc' = IF res.ample THEN "select" ELSE "ask"
             /\ UNCHANGED closeReason
          \/ /\ res.triggered /\ elapsed >= GraceTicks
             /\ EndWith("insufficient_balance")
  /\ UNCHANGED <<snap, seq, low, settled, control, record, media, ticker, ingest,
                 credit, open, lost, path, requests, faults>>

(* The shell is asked to top up, unless it was a short while ago.  A       *)
(* request that fails is not counted; one that is declined is.             *)
ShellTopup ==
  /\ pc = "ask"
  /\ pc' = "select"
  /\ \/ asked # 0 /\ asked - 1 <= TopupInterval /\ UNCHANGED <<asked, faults>>
     \/ /\ asked = 0 \/ asked - 1 >= TopupInterval
        /\ \/ asked' = 1 /\ UNCHANGED faults
           \/ CallFails /\ UNCHANGED asked
  /\ UNCHANGED <<closeReason, snap, lastDebited, seq, low, grace, settled,
                 control, record, media, ticker, ingest, daemon, pattern,
                 restarts, requests, sinceOK>>

------------------------------------------------------------------------------
(* The session goroutine: from the label end to close(done).               *)

(* On the legacy path the last number is not noted in the record here.     *)
(* What only the loop used is not read again, and is reset.                *)
FinalRead ==
  /\ pc = "final"
  /\ snap' = encoded
  /\ IF encoded = lastDebited
     THEN pc' = "close" /\ settled' = TRUE /\ UNCHANGED <<seq, record>>
     ELSE /\ pc' = "finalDebit"
          /\ seq' = seq + 1
          /\ record' = IF pattern = "direct"
                       THEN [record EXCEPT !.seq = @ + 1] ELSE record
          /\ UNCHANGED settled
  /\ low' = FALSE /\ grace' = 0 /\ ticker' = FALSE /\ asked' = 0 /\ sinceOK' = 0
  /\ UNCHANGED <<closeReason, lastDebited, control, media, ingest, daemon,
                 pattern, restarts, requests, faults>>

(* The final debit, or tick, runs on a context of its own with a deadline. *)
FinalDebit ==
  /\ pc = "finalDebit"
  /\ pc' = "close"
  /\ \/ /\ ledger' = Applied(lastDebited, snap)
        /\ settled' = TRUE
        /\ UNCHANGED <<lost, faults>>
     \/ /\ faults < MaxFaults /\ faults' = faults + 1
        /\ DebitLost(lastDebited, snap)
        /\ UNCHANGED settled
  /\ UNCHANGED <<closeReason, snap, lastDebited, seq, low, grace, control,
                 record, media, ticker, ingest, credit, open, path, requests, sinceOK>>

(* SessionEnded tells the shell; a failure is only logged. *)
SessionEnded ==
  /\ pc = "close" /\ pattern = "shell"
  /\ pc' = "persist"
  /\ \/ open' = FALSE /\ UNCHANGED faults
     \/ faults < MaxFaults /\ faults' = faults + 1 /\ open' \in {open, FALSE}
  /\ UNCHANGED <<closeReason, snap, lastDebited, seq, low, grace, settled,
                 control, record, media, ticker, ingest, credit, ledger, lost,
                 path, requests, sinceOK>>

(* CloseSession; a failure is only logged. *)
CloseSession ==
  /\ pc = "close" /\ pattern = "direct"
  /\ pc' = "persist"
  /\ \/ open' = FALSE /\ UNCHANGED faults
     \/ faults < MaxFaults /\ faults' = faults + 1 /\ open' \in {open, FALSE}
  /\ UNCHANGED <<closeReason, snap, lastDebited, seq, low, grace, settled,
                 control, record, media, ticker, ingest, credit, ledger, lost,
                 path, requests, sinceOK>>

TerminalPhase ==
  CASE closeReason = "insufficient_balance"  -> "balance_exhausted"
    [] closeReason = "session_worker_failed" -> "encoder_failed"
    [] OTHER                                 -> "closed"

Persist ==
  /\ pc = "persist"
  /\ record' = [phase |-> TerminalPhase, seq |-> seq]
  /\ pc' = "mirror"
  /\ UNCHANGED <<closeReason, snap, lastDebited, seq, low, grace, settled,
                 control, media, ticker, ingest, daemon, path, requests, sinceOK,
                 faults>>

(* mirrorWG.Wait; the recording is announced after it. *)
MirrorWait ==
  /\ pc = "mirror"
  /\ mirror # "running"
  /\ pc' = "cleanup"
  /\ UNCHANGED <<closeReason, snap, lastDebited, seq, low, grace, settled,
                 control, record, media, ticker, ingest, daemon, path, requests,
                 sinceOK, faults>>

(* The deferred calls: the ingest session is closed, the lease released,   *)
(* the entry removed under Runner.mu (which Topup holds) and done closed.  *)
Cleanup ==
  /\ pc = "cleanup"
  /\ topup.at # "write"
  /\ pipe' = "closed"
  /\ listed' = FALSE
  /\ pc' = "done"
  /\ UNCHANGED <<closeReason, snap, lastDebited, seq, low, grace, settled,
                 reason, cancelled, record, media, ticker, hung, notified,
                 daemon, path, requests, sinceOK, faults>>

------------------------------------------------------------------------------
(* What runs beside it. *)

(* One debit cadence passes; the ticker's channel holds one tick at most.  *)
(* After the loop nobody looks at the ticker or at the time again.         *)
Clock ==
  /\ InLoop
  /\ pattern = "shell" => seq < MaxSeq
  /\ ticker' = TRUE
  /\ asked' = IF asked \in 1..(TopupInterval + 1) THEN asked + 1 ELSE asked
  /\ grace' = IF grace \in 1..(GraceTicks + 1) THEN grace + 1 ELSE grace
  /\ sinceOK' = IF sinceOK <= GraceTicks THEN sinceOK + 1 ELSE sinceOK
  /\ UNCHANGED <<pc, closeReason, snap, lastDebited, seq, low, settled, control,
                 record, media, ingest, daemon, pattern, restarts, requests, faults>>

Encode ==
  /\ encoder = "running" /\ encoded < MaxEncoded
  /\ encoded' = encoded + 1
  /\ UNCHANGED <<session, control, record, encoder, mirror, ticker, ingest,
                 daemon, path, requests, sinceOK, faults>>

(* Encoder.Start returns.  Once its input is closed or its context done it *)
(* may report either: FFmpeg ended by SIGTERM exits non-zero, and a pipe   *)
(* closed at both ends reads as EOF or as an error.                        *)
EncoderExits ==
  /\ encoder = "running"
  /\ \/ /\ pipe = "closed" \/ cancelled
        /\ encoder' \in {"clean", "failed"}
        /\ UNCHANGED faults
     \/ /\ faults < MaxFaults /\ faults' = faults + 1
        /\ encoder' = "failed"
  /\ UNCHANGED <<session, control, record, encoded, mirror, ticker, ingest,
                 daemon, path, requests, sinceOK>>

(* Mutant of MirrorDrains: the loop ends only once its input was closed.   *)
MirrorDrainsLate ==
  /\ mirror = "running" /\ cancelled /\ pipe = "closed"
  /\ mirror' = "drained"
  /\ UNCHANGED <<session, control, record, encoded, encoder, ticker, ingest,
                 daemon, path, requests, sinceOK, faults>>

(* Mirror.Run sees the context done, scans once more and returns. *)
MirrorDrains ==
  /\ mirror = "running" /\ cancelled
  /\ mirror' = "drained"
  /\ UNCHANGED <<session, control, record, encoded, encoder, ticker, ingest,
                 daemon, path, requests, sinceOK, faults>>

(* The ingest connection ends: its pipe is closed first, then OnEnd runs.  *)
HangUp(how) ==
  /\ hung = "no"
  /\ hung' = how
  /\ pipe' = "closed"
  /\ UNCHANGED <<session, control, record, media, ticker, notified, daemon,
                 path, requests, sinceOK, faults>>

OnEnd ==
  /\ hung # "no" /\ ~notified
  /\ notified' = TRUE
  /\ reason' = setReason(IF hung = "close" THEN "graceful"
                                           ELSE "session_worker_failed")
  /\ cancelled' = TRUE
  /\ UNCHANGED <<session, listed, record, media, ticker, pipe, hung, daemon,
                 path, requests, sinceOK, faults>>

(* Stop, and Shutdown for this session: then the caller waits for done.    *)
Stop ==
  /\ listed /\ ~stopped
  /\ topup.at # "write"
  /\ stopped' = TRUE
  /\ reason' = setReason("admin_stop")
  /\ cancelled' = TRUE
  /\ UNCHANGED <<session, listed, record, media, ticker, ingest, daemon, path,
                 topup, topups, sinceOK, faults>>

(* handleSessionTopup: the session looks active, and ProcessPayment        *)
(* credits it.                                                             *)
TopupPay ==
  /\ pattern = "direct"
  /\ topup.at = "idle" /\ topups < MaxTopups[pattern]
  /\ ~IsTerminal(record.phase)
  /\ open
  /\ topups' = topups + 1
  /\ credit' = credit + TopupUnits
  /\ topup' = [topup EXCEPT !.at = "paid"]
  /\ UNCHANGED <<session, control, record, media, ticker, ingest, ledger, open,
                 lost, path, stopped, sinceOK, faults>>

(* handleStreamTopup pays under another work id, so that nothing is        *)
(* credited here, and calls Runner.Topup whatever the session's state.     *)
StreamTopup ==
  /\ pattern = "shell"
  /\ topup.at = "idle" /\ topups < MaxTopups[pattern]
  /\ topups' = topups + 1
  /\ topup' = [topup EXCEPT !.at = "paid"]
  /\ UNCHANGED <<session, control, record, media, ticker, ingest, daemon, path,
                 stopped, sinceOK, faults>>

(* Runner.Topup: the record is read and written back to note the time of   *)
(* the top-up, under Runner.mu, which runSession's own updates do not take.*)
(* On the legacy path it also puts off the session's next request.         *)
TopupRead ==
  /\ topup.at = "paid"
  /\ topup' = IF listed THEN [at |-> "write", buf |-> record] ELSE NoTopup
  /\ asked' = IF listed /\ InLoop /\ pattern = "shell" THEN 1 ELSE asked
  /\ UNCHANGED <<session, control, record, media, ticker, ingest, daemon,
                 pattern, restarts, stopped, topups, sinceOK, faults>>

TopupWrite ==
  /\ topup.at = "write"
  /\ record' = topup.buf
  /\ topup' = NoTopup
  /\ UNCHANGED <<session, control, media, ticker, ingest, daemon, path, stopped,
                 topups, sinceOK, faults>>

(* The process crashes while the session is open, and the broadcaster      *)
(* publishes to its successor: on the legacy path, or on the direct one    *)
(* once the gateway has started the session again under the same work id.  *)
(* Accept saves a new record over the old one, and runSession reads the    *)
(* debit sequence from the new one.                                        *)
Restart ==
  /\ open /\ restarts < MaxRestarts[pattern]
  /\ restarts' = restarts + 1
  /\ pc' = "select" /\ closeReason' = "graceful"
  /\ snap' = 0 /\ lastDebited' = 0 /\ seq' = 0
  /\ low' = FALSE /\ grace' = 0 /\ settled' = FALSE
  /\ reason' = "graceful" /\ cancelled' = FALSE /\ listed' = TRUE
  /\ record' = [phase |-> "streaming", seq |-> 0]
  /\ encoded' = 0 /\ encoder' = "running"
  /\ mirror' = IF mirror = "none" THEN "none" ELSE "running"
  /\ ticker' = FALSE /\ asked' = 0 /\ sinceOK' = 0
  /\ pipe' = "open" /\ hung' = "no" /\ notified' = FALSE
  /\ stopped' = FALSE /\ topup' = NoTopup
  /\ UNCHANGED <<daemon, pattern, topups, faults>>

------------------------------------------------------------------------------
SessionStep ==
  \/ SelectDone \/ SelectEncoder \/ Tick \/ Debit
  \/ BalanceLow \/ BalanceOK \/ BalanceFails
  \/ ShellTick \/ SessionTickFails \/ SessionTick \/ ShellTopup
  \/ FinalRead \/ FinalDebit \/ CloseSession \/ SessionEnded \/ Persist \/ MirrorWait \/ Cleanup

TopupStep == TopupRead \/ TopupWrite

Next ==
  \/ SessionStep
  \/ Clock \/ Encode \/ EncoderExits \/ MirrorDrains
  \/ \E how \in {"close", "error"} : HangUp(how)
  \/ OnEnd \/ Stop \/ TopupPay \/ StreamTopup \/ TopupStep \/ Restart

Spec == Init /\ [][Next]_vars

(* Goroutines run, time passes, a request in progress is completed and a   *)
(* done context ends the mirror.  Nothing obliges a broadcaster to send or *)
(* to hang up, an operator to stop, a gateway to top up.  The select reads *)
(* one ready channel at random, so a context that stays done is read in    *)
(* the end even while ticks keep coming.                                   *)
Fairness ==
  /\ WF_vars(SessionStep) /\ SF_vars(SelectDone)
  /\ WF_vars(Clock) /\ WF_vars(MirrorDrains) /\ WF_vars(OnEnd)
  /\ WF_vars(TopupStep)

FairSpec == Spec /\ Fairness

------------------------------------------------------------------------------
(* Properties. *)

Restarts == UNION {0..MaxRestarts[p] : p \in Patterns}

(* Every variable has its type. *)
TypeOK ==
  /\ pc \in Places /\ closeReason \in Reasons /\ reason \in Reasons
  /\ snap \in 0..MaxEncoded /\ lastDebited \in 0..MaxEncoded
  /\ encoded \in 0..MaxEncoded /\ seq \in Nat
  /\ grace \in 0..(GraceTicks + 2) /\ sinceOK \in 0..(GraceTicks + 1)
  /\ {low, settled, cancelled, listed, ticker, notified, stopped, open, lost}
       \subseteq BOOLEAN
  /\ record \in StreamRecord
  /\ topup \in [at : {"idle", "paid", "write"}, buf : StreamRecord]
  /\ encoder \in {"running", "clean", "failed"}
  /\ mirror \in {"none", "running", "drained"}
  /\ pipe \in {"open", "closed"} /\ hung \in {"no", "close", "error"}
  /\ pattern \in Patterns /\ asked \in 0..(TopupInterval + 2)
  /\ restarts \in Restarts
  /\ credit \in Nat /\ topups \in 0..MaxTopups[pattern] /\ faults \in 0..MaxFaults
  /\ \A n \in DOMAIN ledger :
       /\ n \in Nat
       /\ ledger[n] \in [from : 0..MaxEncoded, to : 0..MaxEncoded,
                         life : Restarts]

(* The half-seconds of media that an applied debit stands for; a new       *)
(* process counts its media from zero.                                     *)
Charged(n) == (ledger[n].from + 1)..ledger[n].to

Disjoint ==
  \A m, n \in DOMAIN ledger :
    m # n /\ ledger[m].life = ledger[n].life => Charged(m) \cap Charged(n) = {}

(* No media is paid for twice as long as no debit was applied whose answer *)
(* got lost, on either path and whatever ticks failed.                     *)
ChargedOnce == lost \/ Disjoint

(* Once the final debit has succeeded, or nothing was owed, what has been  *)
(* paid for is every half-second up to the final reading, whatever ticks   *)
(* failed on the way.  What is encoded after that reading is not paid for. *)
(* The exception is a session whose process replaced one that had debited  *)
(* already: it uses the same sequence numbers again, and what it debits    *)
(* under them is taken for a repetition.                                   *)
EncodedIsCharged ==
  settled /\ (\A n \in DOMAIN ledger : ledger[n].life = restarts) =>
    1..snap = UNION {Charged(n) : n \in DOMAIN ledger}

(* A session is closed for lack of balance only after a whole grace period *)
(* in which the balance was never found sufficient: a refill gives the     *)
(* next shortage a period of its own.                                      *)
FullGrace ==
  pc = "final" /\ closeReason = "insufficient_balance" => sinceOK >= GraceTicks

(* Once its context is done a session runs to its end, unless the process  *)
(* crashes: Stop and Shutdown, which wait for it, return, and its GPU      *)
(* lease is released.                                                      *)
CancelEndsSession == cancelled ~> (pc = "done" \/ ~cancelled)

(* A session whose grace period has run out stops on the worker's side: it *)
(* closes the encoder's input and the payment session without anybody      *)
(* having to stop it or hang up.                                           *)
GraceExpiryCloses ==
  (pc = "final" /\ closeReason = "insufficient_balance") ~>
    (pipe = "closed" /\ ~open)

=============================================================================
