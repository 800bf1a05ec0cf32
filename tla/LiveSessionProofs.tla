------------------------- MODULE LiveSessionProofs --------------------------
(***************************************************************************)
(* What one live session guarantees for every amount of media, every       *)
(* number of ticks, faults, top-ups and crashes, on both ways of paying.   *)
(*                                                                         *)
(* Three arguments that do not need each other, beyond the types:          *)
(*   Numbers, Entries, Covered: what has been debited ends where the next  *)
(*     debit begins, and the number of a debit in progress is new, so that *)
(*     debits neither overlap nor leave a gap;                             *)
(*   Deadline: a grace period is never older than the last good balance;   *)
(*   Cause: nobody but the payment loop ends a session for its balance.    *)
(***************************************************************************)
EXTENDS LiveSession, TLAPS

Paying == {"debit", "tick", "finalDebit"}
Closing == {"close", "persist", "mirror", "cleanup", "done"}

(* Where the debits of this process end. *)
Frontier == IF pc \in Closing THEN snap ELSE lastDebited

Numbers ==
  /\ lastDebited <= snap /\ snap <= encoded
  /\ settled => pc \in Closing

Entries ==
  \A n \in DOMAIN ledger :
    /\ ledger[n].from <= ledger[n].to /\ ledger[n].life <= restarts
    /\ ledger[n].life = restarts =>
         /\ n <= seq /\ (pc \in Paying => n < seq)
         /\ ledger[n].to <= snap
         /\ lost \/ ledger[n].to <= Frontier

Owned == \A n \in DOMAIN ledger : ledger[n].life = restarts

Covered ==
  Owned => \A x \in 1..(IF settled THEN snap ELSE lastDebited) :
             \E n \in DOMAIN ledger : x \in Charged(n)

Money == Numbers /\ Entries /\ Covered /\ ChargedOnce

Deadline == grace <= sinceOK + 1

Cause == reason \in {"graceful", "admin_stop", "session_worker_failed"}

(* TypeOK, in four parts. *)
LoopTypes ==
  /\ pc \in Places /\ closeReason \in Reasons
  /\ snap \in 0..MaxEncoded /\ lastDebited \in 0..MaxEncoded
  /\ encoded \in 0..MaxEncoded /\ seq \in Nat
  /\ grace \in 0..(GraceTicks + 2) /\ sinceOK \in 0..(GraceTicks + 1)
  /\ asked \in 0..(TopupInterval + 2)

FlagTypes ==
  /\ low \in BOOLEAN /\ settled \in BOOLEAN /\ cancelled \in BOOLEAN
  /\ listed \in BOOLEAN /\ ticker \in BOOLEAN /\ notified \in BOOLEAN
  /\ stopped \in BOOLEAN /\ open \in BOOLEAN /\ lost \in BOOLEAN
  /\ encoder \in {"running", "clean", "failed"}
  /\ mirror \in {"none", "running", "drained"}
  /\ pipe \in {"open", "closed"} /\ hung \in {"no", "close", "error"}

Topups == [at : {"idle", "paid", "write"}, buf : StreamRecord]
RecordTypes == record \in StreamRecord /\ topup \in Topups

Debits == [from : 0..MaxEncoded, to : 0..MaxEncoded, life : Restarts]
Counters ==
  /\ pattern \in Patterns /\ restarts \in 0..MaxRestarts[pattern]
  /\ credit \in Nat /\ topups \in 0..MaxTopups[pattern] /\ faults \in 0..MaxFaults
PaymentTypes ==
  /\ Counters
  /\ \A n \in DOMAIN ledger : n \in Nat /\ ledger[n] \in Debits

Types == LoopTypes /\ FlagTypes /\ RecordTypes /\ PaymentTypes

IInv == Types /\ Money /\ Deadline /\ Cause /\ FullGrace

------------------------------------------------------------------------------
(* The initial state. *)

(* The constants, one by one. *)
LEMMA Constants ==
  /\ InitialCredit \in Nat /\ TopupUnits \in Nat /\ Runway \in Nat
  /\ TopupInterval \in Nat /\ MaxEncoded \in Nat /\ MaxSeq \in Nat
  /\ MaxFaults \in Nat /\ GraceTicks \in Nat /\ GraceTicks > 0
  /\ \A p \in Patterns : MaxTopups[p] \in Nat /\ MaxRestarts[p] \in Nat
BY SessionAssumption

(* The idle top-up has its type. *)
LEMMA NoTopupType == NoTopup \in Topups
BY DEF NoTopup, Topups, StreamRecord, Phases

(* The initial state but for the mirror and the empty ledger, which the    *)
(* provers read differently.                                               *)
Start ==
  /\ pc = "select" /\ closeReason = "graceful"
  /\ snap = 0 /\ lastDebited = 0 /\ seq = 0
  /\ low = FALSE /\ grace = 0 /\ settled = FALSE
  /\ reason = "graceful" /\ cancelled = FALSE /\ listed = TRUE
  /\ record = [phase |-> "streaming", seq |-> 0]
  /\ encoded = 0 /\ encoder = "running" /\ ticker = FALSE
  /\ pipe = "open" /\ hung = "no" /\ notified = FALSE
  /\ stopped = FALSE /\ topup = NoTopup
  /\ credit = InitialCredit /\ open = TRUE /\ lost = FALSE
  /\ pattern \in Patterns /\ asked = 0
  /\ sinceOK = 0 /\ topups = 0 /\ restarts = 0 /\ faults = 0

(* The invariant holds when Accept starts the session. *)
LEMMA InitIInv == Init => IInv
<1> SUFFICES ASSUME Init PROVE IInv OBVIOUS
<1>1. Start BY Zenon DEF Init, Start
<1>2. mirror \in {"none", "running", "drained"} BY Zenon DEF Init
<1>3. ledger = << >> BY Zenon DEF Init
<1>4. DOMAIN ledger = {} BY <1>3
<1>5. Types
  <2>1. LoopTypes BY <1>1, Constants DEF Start, LoopTypes, Places, Reasons
  <2>2. FlagTypes BY <1>1, <1>2 DEF Start, FlagTypes
  <2>3. RecordTypes
    BY <1>1, NoTopupType DEF Start, RecordTypes, StreamRecord, Phases
  <2>4. PaymentTypes BY <1>1, <1>4, Constants DEF Start, PaymentTypes, Counters
  <2>5. QED BY <2>1, <2>2, <2>3, <2>4 DEF Types
<1>6. Money
  BY <1>1, <1>4
  DEF Start, Money, Numbers, Entries, Covered, ChargedOnce, Disjoint
<1>7. QED BY <1>1, <1>5, <1>6 DEF Start, IInv, Deadline, Cause, FullGrace

------------------------------------------------------------------------------
(* Types. *)

(* A debit that is applied adds one entry under a new number. *)
LEMMA AppliedIs ==
  ASSUME ledger' = Applied(lastDebited, snap)
  PROVE  /\ DOMAIN ledger' = DOMAIN ledger \cup {seq}
         /\ \A n \in DOMAIN ledger : ledger'[n] = ledger[n]
         /\ seq \notin DOMAIN ledger => ledger'[seq] =
              [from |-> lastDebited, to |-> snap, life |-> restarts]
BY DEF Applied

(* The goroutine's variables keep their types; a deadline is no older than *)
(* the last good balance, and only the payment loop closes a session for   *)
(* its balance, when the deadline is a whole grace period old.             *)
LEMMA LoopStep ==
  IInv /\ [Next]_vars => LoopTypes' /\ Deadline' /\ Cause' /\ FullGrace'
<1> SUFFICES ASSUME IInv, [Next]_vars
             PROVE  LoopTypes' /\ Deadline' /\ Cause' /\ FullGrace'
  OBVIOUS
<1> DEFINE Kept == LoopTypes' /\ Deadline' /\ Cause' /\ FullGrace'
<1>0. LoopTypes /\ RecordTypes /\ Deadline /\ Cause /\ FullGrace
  BY DEF IInv, Types
<1> USE Constants DEF LoopTypes, RecordTypes, StreamRecord, Places, Reasons,
        Deadline, Cause, FullGrace, session, control, media, path, InLoop,
        EndWith, PaymentLost, setReason
<1>1. CASE SelectDone BY <1>0, <1>1 DEF SelectDone
<1>2. CASE SelectEncoder BY <1>0, <1>2 DEF SelectEncoder
<1>3. CASE Tick BY <1>0, <1>3 DEF Tick
<1>4. CASE Debit BY <1>0, <1>4 DEF Debit
<1>5. CASE BalanceLow BY <1>0, <1>5 DEF BalanceLow
<1>6. CASE BalanceOK BY <1>0, <1>6 DEF BalanceOK
<1>7. CASE BalanceFails BY <1>0, <1>7 DEF BalanceFails
<1>8. CASE ShellTick BY <1>0, <1>8 DEF ShellTick
<1>9. CASE SessionTickFails BY <1>0, <1>9 DEF SessionTickFails
<1>10. CASE SessionTick BY <1>0, <1>10 DEF SessionTick
<1>11. CASE ShellTopup BY <1>0, <1>11 DEF ShellTopup
<1>12. CASE FinalRead BY <1>0, <1>12 DEF FinalRead
<1>13. CASE FinalDebit BY <1>0, <1>13 DEF FinalDebit
<1>14. CASE CloseSession BY <1>0, <1>14 DEF CloseSession
<1>15. CASE SessionEnded BY <1>0, <1>15 DEF SessionEnded
<1>16. CASE Persist BY <1>0, <1>16 DEF Persist
<1>17. CASE MirrorWait BY <1>0, <1>17 DEF MirrorWait
<1>18. CASE Cleanup BY <1>0, <1>18 DEF Cleanup
<1>19. CASE Clock BY <1>0, <1>19 DEF Clock
<1>20. CASE Encode BY <1>0, <1>20 DEF Encode
<1>21. CASE EncoderExits BY <1>0, <1>21 DEF EncoderExits
<1>22. CASE MirrorDrains BY <1>0, <1>22 DEF MirrorDrains
<1>23. ASSUME NEW how \in {"close", "error"}, HangUp(how) PROVE Kept
  BY <1>0, <1>23 DEF HangUp
<1>24. CASE OnEnd BY <1>0, <1>24 DEF OnEnd
<1>25. CASE Stop BY <1>0, <1>25 DEF Stop
<1>26. CASE TopupPay BY <1>0, <1>26 DEF TopupPay
<1>27. CASE StreamTopup BY <1>0, <1>27 DEF StreamTopup
<1>28. CASE TopupRead BY <1>0, <1>28 DEF TopupRead
<1>29. CASE TopupWrite BY <1>0, <1>29 DEF TopupWrite
<1>30. CASE Restart BY <1>0, <1>30 DEF Restart
<1>31. CASE UNCHANGED vars BY <1>0, <1>31 DEF vars
<1>32. QED
  BY <1>1, <1>2, <1>3, <1>4, <1>5, <1>6, <1>7, <1>8, <1>9, <1>10, <1>11,
     <1>12, <1>13, <1>14, <1>15, <1>16, <1>17, <1>18, <1>19, <1>20, <1>21,
     <1>22, <1>23, <1>24, <1>25, <1>26, <1>27, <1>28, <1>29, <1>30, <1>31
  DEF Next, SessionStep, TopupStep

(* The flags around the goroutine keep their types. *)
LEMMA FlagStep == IInv /\ [Next]_vars => FlagTypes'
<1> SUFFICES ASSUME IInv, [Next]_vars PROVE FlagTypes' OBVIOUS
<1> DEFINE Kept == FlagTypes'
<1>0. FlagTypes /\ RecordTypes BY DEF IInv, Types
<1> USE DEF FlagTypes, RecordTypes, StreamRecord, session, control, media, ingest, daemon, requests,
        DebitLost
<1>1. CASE SelectDone BY <1>0, <1>1 DEF SelectDone
<1>2. CASE SelectEncoder BY <1>0, <1>2 DEF SelectEncoder
<1>3. CASE Tick
  <2>1. ticker' \in BOOLEAN BY Zenon, <1>0, <1>3 DEF Tick
  <2>2. QED BY <1>0, <1>3, <2>1 DEF Tick
<1>4. CASE Debit
  <2>1. lost' \in BOOLEAN BY Zenon, <1>0, <1>4 DEF Debit
  <2>2. QED BY <1>0, <1>4, <2>1 DEF Debit
<1>5. CASE BalanceLow BY <1>0, <1>5 DEF BalanceLow
<1>6. CASE BalanceOK
  <2>1. low' \in BOOLEAN BY Zenon, <1>0, <1>6 DEF BalanceOK
  <2>2. QED BY <1>0, <1>6, <2>1 DEF BalanceOK
<1>7. CASE BalanceFails BY <1>0, <1>7 DEF BalanceFails
<1>8. CASE ShellTick
  <2>1. ticker' \in BOOLEAN BY Zenon, <1>0, <1>8 DEF ShellTick
  <2>2. QED BY <1>0, <1>8, <2>1 DEF ShellTick
<1>9. CASE SessionTickFails
  <2>1. lost' \in BOOLEAN BY Zenon, <1>0, <1>9 DEF SessionTickFails
  <2>2. QED BY <1>0, <1>9, <2>1 DEF SessionTickFails
<1>10. CASE SessionTick BY <1>0, <1>10 DEF SessionTick
<1>11. CASE ShellTopup BY <1>0, <1>11 DEF ShellTopup
<1>12. CASE FinalRead
  <2>1. settled' \in BOOLEAN BY Zenon, <1>0, <1>12 DEF FinalRead
  <2>2. low' \in BOOLEAN BY Zenon, <1>0, <1>12 DEF FinalRead
  <2>3. ticker' \in BOOLEAN BY Zenon, <1>0, <1>12 DEF FinalRead
  <2>4. QED BY <1>0, <1>12, <2>1, <2>2, <2>3 DEF FinalRead
<1>13. CASE FinalDebit
  <2>1. settled' \in BOOLEAN BY Zenon, <1>0, <1>13 DEF FinalDebit
  <2>2. lost' \in BOOLEAN BY Zenon, <1>0, <1>13 DEF FinalDebit
  <2>3. QED BY <1>0, <1>13, <2>1, <2>2 DEF FinalDebit
<1>14. CASE CloseSession
  <2>1. open' \in BOOLEAN BY Zenon, <1>0, <1>14 DEF CloseSession
  <2>2. QED BY <1>0, <1>14, <2>1 DEF CloseSession
<1>15. CASE SessionEnded
  <2>1. open' \in BOOLEAN BY Zenon, <1>0, <1>15 DEF SessionEnded
  <2>2. QED BY <1>0, <1>15, <2>1 DEF SessionEnded
<1>16. CASE Persist BY <1>0, <1>16 DEF Persist
<1>17. CASE MirrorWait BY <1>0, <1>17 DEF MirrorWait
<1>18. CASE Cleanup BY ZenonT(60), <1>0, <1>18 DEF Cleanup
<1>19. CASE Clock BY <1>0, <1>19 DEF Clock
<1>20. CASE Encode BY <1>0, <1>20 DEF Encode
<1>21. CASE EncoderExits BY <1>0, <1>21 DEF EncoderExits
<1>22. CASE MirrorDrains BY <1>0, <1>22 DEF MirrorDrains
<1>23. ASSUME NEW how \in {"close", "error"}, HangUp(how) PROVE Kept
  BY <1>0, <1>23 DEF HangUp
<1>24. CASE OnEnd BY <1>0, <1>24 DEF OnEnd
<1>25. CASE Stop BY <1>0, <1>25 DEF Stop
<1>26. CASE TopupPay BY <1>0, <1>26 DEF TopupPay
<1>27. CASE StreamTopup BY <1>0, <1>27 DEF StreamTopup
<1>28. CASE TopupRead BY <1>0, <1>28 DEF TopupRead
<1>29. CASE TopupWrite BY <1>0, <1>29 DEF TopupWrite
<1>30. CASE Restart BY <1>0, <1>30 DEF Restart
<1>31. CASE UNCHANGED vars BY <1>0, <1>31 DEF vars
<1>32. QED
  BY <1>1, <1>2, <1>3, <1>4, <1>5, <1>6, <1>7, <1>8, <1>9, <1>10, <1>11,
     <1>12, <1>13, <1>14, <1>15, <1>16, <1>17, <1>18, <1>19, <1>20, <1>21,
     <1>22, <1>23, <1>24, <1>25, <1>26, <1>27, <1>28, <1>29, <1>30, <1>31
  DEF Next, SessionStep, TopupStep

(* What the goroutine and a top-up make of the record is a record. *)
LEMMA RecordEdits ==
  ASSUME NEW r \in StreamRecord
  PROVE  /\ \A ph \in Phases : [r EXCEPT !.phase = ph] \in StreamRecord
         /\ [r EXCEPT !.seq = @ + 1] \in StreamRecord
         /\ \A ph \in Phases, n \in Nat :
              [phase |-> ph, seq |-> n] \in StreamRecord
         /\ r.seq + 1 \in Nat
BY DEF StreamRecord

(* So is what is made of a top-up. *)
LEMMA TopupEdits ==
  ASSUME NEW t \in Topups
  PROVE  /\ [t EXCEPT !.at = "paid"] \in Topups /\ t.buf \in StreamRecord
         /\ \A r \in StreamRecord : [at |-> "write", buf |-> r] \in Topups
BY DEF Topups

(* The phase a session ends with is a phase. *)
LEMMA TerminalPhases == TerminalPhase \in Phases
BY Zenon DEF TerminalPhase, Phases

(* The record and the top-up in flight keep their types. *)
LEMMA RecordStep == IInv /\ [Next]_vars => RecordTypes'
<1> SUFFICES ASSUME IInv, [Next]_vars PROVE RecordTypes' OBVIOUS
<1> DEFINE Kept == RecordTypes'
<1>0. RecordTypes /\ seq \in Nat BY DEF IInv, Types, LoopTypes
<1>r. record \in StreamRecord /\ topup \in Topups BY <1>0 DEF RecordTypes
<1>p. {"streaming", "low_balance", "payment_unreachable", "closed",
       "encoder_failed", "balance_exhausted"} = Phases
  BY DEF Phases
<1> USE <1>r, <1>p, RecordEdits, TopupEdits,
        TerminalPhases, NoTopupType DEF RecordTypes, requests, PaymentLost
<1>1. CASE SelectDone BY <1>0, <1>1 DEF SelectDone
<1>2. CASE SelectEncoder BY <1>0, <1>2 DEF SelectEncoder
<1>3. CASE Tick BY <1>0, <1>3 DEF Tick
<1>4. CASE Debit BY <1>0, <1>4 DEF Debit
<1>5. CASE BalanceLow BY <1>0, <1>5 DEF BalanceLow
<1>6. CASE BalanceOK BY <1>0, <1>6 DEF BalanceOK
<1>7. CASE BalanceFails BY <1>0, <1>7 DEF BalanceFails
<1>8. CASE ShellTick BY <1>0, <1>8 DEF ShellTick
<1>9. CASE SessionTickFails BY <1>0, <1>9 DEF SessionTickFails
<1>10. CASE SessionTick BY <1>0, <1>10 DEF SessionTick
<1>11. CASE ShellTopup BY <1>0, <1>11 DEF ShellTopup
<1>12. CASE FinalRead BY <1>0, <1>12 DEF FinalRead
<1>13. CASE FinalDebit BY <1>0, <1>13 DEF FinalDebit
<1>14. CASE CloseSession BY <1>0, <1>14 DEF CloseSession
<1>15. CASE SessionEnded BY <1>0, <1>15 DEF SessionEnded
<1>16. CASE Persist BY <1>0, <1>16 DEF Persist
<1>17. CASE MirrorWait BY <1>0, <1>17 DEF MirrorWait
<1>18. CASE Cleanup BY <1>0, <1>18 DEF Cleanup
<1>19. CASE Clock BY <1>0, <1>19 DEF Clock
<1>20. CASE Encode BY <1>0, <1>20 DEF Encode
<1>21. CASE EncoderExits BY <1>0, <1>21 DEF EncoderExits
<1>22. CASE MirrorDrains BY <1>0, <1>22 DEF MirrorDrains
<1>23. ASSUME NEW how \in {"close", "error"}, HangUp(how) PROVE Kept
  BY <1>0, <1>23 DEF HangUp
<1>24. CASE OnEnd BY <1>0, <1>24 DEF OnEnd
<1>25. CASE Stop BY <1>0, <1>25 DEF Stop
<1>26. CASE TopupPay BY <1>0, <1>26 DEF TopupPay
<1>27. CASE StreamTopup BY <1>0, <1>27 DEF StreamTopup
<1>28. CASE TopupRead BY <1>0, <1>28 DEF TopupRead
<1>29. CASE TopupWrite BY <1>0, <1>29 DEF TopupWrite
<1>30. CASE Restart BY <1>0, <1>30 DEF Restart
<1>31. CASE UNCHANGED vars BY <1>0, <1>31 DEF vars
<1>32. QED
  BY <1>1, <1>2, <1>3, <1>4, <1>5, <1>6, <1>7, <1>8, <1>9, <1>10, <1>11,
     <1>12, <1>13, <1>14, <1>15, <1>16, <1>17, <1>18, <1>19, <1>20, <1>21,
     <1>22, <1>23, <1>24, <1>25, <1>26, <1>27, <1>28, <1>29, <1>30, <1>31
  DEF Next, SessionStep, TopupStep

------------------------------------------------------------------------------
(* The side that is paid. *)

(* A step leaves the ledger alone or applies the debit under way. *)
LEMMA LedgerStep ==
  [Next]_vars => ledger' = ledger \/ ledger' = Applied(lastDebited, snap)
<1> SUFFICES ASSUME [Next]_vars
             PROVE  ledger' = ledger \/ ledger' = Applied(lastDebited, snap)
  OBVIOUS
<1> DEFINE Kept == ledger' = ledger \/ ledger' = Applied(lastDebited, snap)
<1>0. TRUE OBVIOUS
<1> USE DEF daemon
<1>1. CASE SelectDone BY <1>0, <1>1 DEF SelectDone
<1>2. CASE SelectEncoder BY <1>0, <1>2 DEF SelectEncoder
<1>3. CASE Tick BY <1>0, <1>3 DEF Tick
<1>4. CASE Debit BY <1>0, <1>4 DEF Debit, DebitLost
<1>5. CASE BalanceLow BY <1>0, <1>5 DEF BalanceLow
<1>6. CASE BalanceOK BY <1>0, <1>6 DEF BalanceOK
<1>7. CASE BalanceFails BY <1>0, <1>7 DEF BalanceFails
<1>8. CASE ShellTick BY <1>0, <1>8 DEF ShellTick
<1>9. CASE SessionTickFails BY <1>0, <1>9 DEF SessionTickFails, DebitLost
<1>10. CASE SessionTick BY <1>0, <1>10 DEF SessionTick, DebitLost
<1>11. CASE ShellTopup BY <1>0, <1>11 DEF ShellTopup
<1>12. CASE FinalRead BY <1>0, <1>12 DEF FinalRead
<1>13. CASE FinalDebit BY <1>0, <1>13 DEF FinalDebit, DebitLost
<1>14. CASE CloseSession BY <1>0, <1>14 DEF CloseSession
<1>15. CASE SessionEnded BY <1>0, <1>15 DEF SessionEnded
<1>16. CASE Persist BY <1>0, <1>16 DEF Persist
<1>17. CASE MirrorWait BY <1>0, <1>17 DEF MirrorWait
<1>18. CASE Cleanup BY <1>0, <1>18 DEF Cleanup
<1>19. CASE Clock BY <1>0, <1>19 DEF Clock
<1>20. CASE Encode BY <1>0, <1>20 DEF Encode
<1>21. CASE EncoderExits BY <1>0, <1>21 DEF EncoderExits
<1>22. CASE MirrorDrains BY <1>0, <1>22 DEF MirrorDrains
<1>23. ASSUME NEW how \in {"close", "error"}, HangUp(how) PROVE Kept
  BY <1>0, <1>23 DEF HangUp
<1>24. CASE OnEnd BY <1>0, <1>24 DEF OnEnd
<1>25. CASE Stop BY <1>0, <1>25 DEF Stop
<1>26. CASE TopupPay BY <1>0, <1>26 DEF TopupPay
<1>27. CASE StreamTopup BY <1>0, <1>27 DEF StreamTopup
<1>28. CASE TopupRead BY <1>0, <1>28 DEF TopupRead
<1>29. CASE TopupWrite BY <1>0, <1>29 DEF TopupWrite
<1>30. CASE Restart BY <1>0, <1>30 DEF Restart
<1>31. CASE UNCHANGED vars BY <1>0, <1>31 DEF vars
<1>32. QED
  BY <1>1, <1>2, <1>3, <1>4, <1>5, <1>6, <1>7, <1>8, <1>9, <1>10, <1>11,
     <1>12, <1>13, <1>14, <1>15, <1>16, <1>17, <1>18, <1>19, <1>20, <1>21,
     <1>22, <1>23, <1>24, <1>25, <1>26, <1>27, <1>28, <1>29, <1>30, <1>31
  DEF Next, SessionStep, TopupStep

(* The counters keep their types. *)
LEMMA CounterStep == IInv /\ [Next]_vars => Counters'
<1> SUFFICES ASSUME IInv, [Next]_vars PROVE Counters' OBVIOUS
<1> DEFINE Kept == Counters'
<1>0. Counters BY DEF IInv, Types, PaymentTypes
<1> USE Constants DEF Counters, daemon, path, requests, CallFails
<1>1. CASE SelectDone BY <1>0, <1>1 DEF SelectDone
<1>2. CASE SelectEncoder BY <1>0, <1>2 DEF SelectEncoder
<1>3. CASE Tick BY <1>0, <1>3 DEF Tick
<1>4. CASE Debit BY <1>0, <1>4 DEF Debit
<1>5. CASE BalanceLow BY <1>0, <1>5 DEF BalanceLow
<1>6. CASE BalanceOK BY <1>0, <1>6 DEF BalanceOK
<1>7. CASE BalanceFails BY <1>0, <1>7 DEF BalanceFails
<1>8. CASE ShellTick BY <1>0, <1>8 DEF ShellTick
<1>9. CASE SessionTickFails BY <1>0, <1>9 DEF SessionTickFails
<1>10. CASE SessionTick BY <1>0, <1>10 DEF SessionTick
<1>11. CASE ShellTopup BY <1>0, <1>11 DEF ShellTopup
<1>12. CASE FinalRead BY <1>0, <1>12 DEF FinalRead
<1>13. CASE FinalDebit BY <1>0, <1>13 DEF FinalDebit
<1>14. CASE CloseSession
  <2>1. /\ faults' = faults \/ (faults < MaxFaults /\ faults' = faults + 1)
        /\ credit' = credit /\ path' = path /\ requests' = requests
    BY Zenon, <1>14 DEF CloseSession
  <2>2. QED BY <1>0, <2>1
<1>15. CASE SessionEnded
  <2>1. /\ faults' = faults \/ (faults < MaxFaults /\ faults' = faults + 1)
        /\ credit' = credit /\ path' = path /\ requests' = requests
    BY Zenon, <1>15 DEF SessionEnded
  <2>2. QED BY <1>0, <2>1
<1>16. CASE Persist BY <1>0, <1>16 DEF Persist
<1>17. CASE MirrorWait BY <1>0, <1>17 DEF MirrorWait
<1>18. CASE Cleanup BY <1>0, <1>18 DEF Cleanup
<1>19. CASE Clock BY <1>0, <1>19 DEF Clock
<1>20. CASE Encode BY <1>0, <1>20 DEF Encode
<1>21. CASE EncoderExits BY <1>0, <1>21 DEF EncoderExits
<1>22. CASE MirrorDrains BY <1>0, <1>22 DEF MirrorDrains
<1>23. ASSUME NEW how \in {"close", "error"}, HangUp(how) PROVE Kept
  BY <1>0, <1>23 DEF HangUp
<1>24. CASE OnEnd BY <1>0, <1>24 DEF OnEnd
<1>25. CASE Stop BY <1>0, <1>25 DEF Stop
<1>26. CASE TopupPay BY <1>0, <1>26 DEF TopupPay
<1>27. CASE StreamTopup BY <1>0, <1>27 DEF StreamTopup
<1>28. CASE TopupRead BY <1>0, <1>28 DEF TopupRead
<1>29. CASE TopupWrite BY <1>0, <1>29 DEF TopupWrite
<1>30. CASE Restart BY <1>0, <1>30 DEF Restart
<1>31. CASE UNCHANGED vars BY <1>0, <1>31 DEF vars
<1>32. QED
  BY <1>1, <1>2, <1>3, <1>4, <1>5, <1>6, <1>7, <1>8, <1>9, <1>10, <1>11,
     <1>12, <1>13, <1>14, <1>15, <1>16, <1>17, <1>18, <1>19, <1>20, <1>21,
     <1>22, <1>23, <1>24, <1>25, <1>26, <1>27, <1>28, <1>29, <1>30, <1>31
  DEF Next, SessionStep, TopupStep

(* So does the ledger. *)
LEMMA PaymentStep == IInv /\ [Next]_vars => PaymentTypes'
<1> SUFFICES ASSUME IInv, [Next]_vars PROVE PaymentTypes' OBVIOUS
<1>1. \A n \in DOMAIN ledger : n \in Nat /\ ledger[n] \in Debits
  BY DEF IInv, Types, PaymentTypes
<1>2. restarts \in Restarts
  <2>1. Counters BY DEF IInv, Types, PaymentTypes
  <2>2. QED BY <2>1, Constants DEF Counters, Restarts
<1>3. [from |-> lastDebited, to |-> snap, life |-> restarts] \in Debits
  BY <1>2 DEF IInv, Types, LoopTypes, Debits
<1>4. seq \in Nat BY DEF IInv, Types, LoopTypes
<1>5. \A n \in DOMAIN ledger' : n \in Nat /\ ledger'[n] \in Debits
  <2>5. CASE ledger' = ledger BY <1>1, <2>5
  <2>6. CASE ledger' = Applied(lastDebited, snap)
    BY <1>1, <1>3, <1>4, <2>6, AppliedIs
  <2>7. QED BY <2>5, <2>6, LedgerStep
<1>6. QED BY <1>5, CounterStep DEF PaymentTypes

------------------------------------------------------------------------------
(* Debits. *)

(* A step that neither reads the encoder nor calls the paid side. *)
LEMMA QuietMoney ==
  ASSUME IInv,
         UNCHANGED <<snap, lastDebited, seq, settled, ledger, lost, restarts>>,
         encoded \in Nat, encoded' \in Nat, encoded <= encoded',
         pc' \in Paying => pc \in Paying,
         pc' \in Closing <=> pc \in Closing
  PROVE  Money'
<1>1. Money /\ snap \in Nat BY DEF IInv, Types, LoopTypes
<1>2. Numbers' BY <1>1 DEF Money, Numbers
<1>3. Entries' BY <1>1 DEF Money, Entries, Frontier
<1>4. Covered' BY <1>1 DEF Money, Covered, Owned, Charged
<1>5. ChargedOnce' BY <1>1 DEF Money, ChargedOnce, Disjoint, Charged
<1>6. QED BY <1>2, <1>3, <1>4, <1>5 DEF Money

(* A reading of the encoder, with or without a new number. *)
LEMMA ReadMoney ==
  ASSUME IInv, snap' = encoded, UNCHANGED <<encoded, lastDebited, ledger, lost, restarts>>,
         pc \notin Paying, pc \notin Closing,
         \/ seq' = seq /\ pc' \notin Paying
         \/ seq' = seq + 1,
         \/ pc' \notin Closing /\ settled' = settled
         \/ pc' \in Closing /\ encoded = lastDebited
  PROVE  Money'
<1>1. Money /\ snap \in Nat /\ encoded \in Nat /\ lastDebited \in Nat /\ seq \in Nat
  BY DEF IInv, Types, LoopTypes
<1>n. \A n \in DOMAIN ledger : n \in Nat /\ ledger[n].to \in Nat
  BY DEF IInv, Types, PaymentTypes, Debits
<1>s. ~settled BY <1>1 DEF Money, Numbers
<1>2. Numbers' BY <1>1, <1>s DEF Money, Numbers
<1>3. Entries' BY <1>1, <1>n DEF Money, Entries, Numbers, Frontier
<1>4. Covered'
  <2>1. (IF settled' THEN snap' ELSE lastDebited') = lastDebited BY <1>s
  <2>2. QED BY <1>1, <1>s, <2>1 DEF Money, Covered, Owned, Charged
<1>5. ChargedOnce' BY <1>1 DEF Money, ChargedOnce, Disjoint, Charged
<1>6. QED BY <1>2, <1>3, <1>4, <1>5 DEF Money

(* A debit is applied: its answer arrives, in the loop or at the end, or   *)
(* gets lost.                                                              *)
LEMMA AppliedMoney ==
  ASSUME IInv, pc \in Paying, pc' \notin Paying,
         ledger' = Applied(lastDebited, snap),
         UNCHANGED <<snap, seq, encoded, restarts>>,
         \/ /\ lastDebited' = snap /\ pc' \notin Closing
            /\ settled' = settled /\ lost' = lost
         \/ /\ lastDebited' = lastDebited /\ pc' \in Closing
            /\ lost' = lost
         \/ lastDebited' = lastDebited /\ lost' /\ settled' = settled
  PROVE  Money'
<1>1. Money BY DEF IInv
<1>2. /\ snap \in Nat /\ encoded \in Nat /\ lastDebited \in Nat /\ seq \in Nat
      /\ restarts \in Nat
  BY Constants DEF IInv, Types, LoopTypes, PaymentTypes, Counters
<1>3. \A n \in DOMAIN ledger :
        /\ n \in Nat /\ ledger[n].to \in Nat /\ ledger[n].from \in Nat
  BY DEF IInv, Types, PaymentTypes, Debits
<1>4. lastDebited <= snap /\ snap <= encoded /\ ~settled
  BY <1>1 DEF Money, Numbers, Paying, Closing
<1>5. /\ DOMAIN ledger' = DOMAIN ledger \cup {seq}
      /\ \A n \in DOMAIN ledger : ledger'[n] = ledger[n]
      /\ seq \notin DOMAIN ledger =>
           /\ ledger'[seq].from = lastDebited
           /\ ledger'[seq].to = snap /\ ledger'[seq].life = restarts
  <2>1. /\ DOMAIN ledger' = DOMAIN ledger \cup {seq}
        /\ \A n \in DOMAIN ledger : ledger'[n] = ledger[n]
        /\ seq \notin DOMAIN ledger => ledger'[seq] =
             [from |-> lastDebited, to |-> snap, life |-> restarts]
    BY AppliedIs
  <2> DEFINE d == [from |-> lastDebited, to |-> snap, life |-> restarts]
  <2>2. d.from = lastDebited /\ d.to = snap /\ d.life = restarts OBVIOUS
  <2>3. seq \notin DOMAIN ledger => ledger'[seq] = d BY <2>1
  <2> HIDE DEF d
  <2>4. QED BY <2>1, <2>2, <2>3
<1>6. \A n \in DOMAIN ledger :
        /\ ledger[n].from <= ledger[n].to /\ ledger[n].life <= restarts
        /\ ledger[n].life = restarts =>
             n < seq /\ ledger[n].to <= snap /\ (lost \/ ledger[n].to <= lastDebited)
  BY <1>1 DEF Money, Entries, Frontier, Paying, Closing
<1>7. Numbers' BY <1>2, <1>4 DEF Numbers
<1>8. Entries' BY <1>2, <1>3, <1>4, <1>5, <1>6 DEF Entries, Frontier
<1>9. Covered'
  <2> SUFFICES ASSUME Owned',
                      NEW x \in 1..(IF settled' THEN snap ELSE lastDebited')
               PROVE  \E n \in DOMAIN ledger' : x \in Charged(n)'
    BY DEF Covered
  <2>1. Owned BY <1>5 DEF Owned
  <2>2. seq \notin DOMAIN ledger BY <1>2, <1>3, <1>6, <2>1 DEF Owned
  <2>3. x \in Nat /\ x >= 1 /\ x <= snap BY <1>2, <1>4
  <2>4. CASE x <= lastDebited
    <3>1. x \in 1..lastDebited BY <1>2, <2>3, <2>4
    <3>2. PICK n \in DOMAIN ledger : x \in Charged(n)
      BY <1>1, <1>4, <2>1, <3>1 DEF Money, Covered
    <3>3. QED BY <1>5, <3>2 DEF Charged
  <2>5. CASE x > lastDebited
    <3>1. x \in Charged(seq)' BY <1>2, <1>5, <2>2, <2>3, <2>5 DEF Charged
    <3>2. QED BY <1>5, <3>1
  <2>6. QED BY <1>2, <2>3, <2>4, <2>5
<1>10. ChargedOnce'
  <2> SUFFICES ASSUME ~lost' PROVE Disjoint' BY DEF ChargedOnce
  <2>1. ~lost OBVIOUS
  <2>2. Disjoint BY <1>1, <2>1 DEF Money, ChargedOnce
  <2>3. SUFFICES ASSUME NEW m \in DOMAIN ledger', NEW n \in DOMAIN ledger',
                        m # n, ledger'[m].life = ledger'[n].life
                 PROVE  Charged(m)' \cap Charged(n)' = {}
    BY DEF Disjoint
  <2>4. CASE m \in DOMAIN ledger /\ n \in DOMAIN ledger
    BY <1>5, <2>2, <2>3, <2>4 DEF Disjoint, Charged
  <2>5. CASE m \notin DOMAIN ledger
    <3>1. m = seq /\ n \in DOMAIN ledger BY <1>5, <2>3, <2>5
    <3>2. ledger[n].to <= lastDebited BY <1>5, <1>6, <2>1, <2>3, <2>5, <3>1
    <3>3. QED BY <1>2, <1>3, <1>5, <2>5, <3>1, <3>2 DEF Charged
  <2>6. CASE n \notin DOMAIN ledger
    <3>1. n = seq /\ m \in DOMAIN ledger BY <1>5, <2>3, <2>6
    <3>2. ledger[m].to <= lastDebited BY <1>5, <1>6, <2>1, <2>3, <2>6, <3>1
    <3>3. QED BY <1>2, <1>3, <1>5, <2>6, <3>1, <3>2 DEF Charged
  <2>7. QED BY <2>4, <2>5, <2>6
<1>11. QED BY <1>7, <1>8, <1>9, <1>10 DEF Money

(* A failed call that was not applied, and the answer that none arrived.   *)
LEMMA UnappliedMoney ==
  ASSUME IInv, pc \in Paying, pc' \notin Paying,
         UNCHANGED <<snap, lastDebited, seq, encoded, restarts, ledger, lost, settled>>
  PROVE  Money'
<1>1. Money BY DEF IInv
<1>2. snap \in Nat /\ encoded \in Nat /\ lastDebited \in Nat
  BY DEF IInv, Types, LoopTypes
<1>3. \A n \in DOMAIN ledger : ledger[n].to \in Nat
  BY DEF IInv, Types, PaymentTypes, Debits
<1>4. pc \notin Closing BY DEF Paying, Closing
<1>5. Numbers' BY <1>1, <1>4 DEF Money, Numbers
<1>6. Entries' BY <1>1, <1>2, <1>3, <1>4 DEF Money, Numbers, Entries, Frontier
<1>7. Covered' BY <1>1 DEF Money, Covered, Owned, Charged
<1>8. ChargedOnce' BY <1>1 DEF Money, ChargedOnce, Disjoint, Charged
<1>9. QED BY <1>5, <1>6, <1>7, <1>8 DEF Money

(* A crash: no debit belongs to the new process yet. *)
LEMMA RestartMoney == IInv /\ Restart => Money'
<1> SUFFICES ASSUME IInv, Restart PROVE Money' OBVIOUS
<1>1. Money BY DEF IInv
<1>2. /\ snap' = 0 /\ lastDebited' = 0 /\ encoded' = 0 /\ seq' = 0 /\ ~settled'
      /\ restarts' = restarts + 1 /\ ledger' = ledger /\ (lost' <=> lost)
      /\ pc' \notin Closing /\ pc' \notin Paying
  BY DEF Restart, daemon, Closing, Paying
<1>3. restarts \in Nat /\ \A n \in DOMAIN ledger : ledger[n].life \in Nat
  <2>1. Counters BY DEF IInv, Types, PaymentTypes
  <2>2. \A n \in DOMAIN ledger : ledger[n].life \in Restarts
    BY DEF IInv, Types, PaymentTypes, Debits
  <2>3. Restarts \subseteq Nat BY Constants DEF Restarts
  <2>4. restarts \in Nat BY <2>1, Constants DEF Counters
  <2>5. QED BY <2>2, <2>3, <2>4
<1>4. \A n \in DOMAIN ledger :
        ledger[n].from <= ledger[n].to /\ ledger[n].life < restarts'
  BY <1>1, <1>2, <1>3 DEF Money, Entries
<1>5. Numbers' BY <1>2 DEF Numbers
<1>6. Entries' BY <1>2, <1>3, <1>4 DEF Entries
<1>7. Covered'
  <2>1. 1..(IF settled' THEN snap' ELSE lastDebited') = {} BY <1>2
  <2>2. QED BY <2>1 DEF Covered
<1>8. ChargedOnce' BY <1>1, <1>2 DEF Money, ChargedOnce, Disjoint, Charged
<1>9. QED BY <1>5, <1>6, <1>7, <1>8 DEF Money

(* Steps that leave the debits alone, read the encoder, or end a call. *)
Quiet ==
  /\ UNCHANGED <<snap, lastDebited, seq, settled, ledger, lost, restarts>>
  /\ encoded' \in Nat /\ encoded <= encoded'
  /\ pc' \in Paying => pc \in Paying
  /\ pc' \in Closing <=> pc \in Closing

Reads ==
  /\ pc \notin Paying /\ pc \notin Closing
  /\ snap' = encoded /\ UNCHANGED <<encoded, lastDebited, ledger, lost, restarts>>
  /\ \/ seq' = seq /\ pc' \notin Paying
     \/ seq' = seq + 1
  /\ \/ pc' \notin Closing /\ settled' = settled
     \/ pc' \in Closing /\ encoded = lastDebited

Ends ==
  /\ pc \in Paying /\ pc' \notin Paying
  /\ UNCHANGED <<snap, seq, encoded, restarts>>
  /\ \/ UNCHANGED <<lastDebited, ledger, lost, settled>>
     \/ /\ ledger' = Applied(lastDebited, snap)
        /\ \/ /\ lastDebited' = snap /\ pc' \notin Closing
              /\ settled' = settled /\ lost' = lost
           \/ /\ lastDebited' = lastDebited /\ pc' \in Closing
              /\ lost' = lost
           \/ lastDebited' = lastDebited /\ lost' /\ settled' = settled

(* Every step is one of these, or a crash. *)
LEMMA KindOfStep == IInv /\ [Next]_vars => Quiet \/ Reads \/ Ends \/ Restart
<1> SUFFICES ASSUME IInv, [Next]_vars PROVE Quiet \/ Reads \/ Ends \/ Restart
  OBVIOUS
<1> DEFINE Kept == Quiet \/ Reads \/ Ends \/ Restart
<1>0. encoded \in Nat BY DEF IInv, Types, LoopTypes
<1> USE DEF session, control, media, daemon, path, EndWith, Paying, Closing
<1>1. CASE SelectDone BY <1>0, <1>1 DEF SelectDone, Quiet
<1>2. CASE SelectEncoder BY <1>0, <1>2 DEF SelectEncoder, Quiet
<1>3. CASE Tick BY <1>0, <1>3 DEF Tick, Reads
<1>4. CASE Debit BY <1>0, <1>4 DEF Debit, Ends, DebitLost, PaymentLost
<1>5. CASE BalanceLow BY <1>0, <1>5 DEF BalanceLow, Quiet
<1>6. CASE BalanceOK BY <1>0, <1>6 DEF BalanceOK, Quiet
<1>7. CASE BalanceFails BY <1>0, <1>7 DEF BalanceFails, Quiet, PaymentLost
<1>8. CASE ShellTick BY <1>0, <1>8 DEF ShellTick, Reads
<1>9. CASE SessionTickFails BY <1>0, <1>9 DEF SessionTickFails, Ends, DebitLost, PaymentLost
<1>10. CASE SessionTick BY <1>0, <1>10 DEF SessionTick, Ends, DebitLost, PaymentLost
<1>11. CASE ShellTopup BY <1>0, <1>11 DEF ShellTopup, Quiet
<1>12. CASE FinalRead BY <1>0, <1>12 DEF FinalRead, Reads
<1>13. CASE FinalDebit BY <1>0, <1>13 DEF FinalDebit, Ends, DebitLost, PaymentLost
<1>14. CASE CloseSession BY <1>0, <1>14 DEF CloseSession, Quiet
<1>15. CASE SessionEnded BY <1>0, <1>15 DEF SessionEnded, Quiet
<1>16. CASE Persist BY <1>0, <1>16 DEF Persist, Quiet
<1>17. CASE MirrorWait BY <1>0, <1>17 DEF MirrorWait, Quiet
<1>18. CASE Cleanup BY <1>0, <1>18 DEF Cleanup, Quiet
<1>19. CASE Clock BY <1>0, <1>19 DEF Clock, Quiet
<1>20. CASE Encode BY <1>0, <1>20 DEF Encode, Quiet
<1>21. CASE EncoderExits BY <1>0, <1>21 DEF EncoderExits, Quiet
<1>22. CASE MirrorDrains BY <1>0, <1>22 DEF MirrorDrains, Quiet
<1>23. ASSUME NEW how \in {"close", "error"}, HangUp(how) PROVE Kept
  BY <1>0, <1>23 DEF HangUp, Quiet
<1>24. CASE OnEnd BY <1>0, <1>24 DEF OnEnd, Quiet
<1>25. CASE Stop BY <1>0, <1>25 DEF Stop, Quiet
<1>26. CASE TopupPay BY <1>0, <1>26 DEF TopupPay, Quiet
<1>27. CASE StreamTopup BY <1>0, <1>27 DEF StreamTopup, Quiet
<1>28. CASE TopupRead BY <1>0, <1>28 DEF TopupRead, Quiet
<1>29. CASE TopupWrite BY <1>0, <1>29 DEF TopupWrite, Quiet
<1>30. CASE Restart BY <1>30
<1>31. CASE UNCHANGED vars BY <1>0, <1>31 DEF vars, Quiet
<1>32. QED
  BY <1>1, <1>2, <1>3, <1>4, <1>5, <1>6, <1>7, <1>8, <1>9, <1>10, <1>11,
     <1>12, <1>13, <1>14, <1>15, <1>16, <1>17, <1>18, <1>19, <1>20, <1>21,
     <1>22, <1>23, <1>24, <1>25, <1>26, <1>27, <1>28, <1>29, <1>30, <1>31
  DEF Next, SessionStep, TopupStep

(* Debits stay disjoint, and without gaps. *)
LEMMA MoneyStep == IInv /\ [Next]_vars => Money'
<1> SUFFICES ASSUME IInv, [Next]_vars PROVE Money' OBVIOUS
<1>1. CASE Quiet
  <2>1. encoded \in Nat BY DEF IInv, Types, LoopTypes
  <2>2. QED BY <1>1, <2>1, QuietMoney DEF Quiet
<1>2. CASE Reads BY <1>2, ReadMoney DEF Reads
<1>3. CASE Ends BY <1>3, AppliedMoney, UnappliedMoney DEF Ends
<1>4. QED BY <1>1, <1>2, <1>3, RestartMoney, KindOfStep

------------------------------------------------------------------------------
(* The results. *)

(* The inductive invariant holds in every reachable state of a session. *)
THEOREM Inductive == Spec => []IInv
<1>1. IInv /\ [Next]_vars => IInv'
  BY LoopStep, FlagStep, RecordStep, PaymentStep, MoneyStep DEF IInv, Types
<1>2. QED BY <1>1, InitIInv, PTL DEF Spec

(* Type correctness of the session. *)
THEOREM TypeCorrect == Spec => []TypeOK
<1>1. IInv => TypeOK
  <2> SUFFICES ASSUME IInv PROVE TypeOK OBVIOUS
  <2>1. LoopTypes /\ FlagTypes /\ RecordTypes /\ PaymentTypes /\ Counters
    BY DEF IInv, Types, PaymentTypes
  <2>2. reason \in Reasons BY DEF IInv, Cause, Reasons
  <2>3. restarts \in Restarts BY <2>1 DEF Counters, Restarts
  <2>4. {low, settled, cancelled, listed, ticker, notified, stopped, open, lost}
          \subseteq BOOLEAN
    BY <2>1 DEF FlagTypes
  <2>5. QED
    BY <2>1, <2>2, <2>3, <2>4
    DEF TypeOK, LoopTypes, FlagTypes, RecordTypes, PaymentTypes, Counters,
        Topups, Debits
<1>2. QED BY <1>1, Inductive, PTL

(* No half-second of media is paid for twice by one process, unless a      *)
(* debit was applied and reported as failed.                               *)
THEOREM NeverChargedTwice == Spec => []ChargedOnce
<1>1. IInv => ChargedOnce BY DEF IInv, Money
<1>2. QED BY <1>1, Inductive, PTL

(* Once the closing debit has worked, what is paid for is the media up to  *)
(* the final reading, of a process that replaced none that had debited.    *)
THEOREM AllIsCharged == Spec => []EncodedIsCharged
<1>1. IInv => EncodedIsCharged
  <2> SUFFICES ASSUME IInv, settled, Owned
               PROVE  1..snap = UNION {Charged(n) : n \in DOMAIN ledger}
    BY DEF EncodedIsCharged, Owned
  <2>1. \A x \in 1..snap : \E n \in DOMAIN ledger : x \in Charged(n)
    BY DEF IInv, Money, Covered
  <2>2. ASSUME NEW n \in DOMAIN ledger, NEW x \in Charged(n)
        PROVE  x \in 1..snap
    <3>1. /\ ledger[n].from \in Nat /\ ledger[n].to \in Nat /\ snap \in Nat
      BY DEF IInv, Types, LoopTypes, PaymentTypes, Debits
    <3>2. ledger[n].to <= snap BY DEF IInv, Money, Entries, Owned
    <3>3. QED BY <2>2, <3>1, <3>2 DEF Charged
  <2>3. QED BY <2>1, <2>2
<1>2. QED BY <1>1, Inductive, PTL

(* No session is closed for its balance before a whole grace period.       *)
THEOREM GraceIsWhole == Spec => []FullGrace
<1>1. IInv => FullGrace BY DEF IInv
<1>2. QED BY <1>1, Inductive, PTL

==============================================================================
