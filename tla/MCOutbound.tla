----------------------------- MODULE MCOutbound -----------------------------
(* What leaves the worker: the mirror loop's files and the calls over HTTP.  *)
(* The two share no state, so that exploring their product would show no     *)
(* more: a behaviour is the loop's, or a call's, with the other at rest.     *)
EXTENDS Mirror, Delivery

VARIABLE explored

mcVars == <<vars, deliveryVars, explored>>

MCInit ==
  /\ Init /\ DeliveryInit
  /\ \/ explored = "call"
     \/ explored = "loop" /\ kind = "post" /\ url

MCNext ==
  \/ explored = "loop" /\ Next /\ UNCHANGED <<deliveryVars, explored>>
  \/ explored = "call" /\ DeliveryNext /\ UNCHANGED <<vars, explored>>

(* Fairness is the loop's; nothing is expected of a call in the end. *)
MCSpec ==
  MCInit /\ [][MCNext]_mcVars /\ WF_vars(MirrorStep) /\ SF_vars(FinalScan)
=============================================================================
